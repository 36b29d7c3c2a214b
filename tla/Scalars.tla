------------------------------ MODULE Scalars ------------------------------
(***************************************************************************)
(* The values behind the scalar handles, after registration: a connection  *)
(* metric (the gauge `current` and the counter `total`) with its guards, a *)
(* gauge and a counter, each one relaxed 64-bit atomic.                    *)
(*                                                                         *)
(* As in Slot, an atomic is its modification order and a relaxed load may  *)
(* return any value not older than the one the thread knows.  A store is   *)
(* put last in the order: one that an unseen store overtakes cannot be     *)
(* told from one that came first.                                          *)
(***************************************************************************)
EXTENDS Integers, Sequences, FiniteSets

CONSTANTS
  Threads,      \* threads that use the handles
  Connections,  \* the connections the application makes
  Amounts,      \* values passed to CounterMetric::add
  Deltas,       \* values passed to GaugeMetric::add and set
  MaxUpdates,   \* bound: updates of the gauge and the counter
  Modulus       \* 2^64

ASSUME ScalarsAssumption ==
  /\ IsFiniteSet(Connections)
  /\ Amounts \subseteq Nat
  /\ Deltas \subseteq Int
  /\ MaxUpdates \in Nat
  /\ Modulus \in Nat /\ Modulus > 1 /\ Modulus % 2 = 0

(* A process makes fewer than 2^63 connections, so neither the gauge nor    *)
(* the total of a ConnMetric wraps around.                                  *)
ASSUME ConnectionsAssumption == Cardinality(Connections) < Modulus \div 2

Cells == {"current", "total", "gauge", "counter"}

(* The casts between i64 and u64. *)
MutAsU64(v) == IF v < 0 THEN 0 ELSE v % Modulus
AsU64(v) == v % Modulus
AsI64(n) == IF n < Modulus \div 2 THEN n ELSE n - Modulus

VARIABLES
  cell,     \* the modification order of each ScalarSlot
  view,     \* how far into it each thread is known to be
  conn,     \* what the application and the metric hold of each connection
  owner,    \* the threads that may report, or drop the guard of, a connection
  known,    \* established connections that happen before each thread's step
  gone,     \* closed connections that do
  scraped,  \* history: the total each thread loaded last, and what it knew then
  updates,  \* updates of the gauge and the counter so far
  net,      \* history: the sum of the gauge's deltas since the last set
  added     \* history: the sum of the counter's amounts

connVars   == <<conn, owner, known, gone>>
updateVars == <<updates, net, added>>
vars == <<cell, view, connVars, scraped, updateVars>>

ConnStates ==
  {"none",        \* not made yet
   "reporting",   \* inside connected(), between the gauge and the total
   "guarding",    \* the same, inside connection()
   "connected",   \* reported; the application will call disconnected()
   "guarded",     \* held by a ConnectionGuard
   "closed"}

Init ==
  /\ cell = [c \in Cells |-> <<0>>]
  /\ view = [t \in Threads |-> [c \in Cells |-> 1]]
  /\ conn = [x \in Connections |-> "none"]
  /\ owner = [x \in Connections |-> {}]
  /\ known = [t \in Threads |-> {}]
  /\ gone = [t \in Threads |-> {}]
  /\ scraped = [t \in Threads |-> [total |-> 0, known |-> {}]]
  /\ updates = 0
  /\ net = 0
  /\ added = 0

Newest(c) == cell[c][Len(cell[c])]

(* The value a fetch_add of thread t reads. *)
MutAddTo(t, c) == cell[c][view[t][c]]
AddTo(t, c) == Newest(c)

Write(t, c, n) ==
  /\ cell' = [cell EXCEPT ![c] = Append(@, n)]
  /\ view' = [view EXCEPT ![t][c] = Len(cell[c]) + 1]

(* fetch_add wraps around. *)
FetchAdd(t, c, n) == Write(t, c, (AddTo(t, c) + n) % Modulus)

(* A thread inside connected() does nothing else before it returns. *)
Idle(t) == \A x \in Connections : conn[x] \in {"reporting", "guarding"} => owner[x] # {t}

----------------------------------------------------------------------------
(***************************************************************************)
(* ConnMetric                                                              *)
(***************************************************************************)

(* connected() and connection(): the gauge first. *)
Connect(t, x, state) ==
  /\ Idle(t)
  /\ conn[x] = "none"
  /\ FetchAdd(t, "current", AsU64(1))
  /\ conn' = [conn EXCEPT ![x] = state]
  /\ owner' = [owner EXCEPT ![x] = {t}]
  /\ UNCHANGED <<known, gone, scraped, updateVars>>

(* What connected() adds to the total when it returns. *)
MutEstablished(x) == IF conn[x] = "guarding" THEN 0 ELSE 1
Established(x) == 1

(* Then the total; connection() returns a guard. *)
Establish(t, x) ==
  /\ conn[x] \in {"reporting", "guarding"}
  /\ owner[x] = {t}
  /\ FetchAdd(t, "total", Established(x))
  /\ conn' = [conn EXCEPT ![x] = IF @ = "guarding" THEN "guarded" ELSE "connected"]
  /\ known' = [known EXCEPT ![t] = @ \cup {x}]
  /\ UNCHANGED <<owner, gone, scraped, updateVars>>

(* disconnected(), called by the application for a connection it reported,  *)
(* or by the drop of a guard.                                               *)
MutDecrements(x) == conn[x] = "connected"
Decrements(x) == TRUE

Disconnect(t, x) ==
  /\ Idle(t)
  /\ conn[x] \in {"connected", "guarded"}
  /\ owner[x] = {t}
  /\ IF Decrements(x) THEN FetchAdd(t, "current", AsU64(-1)) ELSE UNCHANGED <<cell, view>>
  /\ conn' = [conn EXCEPT ![x] = "closed"]
  /\ owner' = [owner EXCEPT ![x] = {}]
  /\ gone' = [gone EXCEPT ![t] = @ \cup {x}]
  /\ UNCHANGED <<known, scraped, updateVars>>

(***************************************************************************)
(* CounterMetric and GaugeMetric                                           *)
(***************************************************************************)
CounterAdd(t, n) ==
  /\ Idle(t)
  /\ updates < MaxUpdates
  /\ FetchAdd(t, "counter", n)
  /\ updates' = updates + 1
  /\ added' = added + n
  /\ UNCHANGED <<connVars, scraped, net>>

GaugeAdd(t, v) ==
  /\ Idle(t)
  /\ updates < MaxUpdates
  /\ FetchAdd(t, "gauge", AsU64(v))
  /\ updates' = updates + 1
  /\ net' = net + v
  /\ UNCHANGED <<connVars, scraped, added>>

GaugeSet(t, v) ==
  /\ Idle(t)
  /\ updates < MaxUpdates
  /\ Write(t, "gauge", AsU64(v))
  /\ updates' = updates + 1
  /\ net' = v
  /\ UNCHANGED <<connVars, scraped, added>>

(* get, current and total, and the loads of a scrape. *)
Get(t, c) ==
  /\ Idle(t)
  /\ \E i \in view[t][c]..Len(cell[c]) :
       /\ view' = [view EXCEPT ![t][c] = i]
       /\ scraped' = IF c = "total"
                     THEN [scraped EXCEPT ![t] = [total |-> cell[c][i], known |-> known[t]]]
                     ELSE scraped
  /\ UNCHANGED <<cell, connVars, updateVars>>

(* The application orders a step of `a` before the next of `b` and hands it *)
(* some of its connections: a guard is Send.                                *)
Synchronize(a, b, S) ==
  /\ a # b /\ Idle(a) /\ Idle(b)
  /\ \A x \in S : owner[x] = {a}
  /\ view' = [view EXCEPT ![b] = [c \in Cells |->
                IF view[a][c] > view[b][c] THEN view[a][c] ELSE view[b][c]]]
  /\ known' = [known EXCEPT ![b] = @ \cup known[a]]
  /\ gone' = [gone EXCEPT ![b] = @ \cup gone[a]]
  /\ owner' = [x \in Connections |-> IF x \in S THEN {b} ELSE owner[x]]
  /\ UNCHANGED <<cell, conn, scraped, updateVars>>

Next ==
  \/ \E t \in Threads, x \in Connections :
       \/ Connect(t, x, "reporting") \/ Connect(t, x, "guarding")
       \/ Establish(t, x) \/ Disconnect(t, x)
  \/ \E t \in Threads, n \in Amounts : CounterAdd(t, n)
  \/ \E t \in Threads, v \in Deltas : GaugeAdd(t, v) \/ GaugeSet(t, v)
  \/ \E t \in Threads, c \in Cells : Get(t, c)
  \/ \E a, b \in Threads, S \in SUBSET Connections : Synchronize(a, b, S)

Spec == Init /\ [][Next]_vars

----------------------------------------------------------------------------
(***************************************************************************)
(* Properties.                                                             *)
(***************************************************************************)

(* The types of the variables, for the proofs: a value of an atomic cannot  *)
(* leave its width, so no run checks them.                                  *)
TypeOK ==
  /\ cell \in [Cells -> Seq(0..(Modulus - 1))]
  /\ view \in [Threads -> [Cells -> Nat]]
  /\ conn \in [Connections -> ConnStates]
  /\ owner \in [Connections -> SUBSET Threads]
  /\ known \in [Threads -> SUBSET Connections]
  /\ gone \in [Threads -> SUBSET Connections]
  /\ scraped \in [Threads -> [total : 0..(Modulus - 1), known : SUBSET Connections]]
  /\ updates \in 0..MaxUpdates
  /\ net \in Int /\ added \in Nat
  /\ \A t \in Threads, c \in Cells : view[t][c] \in 1..Len(cell[c])

Live == {x \in Connections : conn[x] \notin {"none", "closed"}}
Connecting == {x \in Connections : conn[x] \in {"reporting", "guarding"}}
EverEstablished == {x \in Connections : conn[x] \notin {"none", "reporting", "guarding"}}
Begun == {x \in Connections : conn[x] # "none"}

(* A guard decrements the gauge exactly once, wherever it is dropped        *)
(* (scalar.rs:334): `current` is the number of live connections.            *)
GuardsBalance == AsI64(Newest("current")) = Cardinality(Live)

(* `total` counts successful establishments and is never behind `current`   *)
(* by more than the calls that are between their two updates                *)
(* (scalar.rs:311).                                                         *)
SkewBounded ==
  /\ Newest("total") = Cardinality(EverEstablished) % Modulus
  /\ AsI64(Newest("current")) <= Newest("total") + Cardinality(Connecting)

(* No thread can load a total that misses a connection established before   *)
(* the load, however stale relaxed loads are.                               *)
KnownConnectionsCounted ==
  \A t \in Threads :
    cell["total"][view[t]["total"]] >= Cardinality(known[t])

(* A scrape loads `total` (brz_conn_total) and, two families later,         *)
(* `current` (brz_conn): two relaxed loads, with connections made and       *)
(* closed between them (scalar.rs:311, 342).  Whichever value of `current`  *)
(* a thread can load, it has every live connection the thread knows and     *)
(* none it knows to be closed, and it is above the total the thread has     *)
(* shown only by connections the thread did not know then.                  *)
ConnectionsShown ==
  \A t \in Threads : \A i \in view[t]["current"]..Len(cell["current"]) :
    LET shown == AsI64(cell["current"][i])
    IN  /\ Cardinality(Live \cap known[t]) <= shown
        /\ shown <= Cardinality(Begun \ gone[t])
        /\ shown <= scraped[t].total + Cardinality(Begun \ scraped[t].known)

(* Negative deltas pass through u64: the gauge still is the last value set  *)
(* plus the deltas since, wrapped into i64, and no update of the counter is *)
(* lost (the test concurrent_scalar_updates_do_not_lose_values).            *)
UpdatesNotLost ==
  /\ AsI64(Newest("gauge")) =
       ((net + (Modulus \div 2)) % Modulus) - (Modulus \div 2)
  /\ Newest("counter") = added % Modulus

============================================================================
