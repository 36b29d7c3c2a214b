-------------------------- MODULE AbstractRegistry --------------------------
(***************************************************************************)
(* What a registry promises its users, without mutexes, chunks, indices or *)
(* memory order: each shard is a log of metrics that only grows and holds  *)
(* no key twice; a thread knows some of the metrics, and all it ever got a *)
(* handle for; a visit returns a prefix of each log that holds everything  *)
(* its thread knew when it began.                                          *)
(***************************************************************************)
EXTENDS Naturals, Sequences

CONSTANTS
  Threads,
  Shards,
  Requests,
  Key,        \* the lookup key of each request
  Policy,     \* the policy of each request's handle
  ShardOf     \* the shard of each key

VARIABLES
  log,      \* the metrics of each shard, in the order of their registration
  handles,  \* every handle returned
  knows,    \* the metrics each thread knows of, as <<shard, place in its log>>
  walk,     \* whether the thread is visiting: none, running or done
  must,     \* what it knew when its visit began
  seen      \* what it has visited

visitVars == <<walk, must, seen>>
vars == <<log, handles, knows, visitVars>>

Places == UNION {{s} \X DOMAIN log[s] : s \in Shards}

At(p) == log[p[1]][p[2]]

(* Whatever is in P, all that was registered before it in its shard is.     *)
PrefixClosed(P) == \A p \in P : \A i \in 1..p[2] : <<p[1], i>> \in P

Init ==
  /\ log = [s \in Shards |-> <<>>]
  /\ handles = {}
  /\ knows = [t \in Threads |-> {}]
  /\ walk = [t \in Threads |-> "none"]
  /\ must = [t \in Threads |-> {}]
  /\ seen = [t \in Threads |-> {}]

(* A thread registers a metric that its shard does not hold yet. *)
Insert(t, r) ==
  LET s == ShardOf[Key[r]] IN
  /\ \A i \in DOMAIN log[s] : Key[log[s][i]] # Key[r]
  /\ log' = [log EXCEPT ![s] = Append(@, r)]
  /\ knows' = [knows EXCEPT ![t] = @ \cup {<<s, Len(log[s]) + 1>>}]
  /\ UNCHANGED <<handles, visitVars>>

(* It is given a handle on the metric of its key, first registered or not.  *)
Return(t, r, p) ==
  /\ p \in knows[t]
  /\ Key[At(p)] = Key[r]
  /\ handles' = handles \cup {[key |-> Key[r], item |-> p, policy |-> Policy[r]]}
  /\ UNCHANGED <<log, knows, visitVars>>

Learns(t, K) ==
  /\ knows[t] \subseteq K
  /\ knows' = [knows EXCEPT ![t] = K]

Learn(t, K) == Learns(t, K) /\ UNCHANGED <<log, handles, visitVars>>

BeginVisit(t) ==
  /\ walk[t] = "none"
  /\ walk' = [walk EXCEPT ![t] = "running"]
  /\ must' = [must EXCEPT ![t] = knows[t]]
  /\ UNCHANGED <<log, handles, knows, seen>>

(* The visit goes on, to all of P, and may end when nothing is missing. *)
Visit(t, K, P, next) ==
  /\ walk[t] = "running"
  /\ Learns(t, K)
  /\ seen[t] \subseteq P /\ PrefixClosed(P)
  /\ next = "done" => must[t] \subseteq P
  /\ seen' = [seen EXCEPT ![t] = P]
  /\ walk' = [walk EXCEPT ![t] = next]
  /\ UNCHANGED <<log, handles, must>>

EndVisit(t) ==
  /\ walk[t] = "done"
  /\ walk' = [walk EXCEPT ![t] = "none"]
  /\ must' = [must EXCEPT ![t] = {}]
  /\ seen' = [seen EXCEPT ![t] = {}]
  /\ UNCHANGED <<log, handles, knows>>

Next ==
  \E t \in Threads :
    \/ \E r \in Requests : Insert(t, r) \/ (\E p \in Places : Return(t, r, p))
    \/ \E K \in SUBSET Places :
         \/ Learn(t, K)
         \/ \E P \in SUBSET Places, next \in {"running", "done"} : Visit(t, K, P, next)
    \/ BeginVisit(t) \/ EndVisit(t)

Spec == Init /\ [][Next]_vars

============================================================================
