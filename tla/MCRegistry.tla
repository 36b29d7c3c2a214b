----------------------------- MODULE MCRegistry -----------------------------
(* Small instances of Registry for TLC. *)
EXTENDS RegistryRefinement, TLC

ThreadSymmetry == Permutations(Threads)

redis == Resource("Redis", "Req")

Single(kind, name) == [api |-> "register", kind |-> kind, name |-> name]
Labelled(kind, labels) == [api |-> "register_resource", kind |-> kind, labels |-> labels]
Fanout(pol, identity, name) == NewPlan(identity, pol, Output("SERVICE", name))

Scalar(mode, kind, name) ==
  [api |-> "scalar", mode |-> mode, kind |-> kind, name |-> name]
LabelledScalar(mode, kind, labels) ==
  [api |-> "scalar_resource", mode |-> mode, kind |-> kind, labels |-> labels]

(* Three metrics of one shard: with two-entry chunks the third starts a     *)
(* chunk while the first is full.                                           *)
ThreeSingles == {Single(redis, n) : n \in {"a", "b", "c"}}
OneShard == [k \in Keys |-> 1]

(* An equal name in several maps of a shard: a labelled metric, plans of    *)
(* one identity that differ in their outputs or in their policy, what       *)
(* ConnMetric::new registers, a gauge and a counter of one kind and name,   *)
(* and registrations that are rejected.                                     *)
CollidingRequests ==
  {Labelled(redis, NewLabels("a", "e")),
   Fanout("Resource", "a", "x"), alias(Fanout("Resource", "a", "x"), Output("API", "y")),
   Fanout("Access", "a", "x"),
   Scalar("Counter", Resource("Redis", "Conn"), "a"),
   Scalar("Gauge", Resource("Redis", "Conn"), "a"),
   Single(Resource("Redis", "Conn"), "a"), Scalar("Counter", Api(600), "a")}

(* The two registries of a process, a shard of each: a request timing, and  *)
(* the gauge and the counter that ConnMetric::new_resource registers.       *)
ProcessRequests ==
  {Single(redis, "a")}
  \cup {LabelledScalar(mode, Resource("Redis", "Conn"), NewLabels("a", "e")) :
          mode \in {"Counter", "Gauge"}}
OneShardEach ==
  [k \in Keys |-> IF \E r \in Requests : LookupKey(r) = k /\ IsScalar(r) THEN 2 ELSE 1]

============================================================================
