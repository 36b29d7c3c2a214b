------------------------------ MODULE MCReader ------------------------------
(* Small instances of Reader for TLC. *)
EXTENDS Reader, TLC

Meta(item, request) == [item |-> item, profile |-> request]
Single(kind, name) == [api |-> "register", kind |-> kind, name |-> name]
Labelled(kind, labels) == [api |-> "register_resource", kind |-> kind, labels |-> labels]
Scalar(mode, kind, name) == [api |-> "scalar", mode |-> mode, kind |-> kind, name |-> name]
LabelledScalar(mode, kind, labels) ==
  [api |-> "scalar_resource", mode |-> mode, kind |-> kind, labels |-> labels]

atE == NewLabels("u", "e")
apiU    == Output("API", "u")
service == Output("SERVICE", "app")

(* The outputs of the instances in the order of ProfileOutput. *)
AllOutputs ==
  <<apiU, [apiU EXCEPT !.resource = <<atE>>],
    [Output("REDIS", "u") EXCEPT !.resource = <<with_role(atE, "read")>>],
    [Output("REDIS", "u") EXCEPT !.resource = <<with_role(with_access(atE, "read"), "write")>>],
    service>>

(* Metrics that share the labels type="API", name="u": a status code as a   *)
(* timing slot and as a counter, the summary, a timeout and a plan that     *)
(* repeats an alias and aggregates into the summary; the summary of a       *)
(* resource; and connections of one endpoint that differ in their role.     *)
SharedLabels ==
  {Meta(1, api_status("u", 503)), Meta(2, Single(Plain("ApiAll"), "u")),
   Meta(3, Scalar("Counter", Api(503), "u")),
   Meta(4, aggregate(alias(NewPlan("p", "Service", service), service), apiU)),
   Meta(5, Scalar("Counter", Plain("ApiTimeout"), "u")),
   Meta(6, Labelled(Plain("ApiAll"), atE))}
Connections ==
  {Meta(7, LabelledScalar("Gauge", Resource("Redis", "Conn"), with_role(atE, "read"))),
   Meta(8, LabelledScalar("Gauge", Resource("Redis", "Conn"),
                          with_role(with_access(atE, "read"), "write")))}
ManyMetrics == SharedLabels \cup Connections
EarlyMetrics == {m \in ManyMetrics : m.item \notin 2..4}

(* Two slots under one output, and the gauges of three kinds that all have  *)
(* the type API.                                                            *)
SummedSlots ==
  {Meta(1, NewPlan("p", "Service", service)), Meta(2, NewPlan("q", "Service", service)),
   Meta(3, Scalar("Gauge", Api(503), "u")), Meta(4, Scalar("Gauge", Plain("ApiAll"), "u")),
   Meta(5, Scalar("Gauge", Plain("ApiTimeout"), "u"))}

NoMetas == {}
NoUpdates == {}
Up(item, counter, amount) == [item |-> item, counter |-> counter, amount |-> amount]

(* Four milliseconds in each slot round up only after they are summed; the  *)
(* rest are the ends of u64 and i64 at the width of the instance.           *)
EdgeUpdates ==
       {Up(1, "elapsed_us", 4000), Up(2, "elapsed_us", 4000), Up(1, "elapsed_us", Top)}
  \cup {Up(g, "value", Limit) : g \in {3, 4}}
  \cup {Up(g, "value", -Limit - 1) : g \in {4, 5}}

NoStates  == <<>>
TwoStates == <<<<"Service", "nodes">>, <<"Service", "text">>>>
SomeValues == {0, 7, NotNumeric}
TwoValues == {7, NotNumeric}

(* A count of timeouts and a gauge of connections, and an update of the first. *)
TwoScalars ==
  {Meta(1, Scalar("Counter", Plain("ApiTimeout"), "u")),
   Meta(2, LabelledScalar("Gauge", Resource("Redis", "Conn"), with_role(atE, "read")))}
OneUpdate == {Up(1, "value", 1)}
StatusMetric == {Meta(1, api_status("u", 503))}

============================================================================
