------------------------------ MODULE Requests ------------------------------
(***************************************************************************)
(* The registrations an application can ask for, as records: the entry     *)
(* point `api` and its arguments.  Pure data; no state.                    *)
(***************************************************************************)
EXTENDS MetricTypes, Sequences

Apis == {"register", "register_resource", "register_profile", "scalar", "scalar_resource"}

(* The typed constructors of Metric, which register under the name given. *)
Constructors ==
  [log |-> Plain("Log"), redis |-> Resource("Redis", "Req"),
   mysql |-> Resource("Mysql", "Req"), mc |-> Resource("Memcache", "Req"),
   mc_detail |-> Plain("McDetail"), http |-> Resource("Http", "Req"),
   http_all |-> Plain("HttpAll"), api |-> Plain("ApiAll"), api_3xx |-> Plain("Api3xx"),
   api_4xx |-> Plain("Api4xx"), api_5xx |-> Plain("Api5xx"),
   api_timeout |-> Plain("ApiTimeout"), service |-> Resource("Service", "Req"),
   rpc_service_whole |-> Plain("RpcServiceWhole")]

register_single(constructor, name) ==
  [api |-> "register", kind |-> Constructors[constructor], name |-> name]

api_status(name, status_code) ==
  [api |-> "register", kind |-> Api(status_code), name |-> name]

(* ResourceLabels::new, with_access and with_role. *)
NewLabels(name, endpoint) ==
  [name |-> name, endpoint |-> endpoint, access |-> "None", role |-> "None"]
with_access(labels, access) == [labels EXCEPT !.access = access]
with_role(labels, role) == [labels EXCEPT !.role = role]

(* ProfileOutput: the view of a metric under a type, a name and, at most     *)
(* once, resource labels.                                                   *)
Output(type, name) == [type |-> type, name |-> name, resource |-> <<>>]

(* ProfilePlan::new, alias and aggregate; a plan has one aggregate, the last. *)
NewPlan(identity, pol, out) ==
  [api |-> "register_profile", identity |-> identity, policy |-> pol,
   outputs |-> <<out>>, aggregate |-> <<>>]
alias(plan, out) == [plan EXCEPT !.outputs = Append(@, out)]
aggregate(plan, out) == [plan EXCEPT !.aggregate = <<out>>]

(***************************************************************************)
(* Registrations.  Each entry point has a map of its own in the shard:     *)
(* by_type, by_resource and by_profile, the last keyed by the policy and   *)
(* the identity of the plan and not by its outputs.  The maps of the       *)
(* scalar registry are keyed by the mode as well, Counter or Gauge.        *)
(***************************************************************************)
MutTimingKey(r) ==
  CASE r.api = "register"          -> <<"by_type", r.kind, r.name>>
    [] r.api = "register_resource" -> <<"by_resource", r.kind, r.labels>>
    [] r.api = "register_profile"  -> <<"by_profile", "Any", r.identity>>
TimingKey(r) ==
  CASE r.api = "register"          -> <<"by_type", r.kind, r.name>>
    [] r.api = "register_resource" -> <<"by_resource", r.kind, r.labels>>
    [] r.api = "register_profile"  -> <<"by_profile", r.policy, r.identity>>

MutScalarKey(r) ==
  IF r.api = "scalar" THEN <<"scalar_by_type", r.kind, r.name>>
  ELSE <<"scalar_by_resource", r.kind, r.labels>>
ScalarKey(r) ==
  IF r.api = "scalar" THEN <<"scalar_by_type", <<r.kind, r.mode>>, r.name>>
  ELSE <<"scalar_by_resource", <<r.kind, r.mode>>, r.labels>>

IsScalar(r) == r.api \in {"scalar", "scalar_resource"}

LookupKey(r) == IF IsScalar(r) THEN ScalarKey(r) ELSE TimingKey(r)

(* What a handle does to its slot: the policy of a timing slot, the mode of *)
(* a scalar.                                                                *)
PolicyOf(r) ==
  CASE r.api = "register_profile" -> r.policy
    [] IsScalar(r)                -> r.mode
    [] OTHER                      -> policy(r.kind)

(* Metric::new and Metric::new_resource panic, before the registry is       *)
(* touched, on an invalid status code and on a connection kind; the scalar  *)
(* entry points only on an invalid status code.                             *)
Admitted(r) ==
  r.api # "register_profile" => validate(r.kind) /\ (is_conn(r.kind) => IsScalar(r))

============================================================================
