---------------------------- MODULE MetricTypes ----------------------------
(***************************************************************************)
(* The business identities a producer registers under: MetricType with its *)
(* ResourceMetric argument or HTTP status code, the counter policy and the *)
(* `type` label each one implies.  Pure data; no state.                    *)
(*                                                                         *)
(* A MetricType is a record [variant, res, code].  `res` is "Req" or       *)
(* "Conn" for the variants that carry a ResourceMetric and "None" for the  *)
(* others; `code` is the status code of Api(code) and 0 for the others.    *)
(***************************************************************************)
EXTENDS Naturals

ResourceVariants ==
  {"Redis", "Mysql", "Memcache", "Http", "Rpc", "Service", "SocketIo"}

PlainVariants ==
  {"Log", "McDetail", "HttpAll", "ApiAll", "Api3xx", "Api4xx", "Api5xx",
   "ApiTimeout", "RpcServiceWhole"}

Plain(v)       == [variant |-> v, res |-> "None", code |-> 0]
Resource(v, r) == [variant |-> v, res |-> r, code |-> 0]
Api(c)         == [variant |-> "Api", res |-> "None", code |-> c]

(* Every MetricType value whose status code, if any, is in Codes. *)
MetricType(Codes) ==
       {Plain(v) : v \in PlainVariants}
  \cup {Resource(v, r) : v \in ResourceVariants, r \in {"Req", "Conn"}}
  \cup {Api(c) : c \in Codes}

is_conn(kind) == kind.variant \in ResourceVariants /\ kind.res = "Conn"

(* MetricType::validate panics unless this holds. *)
validate(kind) == kind.variant = "Api" => kind.code \in 100..599

policy(kind) ==
  CASE kind.variant \in {"Log", "Redis", "Mysql", "Memcache", "McDetail", "Http"}
         -> "Resource"
    [] kind.variant \in {"Rpc", "RpcServiceWhole"}
         -> "Access"
    [] OTHER
         -> "Service"

(* The `type` label of a kind; the legacy format next to it is unused. *)
output(kind) ==
  CASE kind.variant = "Log"              -> "LOG"
    [] kind.variant = "Redis"            -> "REDIS"
    [] kind.variant = "Mysql"            -> "MYSQL"
    [] kind.variant = "Memcache"         -> "MC"
    [] kind.variant = "McDetail"         -> "MCDETAIL"
    [] kind.variant \in {"Http", "HttpAll"} -> "HTTP"
    [] kind.variant = "ApiAll"           -> "API"
    [] kind.variant = "Api"              -> "API_RESPONSE"
    [] kind.variant = "Api3xx"           -> "API3XX"
    [] kind.variant = "Api4xx"           -> "API4XX"
    [] kind.variant = "Api5xx"           -> "API5XX"
    [] kind.variant = "ApiTimeout"       -> "APITO"
    [] kind.variant = "Service"          -> "SERVICE"
    [] kind.variant = "SocketIo"         -> "SOCKET_IO"
    [] kind.variant = "Rpc"              -> "RPC"
    [] kind.variant = "RpcServiceWhole"  -> "RPC_SERVICE_WHOLE"

MetricPolicy == {"Resource", "Service", "Access"}

(* MetricPolicy::spec: from how many microseconds an operation is slow. *)
slow_threshold_us(pol) == IF pol = "Resource" THEN 50000 ELSE 200000

============================================================================
