------------------------------ MODULE MCFacade ------------------------------
(* A small instance of Facade for TLC. *)
EXTENDS Facade

(* A plan with a repeated view and an aggregate, a plan of the same identity *)
(* and policy but another view, a single metric of an equal name, and two    *)
(* metrics that are rejected.                                                *)
FirstPlan ==
  aggregate(alias(NewPlan("id", "Service", Output("API", "a")), Output("API", "a")),
            Output("API", "all"))
SecondPlan == NewPlan("id", "Service", Output("SERVICE", "b"))

SomeRequests ==
  {FirstPlan, SecondPlan, register_single("api", "id"),
   api_status("id", 600),
   [api |-> "register_resource", kind |-> Resource("Redis", "Conn"),
    labels |-> NewLabels("id", "e")]}

OneShard == [k \in Keys |-> 1]

============================================================================
