---------------------------- MODULE MCTraCIClient ---------------------------
(* The TraCI client for TLC: every method of every scope on an object with a    *)
(* short name, one method with names at the limit of the short length, and      *)
(* subscriptions to a vehicle and to its surroundings.                          *)
EXTENDS TraCIClient

Named(n) == [i \in 1..n |-> 66]

MCCalls ==
  {[method |-> m, object |-> Named(1)] : m \in Methods}
  \cup {[method |-> m, object |-> Named(0)] : m \in UNION {Parameters(d) : d \in DOMAIN Domains}}
  \cup {[method |-> m, object |-> Named(n)] :
          m \in {g \in VehicleGetters : g.method = "getSpeed"}, n \in {248, 249}}

Variable(name, type) == [id |-> VariableID(name), type |-> type]

VehicleSubscription ==
  [op |-> "subscribe", domain |-> "vehicle", object |-> Named(1),
   variables |-> <<Variable("VAR_SPEED", "double"), Variable("VAR_VIA", "stringlist")>>]

MCSubscriptions ==
  {VehicleSubscription, [VehicleSubscription EXCEPT !.variables = <<>>],
   [op |-> "context", domain |-> "vehicle", object |-> Named(1),
    variables |-> <<Variable("VAR_SIGNALS", "integer")>>]}

MCTravellers == {Named(1)}

MCNeighbours == {Named(2)}

\* All of the bytes asked for, or all but two.
MCPieces(n) == {n, n - 2} \cap 1..n
=============================================================================
