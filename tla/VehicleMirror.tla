--------------------------- MODULE VehicleMirror ---------------------------
(***************************************************************************)
(* What a traci::NodeManager promises: from the moment the connection is   *)
(* up until the end of the run, a vehicle is kept from the step in which   *)
(* it enters the traffic until it leaves.  A vehicle may be given up early *)
(* only if the manager is told to destroy crashed vehicles, and a vehicle  *)
(* that was given up does not come back before it enters anew.             *)
(***************************************************************************)
CONSTANTS Vehicles, MayDestroy

VARIABLES
    phase,      \* "waiting", "running", "closed" or "error"
    traffic,    \* vehicles on the road
    kept        \* vehicles the manager keeps

vars == <<phase, traffic, kept>>

Init == phase = "waiting" /\ traffic = {} /\ kept = {}

Open ==
    /\ phase = "waiting"
    /\ phase' = "running"
    /\ traffic' \in SUBSET Vehicles
    /\ kept' = traffic'

Move ==
    /\ phase = "running"
    /\ phase' = "running"
    /\ traffic' \in SUBSET Vehicles
    /\ LET entered == traffic' \ traffic
           stayed  == kept \cap traffic'
       IN /\ entered \subseteq kept'
          /\ kept' \subseteq entered \cup stayed
          /\ ~MayDestroy => stayed \subseteq kept'

Stop ==
    /\ phase \in {"waiting", "running"}
    /\ phase' \in {"closed", "error"}
    /\ kept' = {}
    /\ UNCHANGED traffic

Next == Open \/ Move \/ Stop

Spec == Init /\ [][Next]_vars
=============================================================================
