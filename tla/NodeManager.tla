---------------------------- MODULE NodeManager ----------------------------
(***************************************************************************)
(* BasicNodeManager: creates a simulation module ("node") for a SUMO       *)
(* vehicle, feeds it with the vehicle's movements and deletes it.  The     *)
(* ModuleMapper decides which vehicles get a node at all.                  *)
(***************************************************************************)
EXTENDS SubscriptionManager, Functions

CONSTANTS
    NodeVars,           \* sVehicleVariables: position, speed and angle
    Absent,             \* id is no key of m_nodes or m_vehicles
    NoSink,             \* m_vehicles[id] == nullptr: vehicle without node
    DestroyOnCrash      \* parameter destroyVehiclesOnCrash

ASSUME NodeVarsAssumption == NodeVars \subseteq VehicleVars /\ NodeVars # {}
ASSUME AbsentAssumption == Absent \notin Nat /\ NoSink \notin Nat /\ Absent # NoSink
ASSUME DestroyOnCrashAssumption == DestroyOnCrash \in BOOLEAN

VARIABLES
    m_nodes,        \* id -> number of its module, or Absent
    m_vehicles,     \* id -> number of the module owning its sink, NoSink or Absent
    m_nodeIndex,    \* number of the next module
    shown           \* id -> SUMO times of the values its sink got last

nodeVars == <<m_nodes, m_vehicles, m_nodeIndex, shown>>

NodeTypeOK ==
    /\ m_nodes \in [Vehicles -> Nat \cup {Absent}]
    /\ m_vehicles \in [Vehicles -> Nat \cup {Absent, NoSink}]
    /\ m_nodeIndex \in Nat
    /\ shown \in [Vehicles -> SUBSET (Nat \cup {NoValue})]

NodeInit ==
    /\ m_nodes = [v \in Vehicles |-> Absent]
    /\ m_vehicles = [v \in Vehicles |-> Absent]
    /\ m_nodeIndex = 0
    /\ shown = [v \in Vehicles |-> {}]

(* Vehicles the manager keeps, and those among them having a node.         *)
Managed == {v \in Vehicles : m_vehicles[v] # Absent}
Noded == {v \in Vehicles : m_nodes[v] # Absent}

-----------------------------------------------------------------------------

(* m_nodes after addNodeModule for the vehicles numbered by "number" and   *)
(* removeNodeModule for all "removed".                                     *)
NodesAfter(added, removed, number) ==
    [v \in Vehicles |->
        IF v \in removed THEN Absent
        ELSE IF v \in DOMAIN number THEN number[v]
        ELSE m_nodes[v]]

(* Mutant: removeVehicle forgets m_vehicles.erase(id).                     *)
VehiclesAfterNoErase(added, removed, number) ==
    [v \in Vehicles |->
        IF v \in DOMAIN number THEN number[v]
        ELSE IF v \in added THEN NoSink
        ELSE m_vehicles[v]]

(* m_vehicles likewise; a vehicle the mapper does not equip has no sink.   *)
VehiclesAfter(added, removed, number) ==
    [v \in Vehicles |->
        IF v \in removed THEN Absent
        ELSE IF v \in DOMAIN number THEN number[v]
        ELSE IF v \in added THEN NoSink
        ELSE m_vehicles[v]]

(* addVehicle for all "added", then removeVehicle for all "removed".  The  *)
(* mapper equips some of the added vehicles; createModule numbers their    *)
(* modules in the order SUMO lists the vehicles.                           *)
addAndRemove(added, removed) ==
    \E equipped \in SUBSET added :
    \E number \in Injection(equipped, m_nodeIndex .. m_nodeIndex + Cardinality(equipped) - 1) :
        /\ m_nodes' = NodesAfter(added, removed, number)
        /\ m_vehicles' = VehiclesAfter(added, removed, number)
        /\ m_nodeIndex' = m_nodeIndex + Cardinality(equipped)

(* Vehicles traciStep adds: those that departed.                           *)
Entering == m_sim_cache'.departed

(* Mutant: vehicles are only removed after a crash.                        *)
LeavingCrashed == IF DestroyOnCrash THEN m_sim_cache'.teleported ELSE {}

(* Vehicles that traciStep removes: the arrived ones and, on request,      *)
(* those that teleport after a crash.                                      *)
Leaving ==
    m_sim_cache'.arrived \cup
        (IF DestroyOnCrash THEN m_sim_cache'.teleported ELSE {})

(* updateVehicle for all kept vehicles in "ids": every sink is given the   *)
(* cached values, which are fetched if they are missing.                   *)
updateVehicles(ids, caches) ==
    LET sinks == {v \in ids : m_vehicles'[v] \in Nat}
    IN /\ m_vehicle_caches' = [v \in Vehicles |->
            IF v \in sinks THEN Retrieve(caches[v], NodeVars, sumoTime')
                           ELSE caches[v]]
       /\ shown' = [v \in Vehicles |->
            IF v \in sinks THEN {m_vehicle_caches'[v][x] : x \in NodeVars}
            ELSE IF m_vehicles'[v] \in Nat THEN shown[v]
            ELSE {}]

(* traciClose: all nodes are deleted; m_vehicles keeps its pointers.       *)
NodeTraciClose ==
    /\ m_nodes' = [v \in Vehicles |-> Absent]
    /\ UNCHANGED <<m_vehicles, m_nodeIndex, shown>>
=============================================================================
