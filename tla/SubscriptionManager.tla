------------------------ MODULE SubscriptionManager ------------------------
(***************************************************************************)
(* BasicSubscriptionManager: keeps one SUMO subscription per running       *)
(* vehicle and one VehicleCache per vehicle id.  The value of a cached     *)
(* variable is abstracted to the SUMO time it was obtained at, which is    *)
(* what tells a fresh value from a stale one.                              *)
(***************************************************************************)
EXTENDS Sumo

VARIABLES
    m_vehicle_vars,         \* variables every vehicle shall be subscribed to
    m_subscribed_vehicles,  \* vehicles considered to be subscribed
    m_vehicle_caches,       \* per id: variable -> time of its value, or NoValue
    m_sim_cache             \* simulation variables of the last step

subVars == <<m_vehicle_vars, m_subscribed_vehicles, m_vehicle_caches,
             m_sim_cache>>

Caches == [Vehicles -> [VehicleVars -> Nat \cup {NoValue}]]
SimulationResults ==
    [time: Nat, departed: SUBSET Vehicles, arrived: SUBSET Vehicles,
     teleported: SUBSET Vehicles]

SubTypeOK ==
    /\ m_vehicle_vars \subseteq VehicleVars
    /\ m_subscribed_vehicles \subseteq Vehicles
    /\ m_vehicle_caches \in Caches
    /\ m_sim_cache \in SimulationResults

EmptyCache == [x \in VehicleVars |-> NoValue]

SubInit ==
    /\ m_vehicle_vars = {}
    /\ m_subscribed_vehicles = {}
    /\ m_vehicle_caches = [v \in Vehicles |-> EmptyCache]
    /\ m_sim_cache = [time |-> 0, departed |-> {}, arrived |-> {},
                      teleported |-> {}]

-----------------------------------------------------------------------------

(* A subscription request that reaches SUMO only for "ids".                *)
updateVehicleSubscription(ids, vars, subs) ==
    [v \in Vehicles |-> IF v \in ids THEN vars ELSE subs[v]]

(* subscribeVehicle for all "ids": SUMO is asked only if there are         *)
(* variables to ask for.                                                   *)
subscribeVehicle(ids, subs) ==
    IF m_vehicle_vars # {}
      THEN updateVehicleSubscription(ids, m_vehicle_vars, subs)
      ELSE subs

(* Mutant: only vehicles subscribed from now on get the new variables.     *)
subscribeNewVehiclesOnly(vars, ids, subs) == subs

(* subscribeVehicleVariables: when the set grows, every vehicle that is    *)
(* subscribed already is subscribed anew.                                  *)
subscribeVehicleVariables(vars, ids, subs) ==
    LET all == m_vehicle_vars \cup vars
    IN IF all # m_vehicle_vars
         THEN updateVehicleSubscription(ids, all, subs)
         ELSE subs

(* traciInit of this manager, followed by the node manager's               *)
(* subscribeVehicleVariables(nodeVars) on the same signal.                 *)
SubTraciInit(nodeVars) ==
    /\ m_subscribed_vehicles' = m_subscribed_vehicles \cup running'
    /\ m_vehicle_vars' = m_vehicle_vars \cup nodeVars
    /\ subscription' =
         subscribeVehicleVariables(nodeVars, m_subscribed_vehicles',
             subscribeVehicle(running', subscription))
    /\ UNCHANGED m_sim_cache

(* step(): fresh simulation results, arrived vehicles are dropped before   *)
(* departed ones are subscribed.                                           *)
SubStep ==
    /\ m_sim_cache' = [time |-> sumoTime', departed |-> departed',
                       arrived |-> arrived', teleported |-> teleported']
    /\ m_subscribed_vehicles' = (m_subscribed_vehicles \ arrived') \cup departed'
    /\ subscription' = subscribeVehicle(departed', KeptSubscription)
    /\ UNCHANGED m_vehicle_vars

(* Mutant: results are merged into the caches, values present are kept.    *)
MergeCaches ==
    [v \in Vehicles |->
        [x \in VehicleVars |->
            IF v \in m_subscribed_vehicles' /\ m_vehicle_caches[v][x] = NoValue
              THEN SubscriptionResults(v, subscription', sumoTime')[x]
              ELSE m_vehicle_caches[v][x]]]

(* The caches at the end of step(): reset for every subscribed vehicle.    *)
ResetCaches ==
    [v \in Vehicles |->
        IF v \in m_subscribed_vehicles'
          THEN SubscriptionResults(v, subscription', sumoTime')
          ELSE m_vehicle_caches[v]]

(* VariableCache::get: a variable that is not cached is retrieved from     *)
(* SUMO and kept.                                                          *)
Retrieve(cache, vars, time) ==
    [x \in VehicleVars |->
        IF x \in vars /\ cache[x] = NoValue THEN time ELSE cache[x]]
=============================================================================
