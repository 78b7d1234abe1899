------------------------------- MODULE Sumo -------------------------------
(***************************************************************************)
(* The traffic simulator SUMO as the TraCI client sees it (external code:  *)
(* modelled from how src/src/traci uses it).  SUMO advances one step per   *)
(* simulationStep command, reports which vehicles departed, arrived and    *)
(* started to teleport in that step, and serves one variable subscription  *)
(* per running vehicle.                                                    *)
(***************************************************************************)
EXTENDS Naturals, FiniteSets

CONSTANTS
    Vehicles,       \* vehicle identifiers
    VehicleVars,    \* TraCI variables of a vehicle (VAR_POSITION, ...)
    NoValue         \* "not present", e.g. a variable missing in a cache

ASSUME VehiclesAssumption == IsFiniteSet(Vehicles)
ASSUME NoValueAssumption == NoValue \notin Nat

VARIABLES
    sumoTime,       \* SUMO's own clock
    running,        \* vehicles in the network, teleporting ones included
    departed,       \* VAR_DEPARTED_VEHICLES_IDS of the last step
    arrived,        \* VAR_ARRIVED_VEHICLES_IDS of the last step
    teleported,     \* VAR_TELEPORT_STARTING_VEHICLES_IDS of the last step
    demand,         \* SUMO still has vehicles to insert
    subscription    \* variables SUMO reports for a vehicle with every step

sumoVars == <<sumoTime, running, departed, arrived, teleported, demand,
              subscription>>

SumoTypeOK ==
    /\ sumoTime \in Nat
    /\ running \subseteq Vehicles
    /\ departed \subseteq Vehicles
    /\ arrived \subseteq Vehicles
    /\ teleported \subseteq Vehicles
    /\ demand \in BOOLEAN
    /\ subscription \in [Vehicles -> SUBSET VehicleVars]

SumoInit ==
    /\ sumoTime = 0
    /\ running = {}
    /\ departed = {}
    /\ arrived = {}
    /\ teleported = {}
    /\ demand \in BOOLEAN
    /\ subscription = [v \in Vehicles |-> {}]

(* One simulationStep: only running vehicles arrive or start to teleport,  *)
(* only vehicles that are not running depart.  An id may depart again in a *)
(* later step than the one it arrived in.                                  *)
SumoStep(target) ==
    /\ sumoTime' = target
    /\ departed' \in SUBSET (Vehicles \ running)
    /\ arrived' \in SUBSET running
    /\ teleported' \in SUBSET (running \ arrived')
    /\ running' = (running \ arrived') \cup departed'
    /\ demand' \in BOOLEAN
    /\ ~demand => departed' = {} /\ ~demand'

(* The several steps simulationStep(now) executes when a simulation joins  *)
(* SUMO later than at time zero: any vehicles may be running by then.      *)
SumoCatchUp(target) ==
    /\ sumoTime' = target
    /\ IF target = 0
         THEN UNCHANGED <<running, departed, demand>>
         ELSE /\ running' \in SUBSET Vehicles
              /\ departed' = running'
              /\ demand' \in BOOLEAN
    /\ UNCHANGED <<arrived, teleported>>

(* SUMO forgets the subscription of a vehicle that arrives.                *)
KeptSubscription ==
    [v \in Vehicles |-> IF v \in arrived' THEN {} ELSE subscription[v]]

(* What getSubscriptionResults(v) holds after a step or after a (re-)      *)
(* subscription: the subscribed variables with values of the present step. *)
SubscriptionResults(v, subs, time) ==
    [x \in VehicleVars |-> IF x \in subs[v] THEN time ELSE NoValue]

(* simulation.getMinExpectedNumber() > 0                                   *)
VehiclesExpected == running # {} \/ demand
=============================================================================
