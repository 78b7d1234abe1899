----------------------------- MODULE TraciCore -----------------------------
(***************************************************************************)
(* traci::Core, the component that drives SUMO: it connects once, then     *)
(* lets SUMO advance by one step per update event and informs its          *)
(* listeners, the subscription manager before the node manager.  The       *)
(* simulation kernel is single-threaded: a message handler with everything *)
(* its signals trigger is one step.  This module holds what both node      *)
(* managers share; TraciBasic and TraciDelayed are complete systems.       *)
(***************************************************************************)
EXTENDS NodeManager

CONSTANTS
    StartTime,          \* parameter startTime
    DeltaT,             \* SUMO's step length
    SelfStopping,       \* parameter selfStopping
    ExpectedVersion,    \* parameter version
    ClientVersion,      \* libsumo::TRACI_VERSION
    ServerVersions,     \* API versions a SUMO server may report
    MaxTime,            \* bound of the model: no update after this time
    Never               \* an event that is not scheduled

ASSUME TimeAssumption ==
    /\ StartTime \in Nat
    /\ DeltaT \in Nat \ {0}
    /\ StartTime % DeltaT = 0
    /\ MaxTime \in Nat
    /\ Never \notin Nat
ASSUME SelfStoppingAssumption == SelfStopping \in BOOLEAN
ASSUME VersionAssumption ==
    ExpectedVersion \in Int /\ ClientVersion \in Nat /\ ServerVersions \subseteq Nat

VARIABLES
    now,            \* simTime()
    connectAt,      \* when m_connectEvent is scheduled
    updateAt,       \* when m_updateEvent is scheduled
    phase           \* "waiting", "running", "closed" or "error"

coreVars == <<now, connectAt, updateAt, phase>>

CoreTypeOK ==
    /\ now \in Nat
    /\ connectAt \in Nat \cup {Never}
    /\ updateAt \in Nat \cup {Never}
    /\ phase \in {"waiting", "running", "closed", "error"}

CoreInit ==
    /\ now = 0
    /\ connectAt = StartTime
    /\ updateAt = Never
    /\ phase = "waiting"

-----------------------------------------------------------------------------

(* The kernel delivers an event when no other one is due earlier; events   *)
(* of the same time may be delivered in either order.                      *)
Due(event, others) ==
    /\ event # Never
    /\ \A other \in others : other # Never => event <= other

checkVersion(actual) ==
    LET expected == IF ExpectedVersion = 0 THEN ClientVersion ELSE ExpectedVersion
    IN actual >= 18 /\ (expected < 0 \/ expected = actual)

(* syncTime: a simulation that starts later lets SUMO catch up.            *)
syncTime(time) == SumoCatchUp(time)

(* handleMessage(m_connectEvent) with an acceptable server, up to the      *)
(* node manager's part of the "traci.init" signal.                         *)
CoreConnect ==
    /\ phase = "waiting"
    /\ \E actual \in ServerVersions : checkVersion(actual)
    /\ now' = connectAt
    /\ connectAt' = Never
    /\ phase' = "running"
    /\ syncTime(now')
    /\ SubTraciInit(NodeVars)
    /\ updateAt' = now' + DeltaT

(* checkVersion throws: the simulation stops with an error, no finish().   *)
CoreReject ==
    /\ phase = "waiting"
    /\ \E actual \in ServerVersions : ~checkVersion(actual)
    /\ now' = connectAt
    /\ connectAt' = Never
    /\ phase' = "error"
    /\ UNCHANGED updateAt

(* Mutant: stop as soon as SUMO has no vehicle left to insert.             *)
NextUpdateWhileDemand(time) ==
    IF ~SelfStopping \/ demand' THEN time + DeltaT ELSE Never

(* The next update: never again once SUMO expects no more vehicles.        *)
NextUpdate(time) ==
    IF ~SelfStopping \/ VehiclesExpected' THEN time + DeltaT ELSE Never

(* handleMessage(m_updateEvent) up to the node manager's part.             *)
CoreUpdate ==
    /\ phase = "running"
    /\ updateAt # Never /\ updateAt <= MaxTime
    /\ now' = updateAt
    /\ SumoStep(sumoTime + DeltaT)
    /\ SubStep
    /\ updateAt' = NextUpdate(now')
    /\ UNCHANGED <<connectAt, phase>>

(* finish(), at the end of the run whenever that is.                       *)
CoreFinish ==
    /\ phase \in {"waiting", "running"}
    /\ phase' = "closed"
    /\ NodeTraciClose
    /\ UNCHANGED <<now, connectAt, updateAt>>

(* A service of a node reads a variable of its vehicle through the cache.  *)
ReadVariable(v, x) ==
    /\ phase = "running"
    /\ v \in Noded
    /\ m_vehicle_caches' = [m_vehicle_caches EXCEPT ![v] = Retrieve(@, {x}, sumoTime)]
    /\ UNCHANGED <<sumoVars, nodeVars, coreVars, m_vehicle_vars,
                   m_subscribed_vehicles, m_sim_cache>>

(* A client of the SubscriptionManager interface asks for more variables,  *)
(* before or after the connection is up.                                   *)
SubscribeMore(vars) ==
    /\ phase \in {"waiting", "running"}
    /\ subscription' = subscribeVehicleVariables(vars, m_subscribed_vehicles, subscription)
    /\ m_vehicle_vars' = m_vehicle_vars \cup vars
    /\ UNCHANGED <<sumoTime, running, departed, arrived, teleported, demand>>
    /\ UNCHANGED <<m_subscribed_vehicles, m_vehicle_caches, m_sim_cache>>
    /\ UNCHANGED <<nodeVars, coreVars>>

Client ==
    \/ \E v \in Vehicles, x \in VehicleVars : ReadVariable(v, x)
    \/ \E x \in VehicleVars : SubscribeMore({x})

-----------------------------------------------------------------------------

(* Whenever Core is going to update, SUMO is exactly one step behind that  *)
(* event: the time check of BasicSubscriptionManager::step and of          *)
(* BasicNodeManager::traciStep cannot fail.                                *)
TimeInSync ==
    phase = "running" =>
        /\ updateAt # Never => updateAt = sumoTime + DeltaT
        /\ m_sim_cache.time \in {0, sumoTime}

(* While connected, exactly SUMO's running vehicles are subscribed, and    *)
(* SUMO reports for each of them every variable ever asked for, whichever  *)
(* of the vehicle and the variable came first.                             *)
SubscriptionsComplete ==
    phase = "running" =>
        /\ m_subscribed_vehicles = running
        /\ \A v \in running : subscription[v] = m_vehicle_vars

(* No cache of a running vehicle holds a value of an earlier SUMO step,    *)
(* even though caches are never deleted and an id may be used again.       *)
CachesFresh ==
    phase = "running" =>
        \A v \in running, x \in VehicleVars :
            m_vehicle_caches[v][x] \in {NoValue, sumoTime}

(* Between events every node shows its vehicle as it is in SUMO now.       *)
SinksCurrent ==
    phase = "running" => \A v \in Noded : shown[v] = {sumoTime}

(* Pointers in m_vehicles are never dangling while they can be used: they  *)
(* point into the module m_nodes holds for the same vehicle, and no module *)
(* belongs to two vehicles.                                                *)
SinksOwned ==
    phase = "running" =>
        /\ \A v \in Vehicles :
              /\ m_nodes[v] # Absent => m_vehicles[v] = m_nodes[v]
              /\ m_vehicles[v] \in Nat => m_nodes[v] = m_vehicles[v]
        /\ \A v, w \in Noded : m_nodes[v] = m_nodes[w] => v = w

(* A node is never replaced behind the back of those that hold its module: *)
(* from one step to the next a vehicle keeps its module or loses it.       *)
NodesStable ==
    [][\A v \in Vehicles :
        m_nodes[v] # Absent => m_nodes'[v] \in {m_nodes[v], Absent}]_m_nodes
=============================================================================
