---------------------------- MODULE TraciProofs ----------------------------
(***************************************************************************)
(* Proofs about the TraCI subsystem for any number of vehicles and         *)
(* variables, any step length, start time, delays and length of the run.   *)
(* First what TraciBasic and TraciDelayed share: the part of their         *)
(* inductive invariants that is about Core, SUMO, subscriptions, caches and*)
(* nodes, and what the shared handlers do to it.  Then the system with     *)
(* BasicNodeManager, and last the one with delayed insertion.              *)
(***************************************************************************)
EXTENDS TraciBasic, TraciDelayed, FiniteSetTheorems, TLAPS

(* The facts about one call of addAndRemove: types, the vehicles it keeps  *)
(* and numbers it hands out, which are new and pairwise different.         *)
LEMMA AddAndRemove ==
    ASSUME NodeTypeOK, NEW added \in SUBSET Vehicles, NEW removed \in SUBSET Vehicles,
           addAndRemove(added, removed)
    PROVE  /\ m_nodes' \in [Vehicles -> Nat \cup {Absent}]
           /\ m_vehicles' \in [Vehicles -> Nat \cup {Absent, NoSink}]
           /\ m_nodeIndex' \in Nat
           /\ m_nodeIndex <= m_nodeIndex'
           /\ \A v \in Vehicles :
                \/ v \in removed /\ m_nodes'[v] = Absent /\ m_vehicles'[v] = Absent
                \/ /\ v \notin removed /\ v \in added
                   /\ m_nodes'[v] \in m_nodeIndex .. m_nodeIndex' - 1
                   /\ m_vehicles'[v] = m_nodes'[v]
                \/ /\ v \notin removed /\ v \in added
                   /\ m_nodes'[v] = m_nodes[v] /\ m_vehicles'[v] = NoSink
                \/ /\ v \notin removed /\ v \notin added
                   /\ m_nodes'[v] = m_nodes[v] /\ m_vehicles'[v] = m_vehicles[v]
           /\ \A v, w \in Vehicles :
                /\ m_nodes'[v] \in m_nodeIndex .. m_nodeIndex' - 1
                /\ m_nodes'[v] = m_nodes'[w]
                /\ m_nodes[v] \in Nat => m_nodes[v] < m_nodeIndex
                /\ m_nodes[w] \in Nat => m_nodes[w] < m_nodeIndex
                => v = w
<1>1. PICK equipped \in SUBSET added :
        \E number \in Injection(equipped, m_nodeIndex .. m_nodeIndex + Cardinality(equipped) - 1) :
            /\ m_nodes' = NodesAfter(added, removed, number)
            /\ m_vehicles' = VehiclesAfter(added, removed, number)
            /\ m_nodeIndex' = m_nodeIndex + Cardinality(equipped)
  BY DEF addAndRemove
<1>2. PICK number \in Injection(equipped, m_nodeIndex .. m_nodeIndex + Cardinality(equipped) - 1) :
            /\ m_nodes' = NodesAfter(added, removed, number)
            /\ m_vehicles' = VehiclesAfter(added, removed, number)
            /\ m_nodeIndex' = m_nodeIndex + Cardinality(equipped)
  BY <1>1
<1>3. Cardinality(equipped) \in Nat
  <2>1. IsFiniteSet(equipped)
    BY FS_Subset, VehiclesAssumption
  <2> QED BY <2>1, FS_CardinalityType
<1>4. /\ m_nodeIndex \in Nat /\ m_nodeIndex' \in Nat /\ m_nodeIndex <= m_nodeIndex'
      /\ m_nodeIndex' = m_nodeIndex + Cardinality(equipped)
  BY <1>2, <1>3 DEF NodeTypeOK
<1>5. /\ number \in [equipped -> m_nodeIndex .. m_nodeIndex' - 1]
      /\ \A v, w \in equipped : number[v] = number[w] => v = w
  <2>1. number \in [equipped -> m_nodeIndex .. m_nodeIndex + Cardinality(equipped) - 1]
    BY DEF Injection
  <2>2. IsInjective(number)
    BY DEF Injection
  <2>3. \A v, w \in equipped : number[v] = number[w] => v = w
    BY <2>1, <2>2 DEF IsInjective
  <2>4. m_nodeIndex' - 1 = m_nodeIndex + Cardinality(equipped) - 1
    BY <1>3, <1>4
  <2> QED BY <2>1, <2>3, <2>4, Zenon
<1>6. m_nodes' \in [Vehicles -> Nat \cup {Absent}]
  BY <1>2, <1>4, <1>5 DEF NodesAfter, NodeTypeOK
<1>7. m_vehicles' \in [Vehicles -> Nat \cup {Absent, NoSink}]
  BY <1>2, <1>4, <1>5 DEF VehiclesAfter, NodeTypeOK
<1>8. ASSUME NEW v \in Vehicles
      PROVE  /\ m_nodes'[v] = IF v \in removed THEN Absent
                              ELSE IF v \in equipped THEN number[v] ELSE m_nodes[v]
             /\ m_vehicles'[v] = IF v \in removed THEN Absent
                                 ELSE IF v \in equipped THEN number[v]
                                 ELSE IF v \in added THEN NoSink ELSE m_vehicles[v]
  BY <1>2, <1>5 DEF NodesAfter, VehiclesAfter
<1>9. ASSUME NEW v \in equipped PROVE number[v] \in m_nodeIndex .. m_nodeIndex' - 1
  BY <1>5
<1>10. ASSUME NEW v \in Vehicles, NEW w \in Vehicles,
              m_nodes'[v] \in m_nodeIndex .. m_nodeIndex' - 1,
              m_nodes'[v] = m_nodes'[w],
              m_nodes[v] \in Nat => m_nodes[v] < m_nodeIndex,
              m_nodes[w] \in Nat => m_nodes[w] < m_nodeIndex
       PROVE  v = w
  BY <1>4, <1>5, <1>8, <1>10, AbsentAssumption DEF NodeTypeOK
<1> QED
  BY <1>4, <1>6, <1>7, <1>8, <1>9, <1>10

(* addAndRemove that only removes.                                         *)
LEMMA RemoveOnly ==
    ASSUME NodeTypeOK, NEW removed \in SUBSET Vehicles, addAndRemove({}, removed)
    PROVE  /\ m_nodes' \in [Vehicles -> Nat \cup {Absent}]
           /\ m_vehicles' \in [Vehicles -> Nat \cup {Absent, NoSink}]
           /\ m_nodeIndex' \in Nat
           /\ m_nodeIndex <= m_nodeIndex'
           /\ \A v \in Vehicles :
                \/ v \in removed /\ m_nodes'[v] = Absent /\ m_vehicles'[v] = Absent
                \/ /\ v \notin removed
                   /\ m_nodes'[v] = m_nodes[v] /\ m_vehicles'[v] = m_vehicles[v]
<1> DEFINE none == {}
<1>1. none \in SUBSET Vehicles /\ addAndRemove(none, removed) /\ \A v \in Vehicles : v \notin none
  OBVIOUS
<1> HIDE DEF none
<1> QED
  BY <1>1, AddAndRemove

(* addAndRemove that adds a single vehicle: it is kept, with or without a  *)
(* node.                                                                   *)
LEMMA AddOne ==
    ASSUME NodeTypeOK, NEW u \in Vehicles, addAndRemove({u}, {}), m_nodes[u] = Absent
    PROVE  /\ m_nodes' \in [Vehicles -> Nat \cup {Absent}]
           /\ m_vehicles' \in [Vehicles -> Nat \cup {Absent, NoSink}]
           /\ m_nodeIndex' \in Nat
           /\ m_nodeIndex <= m_nodeIndex'
           /\ \/ /\ m_nodes'[u] \in m_nodeIndex .. m_nodeIndex' - 1
                 /\ m_vehicles'[u] = m_nodes'[u]
              \/ m_nodes'[u] = Absent /\ m_vehicles'[u] = NoSink
           /\ m_vehicles'[u] # Absent
           /\ \A v \in Vehicles \ {u} :
                m_nodes'[v] = m_nodes[v] /\ m_vehicles'[v] = m_vehicles[v]
<1> DEFINE none == {}
           one == {u}
<1>1. /\ none \in SUBSET Vehicles /\ one \in SUBSET Vehicles /\ addAndRemove(one, none)
      /\ \A v \in Vehicles : v \notin none /\ (v \in one <=> v = u)
  OBVIOUS
<1> HIDE DEF none, one
<1>2. /\ m_nodes' \in [Vehicles -> Nat \cup {Absent}]
      /\ m_vehicles' \in [Vehicles -> Nat \cup {Absent, NoSink}]
      /\ m_nodeIndex' \in Nat
      /\ m_nodeIndex <= m_nodeIndex'
      /\ \/ /\ m_nodes'[u] \in m_nodeIndex .. m_nodeIndex' - 1
            /\ m_vehicles'[u] = m_nodes'[u]
         \/ m_nodes'[u] = Absent /\ m_vehicles'[u] = NoSink
      /\ \A v \in Vehicles \ {u} :
           m_nodes'[v] = m_nodes[v] /\ m_vehicles'[v] = m_vehicles[v]
  BY <1>1, AddAndRemove
<1>3. m_vehicles'[u] # Absent
  BY <1>2, AbsentAssumption DEF NodeTypeOK
<1> QED
  BY <1>2, <1>3

-----------------------------------------------------------------------------

(* The clean slate before the connection is up.                            *)
WaitingInv ==
    phase = "waiting" =>
        /\ connectAt = StartTime /\ updateAt = Never
        /\ sumoTime = 0 /\ m_sim_cache.time = 0
        /\ running = {} /\ m_subscribed_vehicles = {}
        /\ \A v \in Vehicles :
              /\ m_nodes[v] = Absent /\ m_vehicles[v] = Absent
              /\ \A x \in VehicleVars : m_vehicle_caches[v][x] = NoValue

(* Module numbers in use were handed out before.                           *)
NumberInv == \A v \in Vehicles : m_nodes[v] \in Nat => m_nodes[v] < m_nodeIndex

VarsInv == phase = "running" => NodeVars \subseteq m_vehicle_vars

StoppedInv == phase = "running" /\ updateAt = Never => running = {}

(* The parts about Core, SUMO and subscriptions, and about nodes.          *)
SubscriptionInv ==
    /\ SumoTypeOK /\ SubTypeOK /\ CoreTypeOK
    /\ VarsInv /\ StoppedInv /\ TimeInSync /\ SubscriptionsComplete /\ CachesFresh

NodeInv == NodeTypeOK /\ NumberInv /\ SinksCurrent /\ SinksOwned

CoreInv == SubscriptionInv /\ NodeInv /\ WaitingInv

(* All components start with a clean slate.                                *)
LEMMA CoreInitInv ==
    ASSUME SumoInit, SubInit, NodeInit, CoreInit
    PROVE  CoreInv
<1> USE DEF SumoInit, SubInit, NodeInit, CoreInit
<1>1. SumoTypeOK /\ SubTypeOK /\ NodeTypeOK /\ CoreTypeOK
  BY TimeAssumption DEF SumoTypeOK, SubTypeOK, NodeTypeOK, CoreTypeOK,
     Caches, EmptyCache, SimulationResults
<1>2. WaitingInv
  BY DEF WaitingInv, EmptyCache
<1>3. NumberInv
  BY AbsentAssumption DEF NumberInv
<1> QED
  BY <1>1, <1>2, <1>3 DEF CoreInv, SubscriptionInv, NodeInv, VarsInv, StoppedInv,
     TimeInSync, SubscriptionsComplete, CachesFresh, SinksCurrent, SinksOwned

(* Joining SUMO, with any vehicles running already: they are subscribed.   *)
LEMMA CoreConnected ==
    ASSUME CoreInv, CoreConnect, m_vehicle_caches' = m_vehicle_caches
    PROVE  /\ phase = "waiting" /\ phase' = "running"
           /\ now' \in Nat /\ sumoTime' = now'
           /\ running' \in SUBSET Vehicles
           /\ SubscriptionInv' /\ WaitingInv'
<1> USE DEF CoreInv, SubscriptionInv, CoreConnect, syncTime
<1>1. /\ phase = "waiting" /\ phase' = "running"
      /\ now' = StartTime /\ connectAt' = Never
      /\ sumoTime' = StartTime /\ updateAt' = StartTime + DeltaT
      /\ running' \in SUBSET Vehicles
      /\ m_sim_cache' = m_sim_cache /\ m_vehicle_caches' = m_vehicle_caches
      /\ arrived' = arrived /\ teleported' = teleported
      /\ departed' \subseteq Vehicles /\ demand' \in BOOLEAN
  BY TimeAssumption DEF WaitingInv, SumoCatchUp, SubTraciInit, SumoTypeOK
<1>2. SumoTypeOK' /\ SubTypeOK' /\ CoreTypeOK'
  BY <1>1, TimeAssumption, NodeVarsAssumption DEF SubTraciInit, SumoTypeOK, SubTypeOK, CoreTypeOK,
     subscribeVehicleVariables, subscribeVehicle, updateVehicleSubscription
<1>3. WaitingInv' /\ StoppedInv' /\ VarsInv'
  BY <1>1, TimeAssumption DEF WaitingInv, StoppedInv, VarsInv, SubTraciInit
<1>4. TimeInSync'
  BY <1>1, TimeAssumption DEF TimeInSync, WaitingInv
<1>5. SubscriptionsComplete'
  BY <1>1, NodeVarsAssumption DEF SubscriptionsComplete, SubTraciInit, WaitingInv,
     subscribeVehicleVariables, subscribeVehicle, updateVehicleSubscription
<1>6. CachesFresh'
  BY <1>1 DEF CachesFresh, WaitingInv
<1> QED
  BY <1>1, <1>2, <1>3, <1>4, <1>5, <1>6, TimeAssumption

(* One step of SUMO: who is running, entering and leaving afterwards, and  *)
(* what the subscription manager has done before the node manager's turn.  *)
LEMMA CoreUpdated ==
    ASSUME CoreInv, CoreUpdate
    PROVE  /\ phase = "running" /\ phase' = "running"
           /\ now' = updateAt /\ now' \in Nat /\ sumoTime' = now'
           /\ departed' \subseteq Vehicles /\ departed' \cap running = {}
           /\ arrived' \subseteq running /\ running \subseteq Vehicles
           /\ running' = (running \ arrived') \cup departed'
           /\ Entering = departed'
           /\ Leaving \in SUBSET running
           /\ arrived' \subseteq Leaving
           /\ ~DestroyOnCrash => Leaving = arrived'
           /\ ResetCaches \in Caches
           /\ \A v \in running', x \in VehicleVars : ResetCaches[v][x] \in {NoValue, sumoTime'}
           /\ m_vehicle_caches' \in Caches => SubTypeOK'
           /\ SumoTypeOK' /\ CoreTypeOK' /\ VarsInv' /\ StoppedInv'
           /\ TimeInSync' /\ SubscriptionsComplete' /\ WaitingInv'
<1> USE DEF CoreInv, SubscriptionInv, CoreUpdate
<1>1. /\ phase = "running" /\ phase' = "running"
      /\ updateAt \in Nat /\ now' = updateAt /\ connectAt' = connectAt
      /\ sumoTime' = sumoTime + DeltaT /\ sumoTime \in Nat /\ sumoTime' \in Nat
      /\ updateAt' = NextUpdate(now')
  BY TimeAssumption DEF SumoStep, SumoTypeOK, CoreTypeOK
<1>2. /\ departed' \subseteq Vehicles /\ departed' \cap running = {}
      /\ arrived' \subseteq running
      /\ teleported' \subseteq running
      /\ running' = (running \ arrived') \cup departed'
      /\ running \subseteq Vehicles
      /\ demand' \in BOOLEAN
  BY DEF SumoStep, SumoTypeOK
<1>3. /\ m_sim_cache' = [time |-> sumoTime', departed |-> departed',
                         arrived |-> arrived', teleported |-> teleported']
      /\ m_subscribed_vehicles' = running'
      /\ m_vehicle_vars' = m_vehicle_vars
      /\ \A v \in running' : subscription'[v] = m_vehicle_vars
      /\ subscription' \in [Vehicles -> SUBSET VehicleVars]
  <2>1. m_subscribed_vehicles' = running'
    BY <1>1, <1>2 DEF SubStep, SubscriptionsComplete
  <2>2. /\ m_vehicle_vars \subseteq VehicleVars
        /\ subscription \in [Vehicles -> SUBSET VehicleVars]
    BY DEF SubTypeOK, SumoTypeOK
  <2>3. subscription' \in [Vehicles -> SUBSET VehicleVars]
    BY <2>2 DEF SubStep, subscribeVehicle, updateVehicleSubscription, KeptSubscription
  <2>4. \A v \in running' : subscription'[v] = m_vehicle_vars
    <3>1. ASSUME NEW v \in departed' PROVE subscription'[v] = m_vehicle_vars
      <4>1. m_vehicle_vars # {}
        BY <1>1, NodeVarsAssumption DEF VarsInv
      <4> QED
        BY <1>2, <2>2, <4>1 DEF SubStep, subscribeVehicle, updateVehicleSubscription
    <3>2. ASSUME NEW v \in running \ arrived' PROVE subscription'[v] = m_vehicle_vars
      BY <1>1, <1>2, <2>2, <3>2 DEF SubStep, subscribeVehicle, updateVehicleSubscription,
         KeptSubscription, SubscriptionsComplete
    <3> QED BY <1>2, <3>1, <3>2
  <2> QED
    BY <2>1, <2>3, <2>4 DEF SubStep
<1>4. /\ Entering = departed'
      /\ Leaving \in SUBSET running
      /\ arrived' \subseteq Leaving
      /\ ~DestroyOnCrash => Leaving = arrived'
  BY <1>2, <1>3 DEF Entering, Leaving
<1>5. ResetCaches \in Caches
  BY <1>1, <1>3 DEF ResetCaches, SubscriptionResults, Caches, SubTypeOK
<1>6. ASSUME NEW v \in running', NEW x \in VehicleVars
      PROVE  ResetCaches[v][x] \in {NoValue, sumoTime'}
  <2>1. v \in Vehicles
    BY <1>2
  <2> QED
    BY <1>3, <2>1 DEF ResetCaches, SubscriptionResults
<1>7. SumoTypeOK' /\ (m_vehicle_caches' \in Caches => SubTypeOK')
  BY <1>1, <1>2, <1>3 DEF SumoTypeOK, SubTypeOK, SimulationResults
<1>8. CoreTypeOK'
  BY <1>1, TimeAssumption DEF CoreTypeOK, NextUpdate
<1>9. now' = sumoTime' /\ m_sim_cache'.time = sumoTime'
  BY <1>1, <1>3, TimeAssumption DEF TimeInSync
<1>10. WaitingInv' /\ StoppedInv' /\ TimeInSync'
  <2>1. CASE ~SelfStopping \/ VehiclesExpected'
    <3>1. updateAt' = sumoTime' + DeltaT
      BY <1>1, <1>9, <2>1 DEF NextUpdate
    <3> QED
      BY <1>1, <1>9, <3>1, TimeAssumption DEF WaitingInv, StoppedInv, TimeInSync
  <2>2. CASE ~(~SelfStopping \/ VehiclesExpected')
    <3>1. updateAt' = Never /\ running' = {}
      BY <1>1, <2>2 DEF NextUpdate, VehiclesExpected
    <3> QED
      BY <1>1, <1>9, <3>1 DEF WaitingInv, StoppedInv, TimeInSync
  <2> QED
    BY <2>1, <2>2
<1>11. SubscriptionsComplete' /\ VarsInv'
  BY <1>1, <1>3 DEF SubscriptionsComplete, VarsInv
<1> QED
  BY <1>1, <1>2, <1>4, <1>5, <1>6, <1>7, <1>8, <1>9, <1>10, <1>11

(* updateVehicle for all "ids": with caches that are fresh for the running *)
(* vehicles, they remain so, and sinks get values of the present step.     *)
LEMMA SinksUpdated ==
    ASSUME sumoTime' \in Nat, running' \subseteq Vehicles,
           shown \in [Vehicles -> SUBSET (Nat \cup {NoValue})],
           NEW ids \in SUBSET running', NEW caches \in Caches,
           \A v \in running', x \in VehicleVars : caches[v][x] \in {NoValue, sumoTime'},
           updateVehicles(ids, caches)
    PROVE  /\ m_vehicle_caches' \in Caches
           /\ CachesFresh'
           /\ shown' \in [Vehicles -> SUBSET (Nat \cup {NoValue})]
           /\ \A v \in ids : m_vehicles'[v] \in Nat => shown'[v] = {sumoTime'}
           /\ \A v \in Vehicles \ ids : m_vehicles'[v] \in Nat => shown'[v] = shown[v]
<1>1. m_vehicle_caches' \in Caches
  BY DEF updateVehicles, Retrieve, Caches
<1>2. ASSUME NEW v \in running', NEW x \in VehicleVars
      PROVE  /\ m_vehicle_caches'[v][x] \in {NoValue, sumoTime'}
             /\ v \in ids /\ x \in NodeVars /\ m_vehicles'[v] \in Nat
                  => m_vehicle_caches'[v][x] = sumoTime'
  BY <1>2 DEF updateVehicles, Retrieve
<1>3. shown' \in [Vehicles -> SUBSET (Nat \cup {NoValue})]
  BY <1>1, NodeVarsAssumption DEF updateVehicles, Caches
<1>4. ASSUME NEW v \in ids, m_vehicles'[v] \in Nat
      PROVE  shown'[v] = {sumoTime'}
  <2>1. \A x \in NodeVars : m_vehicle_caches'[v][x] = sumoTime'
    BY <1>2, <1>4, NodeVarsAssumption
  <2>2. shown'[v] = {m_vehicle_caches'[v][x] : x \in NodeVars}
    BY <1>4 DEF updateVehicles
  <2> QED
    BY <2>1, <2>2, NodeVarsAssumption
<1>5. ASSUME NEW v \in Vehicles \ ids, m_vehicles'[v] \in Nat
      PROVE  shown'[v] = shown[v]
  BY <1>5 DEF updateVehicles
<1> QED
  BY <1>1, <1>2, <1>3, <1>4, <1>5 DEF CachesFresh

(* A client reads a variable.                                              *)
LEMMA ReadVariableInv ==
    ASSUME CoreInv, NEW v \in Vehicles, NEW x \in VehicleVars, ReadVariable(v, x)
    PROVE  CoreInv'
<1> USE DEF CoreInv, SubscriptionInv, NodeInv, ReadVariable
<1>1. m_vehicle_caches' \in Caches
  BY DEF SumoTypeOK, SubTypeOK, Caches, Retrieve
<1>2. UNCHANGED <<sumoVars, nodeVars, coreVars, m_vehicle_vars,
                  m_subscribed_vehicles, m_sim_cache>>
  OBVIOUS
<1>3. SumoTypeOK' /\ SubTypeOK' /\ NodeTypeOK' /\ CoreTypeOK'
  BY <1>1, <1>2 DEF SumoTypeOK, SubTypeOK, NodeTypeOK, CoreTypeOK,
     sumoVars, nodeVars, coreVars
<1>4. CachesFresh'
  BY <1>2 DEF CachesFresh, Retrieve, SubTypeOK, Caches, sumoVars, coreVars
<1>5. /\ WaitingInv' /\ NumberInv' /\ VarsInv' /\ StoppedInv' /\ TimeInSync'
      /\ SubscriptionsComplete' /\ SinksCurrent' /\ SinksOwned'
  BY <1>2 DEF WaitingInv, NumberInv, VarsInv, StoppedInv, TimeInSync,
     SubscriptionsComplete, SinksCurrent, SinksOwned, Noded,
     sumoVars, nodeVars, coreVars
<1> QED
  BY <1>3, <1>4, <1>5

(* A client asks for more variables.                                       *)
LEMMA SubscribeMoreInv ==
    ASSUME CoreInv, NEW more \in SUBSET VehicleVars, SubscribeMore(more)
    PROVE  CoreInv'
<1> USE DEF CoreInv, SubscriptionInv, NodeInv, SubscribeMore
<1>1. /\ m_vehicle_vars' = m_vehicle_vars \cup more
      /\ UNCHANGED <<sumoTime, running, departed, arrived, teleported, demand>>
      /\ UNCHANGED <<m_subscribed_vehicles, m_vehicle_caches, m_sim_cache>>
      /\ UNCHANGED <<nodeVars, coreVars>>
      /\ phase \in {"waiting", "running"}
  OBVIOUS
<1>2. subscription' \in [Vehicles -> SUBSET VehicleVars]
  BY DEF subscribeVehicleVariables, updateVehicleSubscription, SumoTypeOK, SubTypeOK
<1>3. SumoTypeOK' /\ SubTypeOK' /\ NodeTypeOK' /\ CoreTypeOK'
  BY <1>1, <1>2 DEF SumoTypeOK, SubTypeOK, NodeTypeOK, CoreTypeOK,
     nodeVars, coreVars
<1>4. SubscriptionsComplete'
  BY <1>1 DEF SubscriptionsComplete, subscribeVehicleVariables, updateVehicleSubscription,
     SumoTypeOK, coreVars
<1>5. /\ WaitingInv' /\ NumberInv' /\ VarsInv' /\ StoppedInv' /\ TimeInSync'
      /\ CachesFresh' /\ SinksCurrent' /\ SinksOwned'
  BY <1>1 DEF WaitingInv, NumberInv, VarsInv, StoppedInv, TimeInSync,
     CachesFresh, SinksCurrent, SinksOwned, Noded, nodeVars, coreVars
<1> QED
  BY <1>3, <1>4, <1>5

(* Clients change no vehicle and no node.                                  *)
LEMMA ClientInv ==
    ASSUME CoreInv, Client
    PROVE  /\ CoreInv'
           /\ UNCHANGED <<nodeVars, coreVars, running>>
<1>1. CASE \E v \in Vehicles, x \in VehicleVars : ReadVariable(v, x)
  BY <1>1, ReadVariableInv DEF ReadVariable, sumoVars
<1>2. CASE \E x \in VehicleVars : SubscribeMore({x})
  <2>1. PICK x \in VehicleVars : SubscribeMore({x})
    BY <1>2
  <2>2. {x} \in SUBSET VehicleVars
    OBVIOUS
  <2> QED
    BY <2>1, <2>2, SubscribeMoreInv DEF SubscribeMore
<1> QED
  BY <1>1, <1>2 DEF Client

(* The end of a run, after which only types and numbers matter.            *)
LEMMA FinishInv ==
    ASSUME CoreInv, CoreFinish, UNCHANGED <<sumoVars, subVars>>
    PROVE  CoreInv'
<1> USE DEF CoreInv, SubscriptionInv, NodeInv, CoreFinish, NodeTraciClose
<1>1. SumoTypeOK' /\ SubTypeOK' /\ NodeTypeOK' /\ CoreTypeOK'
  BY DEF SumoTypeOK, SubTypeOK, NodeTypeOK, CoreTypeOK, sumoVars, subVars
<1>2. NumberInv'
  BY AbsentAssumption DEF NumberInv
<1>3. phase' = "closed"
  OBVIOUS
<1> QED
  BY <1>1, <1>2, <1>3 DEF WaitingInv, VarsInv, StoppedInv, TimeInSync,
     SubscriptionsComplete, CachesFresh, SinksCurrent, SinksOwned

(* A server of the wrong version.                                          *)
LEMMA RejectInv ==
    ASSUME CoreInv, CoreReject, UNCHANGED <<sumoVars, subVars, nodeVars>>
    PROVE  CoreInv'
<1> USE DEF CoreInv, SubscriptionInv, NodeInv, CoreReject
<1>1. SumoTypeOK' /\ SubTypeOK' /\ NodeTypeOK' /\ CoreTypeOK'
  BY TimeAssumption DEF SumoTypeOK, SubTypeOK, NodeTypeOK, CoreTypeOK,
     WaitingInv, sumoVars, subVars, nodeVars
<1>2. NumberInv'
  BY DEF NumberInv, nodeVars
<1>3. phase' = "error"
  OBVIOUS
<1> QED
  BY <1>1, <1>2, <1>3 DEF WaitingInv, VarsInv, StoppedInv, TimeInSync,
     SubscriptionsComplete, CachesFresh, SinksCurrent, SinksOwned

(* The invariant speaks of these variables only.                           *)
LEMMA CoreStutterInv ==
    ASSUME CoreInv, UNCHANGED <<sumoVars, subVars, nodeVars, coreVars>>
    PROVE  CoreInv'
<1> USE DEF sumoVars, subVars, nodeVars, coreVars, CoreInv, SubscriptionInv, NodeInv
<1>1. SumoTypeOK' /\ SubTypeOK' /\ NodeTypeOK' /\ CoreTypeOK'
  BY DEF SumoTypeOK, SubTypeOK, NodeTypeOK, CoreTypeOK
<1>2. WaitingInv' /\ NumberInv' /\ VarsInv' /\ StoppedInv' /\ TimeInSync'
  BY DEF WaitingInv, NumberInv, VarsInv, StoppedInv, TimeInSync
<1>3. SubscriptionsComplete' /\ CachesFresh' /\ SinksCurrent' /\ SinksOwned'
  BY DEF SubscriptionsComplete, CachesFresh, SinksCurrent, SinksOwned, Noded
<1> QED
  BY <1>1, <1>2, <1>3

-----------------------------------------------------------------------------
(* TraciBasic.                                                             *)

(* The inductive invariant: what is shared with delayed insertion, and     *)
(* which vehicles are kept.                                                *)
BasicIInv == CoreInv /\ BasicVehiclesMirrored

(* Vehicles that are running already get their nodes at once.              *)
LEMMA BasicConnectInv ==
    ASSUME BasicIInv, BasicConnect
    PROVE  BasicIInv'
<1> USE DEF BasicIInv, BasicConnect
<1>1. /\ phase = "waiting" /\ phase' = "running"
      /\ now' \in Nat /\ sumoTime' = now'
      /\ running' \in SUBSET Vehicles
      /\ SubscriptionInv' /\ WaitingInv'
  BY CoreConnected
<1>2. NodeTypeOK
  BY DEF CoreInv, NodeInv
<1>3. /\ m_nodes' \in [Vehicles -> Nat \cup {Absent}]
      /\ m_vehicles' \in [Vehicles -> Nat \cup {Absent, NoSink}]
      /\ m_nodeIndex' \in Nat /\ m_nodeIndex <= m_nodeIndex'
      /\ \A v \in Vehicles :
           \/ /\ v \in running'
              /\ m_nodes'[v] \in m_nodeIndex .. m_nodeIndex' - 1
              /\ m_vehicles'[v] = m_nodes'[v]
           \/ v \in running' /\ m_nodes'[v] = Absent /\ m_vehicles'[v] = NoSink
           \/ v \notin running' /\ m_nodes'[v] = Absent /\ m_vehicles'[v] = Absent
      /\ \A v, w \in Vehicles :
           m_nodes'[v] \in m_nodeIndex .. m_nodeIndex' - 1 /\ m_nodes'[v] = m_nodes'[w]
             => v = w
  <2>1. addAndRemove(running', {}) /\ {} \in SUBSET Vehicles
    OBVIOUS
  <2>2. \A v \in Vehicles :
          /\ m_nodes[v] = Absent /\ m_vehicles[v] = Absent
          /\ m_nodes[v] \in Nat => m_nodes[v] < m_nodeIndex
    BY <1>1, AbsentAssumption DEF CoreInv, WaitingInv
  <2> HIDE DEF BasicIInv, BasicConnect
  <2>3. \A v \in Vehicles :
          \/ v \in {} /\ m_nodes'[v] = Absent /\ m_vehicles'[v] = Absent
          \/ /\ v \notin {} /\ v \in running'
             /\ m_nodes'[v] \in m_nodeIndex .. m_nodeIndex' - 1
             /\ m_vehicles'[v] = m_nodes'[v]
          \/ /\ v \notin {} /\ v \in running'
             /\ m_nodes'[v] = m_nodes[v] /\ m_vehicles'[v] = NoSink
          \/ /\ v \notin {} /\ v \notin running'
             /\ m_nodes'[v] = m_nodes[v] /\ m_vehicles'[v] = m_vehicles[v]
    BY <1>1, <1>2, <2>1, AddAndRemove
  <2>4. \A v, w \in Vehicles :
          /\ m_nodes'[v] \in m_nodeIndex .. m_nodeIndex' - 1
          /\ m_nodes'[v] = m_nodes'[w]
          /\ m_nodes[v] \in Nat => m_nodes[v] < m_nodeIndex
          /\ m_nodes[w] \in Nat => m_nodes[w] < m_nodeIndex
          => v = w
    BY <1>1, <1>2, <2>1, AddAndRemove
  <2>5. /\ m_nodes' \in [Vehicles -> Nat \cup {Absent}]
        /\ m_vehicles' \in [Vehicles -> Nat \cup {Absent, NoSink}]
        /\ m_nodeIndex' \in Nat /\ m_nodeIndex <= m_nodeIndex'
    BY <1>1, <1>2, <2>1, AddAndRemove
  <2>6. \A v \in Vehicles :
          \/ /\ v \in running'
             /\ m_nodes'[v] \in m_nodeIndex .. m_nodeIndex' - 1
             /\ m_vehicles'[v] = m_nodes'[v]
          \/ v \in running' /\ m_nodes'[v] = Absent /\ m_vehicles'[v] = NoSink
          \/ v \notin running' /\ m_nodes'[v] = Absent /\ m_vehicles'[v] = Absent
    BY <2>2, <2>3
  <2>7. \A v, w \in Vehicles :
          m_nodes'[v] \in m_nodeIndex .. m_nodeIndex' - 1 /\ m_nodes'[v] = m_nodes'[w]
            => v = w
    BY <2>2, <2>4
  <2> QED
    BY <2>5, <2>6, <2>7
<1>4. shown' \in [Vehicles -> SUBSET (Nat \cup {NoValue})]
  BY <1>1
<1>5. NodeTypeOK' /\ NumberInv'
  BY <1>2, <1>3, <1>4, AbsentAssumption DEF NumberInv, NodeTypeOK
<1>6. SinksCurrent'
  BY <1>2, <1>3, AbsentAssumption DEF SinksCurrent, Noded, NodeTypeOK
<1>7. SinksOwned'
  BY <1>3, AbsentAssumption DEF SinksOwned, Noded
<1>8. BasicVehiclesMirrored'
  <2>1. \A v \in Vehicles : m_vehicles'[v] # Absent <=> v \in running'
    BY <1>2, <1>3, AbsentAssumption DEF NodeTypeOK
  <2>2. Managed' = running'
    BY <1>1, <2>1 DEF Managed
  <2> QED
    BY <2>2 DEF BasicVehiclesMirrored
<1> QED
  BY <1>1, <1>5, <1>6, <1>7, <1>8 DEF CoreInv, NodeInv

(* One step of SUMO: departed vehicles are added, the leaving ones removed *)
(* and the others updated.                                                 *)
LEMMA BasicUpdateInv ==
    ASSUME BasicIInv, BasicUpdate
    PROVE  BasicIInv'
<1> USE DEF BasicIInv, BasicUpdate
<1>1. /\ phase = "running" /\ phase' = "running"
      /\ now' = updateAt /\ now' \in Nat /\ sumoTime' = now'
      /\ departed' \subseteq Vehicles /\ departed' \cap running = {}
      /\ arrived' \subseteq running /\ running \subseteq Vehicles
      /\ running' = (running \ arrived') \cup departed'
      /\ Entering = departed'
      /\ Leaving \in SUBSET running
      /\ arrived' \subseteq Leaving
      /\ ~DestroyOnCrash => Leaving = arrived'
      /\ ResetCaches \in Caches
      /\ \A v \in running', x \in VehicleVars : ResetCaches[v][x] \in {NoValue, sumoTime'}
      /\ m_vehicle_caches' \in Caches => SubTypeOK'
      /\ SumoTypeOK' /\ CoreTypeOK' /\ VarsInv' /\ StoppedInv'
      /\ TimeInSync' /\ SubscriptionsComplete' /\ WaitingInv'
  BY CoreUpdated
<1>2. NodeTypeOK /\ NumberInv /\ SinksOwned /\ BasicVehiclesMirrored
  BY DEF CoreInv, NodeInv
<1>3. /\ m_nodes' \in [Vehicles -> Nat \cup {Absent}]
      /\ m_vehicles' \in [Vehicles -> Nat \cup {Absent, NoSink}]
      /\ m_nodeIndex' \in Nat /\ m_nodeIndex <= m_nodeIndex'
      /\ \A v \in Vehicles :
           \/ v \in Leaving /\ m_nodes'[v] = Absent /\ m_vehicles'[v] = Absent
           \/ /\ v \notin Leaving /\ v \in departed'
              /\ m_nodes'[v] \in m_nodeIndex .. m_nodeIndex' - 1
              /\ m_vehicles'[v] = m_nodes'[v]
           \/ /\ v \notin Leaving /\ v \in departed'
              /\ m_nodes'[v] = m_nodes[v] /\ m_vehicles'[v] = NoSink
           \/ /\ v \notin Leaving /\ v \notin departed'
              /\ m_nodes'[v] = m_nodes[v] /\ m_vehicles'[v] = m_vehicles[v]
      /\ \A v, w \in Vehicles :
           m_nodes'[v] \in m_nodeIndex .. m_nodeIndex' - 1 /\ m_nodes'[v] = m_nodes'[w]
             => v = w
  <2>1. departed' \in SUBSET Vehicles /\ Leaving \in SUBSET Vehicles
    BY <1>1
  <2>2. addAndRemove(departed', Leaving)
    BY <1>1
  <2>3. \A v \in Vehicles : m_nodes[v] \in Nat => m_nodes[v] < m_nodeIndex
    BY <1>2 DEF NumberInv
  <2> HIDE DEF BasicIInv, BasicUpdate
  <2> QED
    BY <1>2, <2>1, <2>2, <2>3, AddAndRemove
<1>4. ASSUME NEW v \in Vehicles, v \in departed'
      PROVE  m_nodes[v] = Absent /\ m_vehicles[v] = Absent
  BY <1>1, <1>2, <1>4, AbsentAssumption DEF BasicVehiclesMirrored, SinksOwned, Managed, NodeTypeOK
<1>5. Managed' \subseteq running' /\ (~DestroyOnCrash => Managed' = running')
  <2>1. \A v \in Vehicles : m_vehicles'[v] # Absent => v \in running'
    BY <1>1, <1>2, <1>3, AbsentAssumption DEF BasicVehiclesMirrored, Managed
  <2>2. ASSUME ~DestroyOnCrash, NEW v \in Vehicles, v \in running'
        PROVE  m_vehicles'[v] # Absent
    <3>1. Leaving = arrived' /\ Managed = running
      BY <1>1, <1>2, <2>2 DEF BasicVehiclesMirrored
    <3>2. m_vehicles[v] # Absent \/ v \in departed'
      BY <1>1, <2>2, <3>1 DEF Managed
    <3> QED
      BY <1>1, <1>2, <1>3, <2>2, <3>1, <3>2, AbsentAssumption DEF NodeTypeOK
  <2> QED
    BY <1>1, <2>1, <2>2 DEF Managed
<1>6. /\ m_vehicle_caches' \in Caches /\ CachesFresh'
      /\ shown' \in [Vehicles -> SUBSET (Nat \cup {NoValue})]
      /\ \A v \in Managed' : m_vehicles'[v] \in Nat => shown'[v] = {sumoTime'}
  <2>1. /\ sumoTime' \in Nat /\ running' \subseteq Vehicles
        /\ Managed' \in SUBSET running'
        /\ shown \in [Vehicles -> SUBSET (Nat \cup {NoValue})]
    BY <1>1, <1>2, <1>5 DEF NodeTypeOK
  <2> QED
    BY <1>1, <2>1, SinksUpdated
<1>7. NodeTypeOK' /\ NumberInv'
  BY <1>2, <1>3, <1>6, AbsentAssumption DEF NumberInv, NodeTypeOK
<1>8. SinksOwned'
  <2>1. ASSUME NEW v \in Vehicles
        PROVE  /\ m_nodes'[v] # Absent => m_vehicles'[v] = m_nodes'[v]
               /\ m_vehicles'[v] \in Nat => m_nodes'[v] = m_vehicles'[v]
    BY <1>1, <1>2, <1>3, <1>4, AbsentAssumption DEF SinksOwned
  <2>2. ASSUME NEW v \in Vehicles, NEW w \in Vehicles,
               m_nodes'[v] # Absent, m_nodes'[v] = m_nodes'[w]
        PROVE  v = w
    BY <1>1, <1>2, <1>3, <1>4, <2>2, AbsentAssumption DEF SinksOwned, Noded
  <2> QED
    BY <2>1, <2>2 DEF SinksOwned, Noded
<1>9. SinksCurrent'
  <2> SUFFICES ASSUME NEW v \in Vehicles, m_nodes'[v] # Absent
               PROVE  shown'[v] = {sumoTime'}
    BY DEF SinksCurrent, Noded
  <2>1. m_vehicles'[v] \in Nat
    BY <1>1, <1>3, <1>8 DEF SinksOwned
  <2> QED
    BY <1>6, <2>1, AbsentAssumption DEF Managed
<1> QED
  BY <1>1, <1>5, <1>6, <1>7, <1>8, <1>9
     DEF CoreInv, SubscriptionInv, NodeInv, BasicVehiclesMirrored

(* The other steps change neither the vehicles nor the nodes kept for      *)
(* them, or end the run.                                                   *)
LEMMA BasicOtherInv ==
    ASSUME BasicIInv, BasicReject \/ BasicFinish \/ Client \/ UNCHANGED basicVars
    PROVE  BasicIInv'
<1> USE DEF BasicIInv
<1>1. CASE BasicReject
  BY <1>1, RejectInv DEF BasicReject, CoreReject, BasicVehiclesMirrored
<1>2. CASE BasicFinish
  BY <1>2, FinishInv DEF BasicFinish, CoreFinish, BasicVehiclesMirrored
<1>3. CASE Client
  BY <1>3, ClientInv DEF BasicVehiclesMirrored, Managed, nodeVars, coreVars
<1>4. CASE UNCHANGED basicVars
  <2>1. UNCHANGED <<sumoVars, subVars, nodeVars, coreVars>>
    BY <1>4 DEF basicVars
  <2> QED
    BY <2>1, CoreStutterInv DEF BasicVehiclesMirrored, Managed, sumoVars, nodeVars, coreVars
<1> QED
  BY <1>1, <1>2, <1>3, <1>4

(* IInv holds in every reachable state.                                    *)
THEOREM BasicInvariance == BasicSpec => []BasicIInv
<1>1. BasicInit => BasicIInv
  BY CoreInitInv DEF BasicInit, BasicIInv, BasicVehiclesMirrored, CoreInit
<1>2. BasicIInv /\ [BasicNext]_basicVars => BasicIInv'
  BY BasicConnectInv, BasicUpdateInv, BasicOtherInv DEF BasicNext, BasicDone
<1> QED
  BY <1>1, <1>2, PTL DEF BasicSpec

(* Every variable keeps its type.                                          *)
THEOREM BasicTypeCorrect == BasicSpec => []BasicTypeOK
<1>1. BasicIInv => BasicTypeOK
  BY DEF BasicIInv, BasicTypeOK, CoreInv, SubscriptionInv, NodeInv
<1> QED
  BY <1>1, BasicInvariance, PTL

(* The time check of step() and traciStep() never fails.                   *)
THEOREM TimeAlwaysInSync == BasicSpec => []TimeInSync
<1>1. BasicIInv => TimeInSync
  BY DEF BasicIInv, CoreInv, SubscriptionInv
<1> QED
  BY <1>1, BasicInvariance, PTL

(* Exactly the running vehicles are subscribed, to all variables.          *)
THEOREM AlwaysSubscribed == BasicSpec => []SubscriptionsComplete
<1>1. BasicIInv => SubscriptionsComplete
  BY DEF BasicIInv, CoreInv, SubscriptionInv
<1> QED
  BY <1>1, BasicInvariance, PTL

(* Caches of running vehicles hold no value of an earlier step, and nodes  *)
(* show their vehicles as they are in SUMO.                                *)
THEOREM AlwaysFresh == BasicSpec => [](CachesFresh /\ SinksCurrent)
<1>1. BasicIInv => CachesFresh /\ SinksCurrent
  BY DEF BasicIInv, CoreInv, SubscriptionInv, NodeInv
<1> QED
  BY <1>1, BasicInvariance, PTL

(* The pointers in m_vehicles are valid while they are used.               *)
THEOREM NoDanglingSinks == BasicSpec => []SinksOwned
<1>1. BasicIInv => SinksOwned
  BY DEF BasicIInv, CoreInv, NodeInv
<1> QED
  BY <1>1, BasicInvariance, PTL

(* The kept vehicles are running, and without crashes all running ones.    *)
THEOREM BasicAlwaysMirrored == BasicSpec => []BasicVehiclesMirrored
<1>1. BasicIInv => BasicVehiclesMirrored
  BY DEF BasicIInv
<1> QED
  BY <1>1, BasicInvariance, PTL

(* Core leaves nothing behind when it stops stepping SUMO.                 *)
THEOREM BasicCleanStop == BasicSpec => []BasicNothingLeftBehind
<1>1. BasicIInv => BasicNothingLeftBehind
  <2> SUFFICES ASSUME BasicIInv, phase = "running", updateAt = Never
               PROVE  Managed = {} /\ Noded = {} /\ m_subscribed_vehicles = {}
    BY DEF BasicNothingLeftBehind
  <2>1. running = {} /\ m_subscribed_vehicles = {} /\ Managed = {}
    BY DEF BasicIInv, CoreInv, SubscriptionInv, StoppedInv, SubscriptionsComplete, BasicVehiclesMirrored
  <2>2. \A v \in Vehicles : m_nodes[v] # Absent => m_vehicles[v] # Absent
    BY DEF BasicIInv, CoreInv, NodeInv, SinksOwned
  <2> QED
    BY <2>1, <2>2 DEF Managed, Noded
<1> QED
  BY <1>1, BasicInvariance, PTL

(* A vehicle keeps its module or loses it, but never gets another one.     *)
THEOREM BasicNodesAreStable == BasicSpec => NodesStable
<1> DEFINE Stable == \A v \in Vehicles :
                        m_nodes[v] # Absent => m_nodes'[v] \in {m_nodes[v], Absent}
<1>1. BasicIInv /\ [BasicNext]_basicVars => [Stable]_m_nodes
  <2> SUFFICES ASSUME BasicIInv, [BasicNext]_basicVars PROVE Stable \/ UNCHANGED m_nodes
    OBVIOUS
  <2>1. CASE BasicConnect
    BY <2>1 DEF BasicIInv, CoreInv, WaitingInv, BasicConnect, CoreConnect
  <2>2. CASE BasicUpdate
    <3>1. /\ phase = "running" /\ NodeTypeOK
          /\ Entering \in SUBSET Vehicles /\ Entering \cap running = {}
          /\ Leaving \in SUBSET Vehicles
          /\ addAndRemove(Entering, Leaving)
      BY <2>2 DEF BasicIInv, CoreInv, SubscriptionInv, NodeInv, SumoTypeOK, BasicUpdate, CoreUpdate, SumoStep, SubStep,
         Entering, Leaving
    <3>2. \A v \in Vehicles : m_nodes[v] # Absent => v \in running
      BY <3>1 DEF BasicIInv, CoreInv, NodeInv, SinksOwned, BasicVehiclesMirrored, Managed
    <3>3. \A v \in Vehicles : v \notin Entering => m_nodes'[v] \in {m_nodes[v], Absent}
      BY <3>1, AddAndRemove
    <3> QED
      BY <3>1, <3>2, <3>3
  <2>3. CASE BasicFinish
    BY <2>3 DEF BasicFinish, CoreFinish, NodeTraciClose
  <2>4. CASE BasicReject \/ Client \/ BasicDone \/ UNCHANGED basicVars
    BY <2>4 DEF BasicReject, Client, ReadVariable, SubscribeMore, BasicDone, basicVars, nodeVars
  <2> QED
    BY <2>1, <2>2, <2>3, <2>4 DEF BasicNext
<1> QED
  BY <1>1, BasicInvariance, PTL DEF BasicSpec, NodesStable

(* The TraCI subsystem implements the abstract specification of a node     *)
(* manager.                                                                *)
THEOREM BasicRefinement == BasicSpec => BasicMirrorsTraffic
<1>1. BasicInit => BasicMirror!Init
  BY DEF BasicInit, CoreInit, SumoInit, NodeInit, BasicMirror!Init, Managed
<1>2. BasicIInv /\ BasicIInv' /\ [BasicNext]_basicVars => [BasicMirror!Next]_(BasicMirror!vars)
  <2> SUFFICES ASSUME BasicIInv, BasicIInv', [BasicNext]_basicVars
               PROVE  BasicMirror!Next \/ UNCHANGED BasicMirror!vars
    BY DEF BasicMirror!vars
  <2>1. CASE BasicConnect
    <3>1. /\ phase = "waiting" /\ phase' = "running"
          /\ running' \in SUBSET Vehicles
      BY <2>1 DEF BasicConnect, CoreConnect, BasicIInv, CoreInv, SubscriptionInv, SumoTypeOK
    <3>2. Managed' = running'
      <4>1. /\ NodeTypeOK /\ {} \in SUBSET Vehicles
            /\ addAndRemove(running', {})
        BY <2>1 DEF BasicConnect, BasicIInv, CoreInv, NodeInv
      <4>2. \A v \in Vehicles : m_vehicles[v] = Absent
        BY <3>1 DEF BasicIInv, CoreInv, WaitingInv
      <4>3. \A v \in Vehicles :
              \/ v \in {} /\ m_nodes'[v] = Absent /\ m_vehicles'[v] = Absent
              \/ /\ v \notin {} /\ v \in running'
                 /\ m_nodes'[v] \in m_nodeIndex .. m_nodeIndex' - 1
                 /\ m_vehicles'[v] = m_nodes'[v]
              \/ /\ v \notin {} /\ v \in running'
                 /\ m_nodes'[v] = m_nodes[v] /\ m_vehicles'[v] = NoSink
              \/ /\ v \notin {} /\ v \notin running'
                 /\ m_nodes'[v] = m_nodes[v] /\ m_vehicles'[v] = m_vehicles[v]
        BY <3>1, <4>1, AddAndRemove
      <4>4. m_nodeIndex \in Nat /\ m_nodeIndex' \in Nat
        BY DEF BasicIInv, CoreInv, NodeInv, NodeTypeOK
      <4>5. \A v \in Vehicles : m_vehicles'[v] # Absent <=> v \in running'
        BY <4>2, <4>3, <4>4, AbsentAssumption
      <4> QED
        BY <3>1, <4>5 DEF Managed
    <3> QED
      BY <3>1, <3>2 DEF BasicMirror!Next, BasicMirror!Open
  <2>2. CASE BasicUpdate
    <3>1. /\ phase = "running" /\ phase' = "running" /\ NodeTypeOK
          /\ running' \in SUBSET Vehicles /\ running \in SUBSET Vehicles
          /\ Entering \in SUBSET Vehicles /\ Leaving \in SUBSET running
          /\ Entering = running' \ running /\ running \ running' \subseteq Leaving
          /\ addAndRemove(Entering, Leaving)
          /\ ~DestroyOnCrash => Managed' = running'
          /\ Managed \subseteq running
      BY <2>2 DEF BasicIInv, CoreInv, SubscriptionInv, NodeInv, SumoTypeOK, BasicUpdate, CoreUpdate, SumoStep, SubStep,
         Entering, Leaving, BasicVehiclesMirrored
    <3>2. \A v \in Vehicles :
             /\ v \in Entering => m_vehicles'[v] # Absent
             /\ v \notin Entering => m_vehicles'[v] \in {m_vehicles[v], Absent}
             /\ v \in Leaving => m_vehicles'[v] = Absent
      BY <3>1, AddAndRemove, AbsentAssumption DEF NodeTypeOK
    <3>3. /\ Entering \subseteq Managed'
          /\ Managed' \subseteq Entering \cup (Managed \cap running')
      BY <3>1, <3>2 DEF Managed
    <3>4. ~DestroyOnCrash => Managed \cap running' \subseteq Managed'
      BY <3>1
    <3> QED
      BY <3>1, <3>3, <3>4 DEF BasicMirror!Next, BasicMirror!Move
  <2>3. CASE BasicFinish
    BY <2>3 DEF BasicFinish, CoreFinish, sumoVars, BasicMirror!Next, BasicMirror!Stop
  <2>4. CASE BasicReject
    <3>1. /\ phase = "waiting" /\ phase' = "error"
          /\ running' = running /\ m_vehicles' = m_vehicles
      BY <2>4 DEF BasicReject, CoreReject, sumoVars, nodeVars
    <3>2. Managed' = {}
      BY <3>1 DEF BasicIInv, CoreInv, WaitingInv, Managed
    <3> QED
      BY <3>1, <3>2 DEF BasicMirror!Next, BasicMirror!Stop
  <2>5. CASE Client \/ BasicDone \/ UNCHANGED basicVars
    BY <2>5 DEF Client, ReadVariable, SubscribeMore, BasicDone, basicVars, sumoVars, nodeVars,
       coreVars, Managed, BasicMirror!vars
  <2> QED
    BY <2>1, <2>2, <2>3, <2>4, <2>5 DEF BasicNext
<1> QED
  BY <1>1, <1>2, BasicInvariance, PTL DEF BasicSpec, BasicMirrorsTraffic, BasicMirror!Spec

-----------------------------------------------------------------------------
(* TraciDelayed.                                                           *)

QueueTypeOK ==
    /\ m_insert_queue \in [Vehicles -> Nat \cup {Never}]
    /\ insertAt \in Nat \cup {Never}

(* Nobody waits before the connection is up.                               *)
QueueWaitingInv ==
    phase = "waiting" =>
        insertAt = Never /\ \A v \in Vehicles : m_insert_queue[v] = Never

QueueInv == QueueTypeOK /\ QueueWaitingInv /\ InsertionArmed /\ VehiclesMirrored

(* The inductive invariant: what is shared with BasicNodeManager, and the  *)
(* queue with its one event.                                               *)
IInv == CoreInv /\ QueueInv

(* A delayed time is a time, and not an earlier one.                       *)
LEMMA DelayedTime ==
    ASSUME NEW ids, NEW delay \in [ids -> Delays], NEW time \in Nat
    PROVE  \A v \in ids : /\ time + delay[v] \in Nat
                          /\ time + delay[v] >= time
                          /\ time + delay[v] # Never
<1>1. \A v \in ids : delay[v] \in Nat
  BY DelaysAssumption
<1> QED
  BY <1>1, TimeAssumption

(* scheduleVehicleInsertion arms the event for the first of the queue.     *)
LEMMA Scheduled ==
    ASSUME m_insert_queue' \in [Vehicles -> Nat \cup {Never}],
           scheduleVehicleInsertion(m_insert_queue'), now' \in Nat,
           \A v \in Vehicles : m_insert_queue'[v] # Never => m_insert_queue'[v] >= now'
    PROVE  InsertionArmed' /\ insertAt' \in Nat \cup {Never}
<1>1. CASE \A v \in Vehicles : m_insert_queue'[v] = Never
  BY <1>1, TimeAssumption DEF scheduleVehicleInsertion, InsertionArmed, Queued
<1>2. CASE \E v \in Vehicles : m_insert_queue'[v] # Never
  <2>1. /\ insertAt' \in {m_insert_queue'[v] : v \in Vehicles} \ {Never}
        /\ IsFirstInsertion(insertAt', m_insert_queue')
    BY <1>2 DEF scheduleVehicleInsertion
  <2>2. insertAt' \in Nat /\ insertAt' # Never
    BY <2>1, TimeAssumption
  <2>3. Queued' # {}
    BY <1>2 DEF Queued
  <2> QED
    BY <2>1, <2>2, <2>3 DEF InsertionArmed, Queued, IsFirstInsertion
<1> QED
  BY <1>1, <1>2

(* Vehicles that are running already are queued on "traci.init".           *)
LEMMA ConnectInv ==
    ASSUME IInv, Connect
    PROVE  IInv'
<1> USE DEF IInv, Connect
<1>1. /\ phase = "waiting" /\ phase' = "running"
      /\ now' \in Nat /\ sumoTime' = now'
      /\ running' \in SUBSET Vehicles
      /\ SubscriptionInv' /\ WaitingInv'
  BY CoreConnected
<1>2. /\ NodeTypeOK
      /\ \A v \in Vehicles :
           m_nodes[v] = Absent /\ m_vehicles[v] = Absent /\ m_insert_queue[v] = Never
  BY <1>1 DEF CoreInv, NodeInv, WaitingInv, QueueInv, QueueWaitingInv
<1>3. PICK delay \in [running' -> Delays] : m_insert_queue' = Enqueue(running', delay, now')
  OBVIOUS
<1>4. /\ m_insert_queue' \in [Vehicles -> Nat \cup {Never}]
      /\ \A v \in Vehicles :
           /\ v \in running' => m_insert_queue'[v] \in Nat /\ m_insert_queue'[v] >= now'
           /\ v \notin running' => m_insert_queue'[v] = Never
  <2>1. \A v \in running' : now' + delay[v] \in Nat /\ now' + delay[v] >= now'
    BY <1>1, DelayedTime
  <2>2. m_insert_queue' = [v \in Vehicles |-> IF v \in running' THEN now' + delay[v] ELSE Never]
    BY <1>1, <1>2, <1>3 DEF Enqueue
  <2> QED
    BY <2>1, <2>2
<1>5. InsertionArmed' /\ QueueTypeOK'
  BY <1>1, <1>4, Scheduled DEF QueueTypeOK
<1>6. NodeInv'
  BY <1>1, <1>2, AbsentAssumption DEF NodeInv, NodeTypeOK, NumberInv, SinksCurrent, SinksOwned,
     Noded, nodeVars
<1>7. VehiclesMirrored'
  <2>1. Queued' = running' /\ Managed' = {}
    BY <1>1, <1>2, <1>4, TimeAssumption DEF Queued, Managed, nodeVars
  <2> QED
    BY <2>1 DEF VehiclesMirrored
<1> QED
  BY <1>1, <1>5, <1>6, <1>7 DEF CoreInv, QueueInv, QueueWaitingInv

(* One step of SUMO: departed vehicles are queued, the insertions of the   *)
(* leaving ones called off or their nodes removed, the others updated.     *)
LEMMA UpdateInv ==
    ASSUME IInv, Update
    PROVE  IInv'
<1> USE DEF IInv, Update
<1>1. /\ phase = "running" /\ phase' = "running"
      /\ now' = updateAt /\ now' \in Nat /\ sumoTime' = now'
      /\ departed' \subseteq Vehicles /\ departed' \cap running = {}
      /\ arrived' \subseteq running /\ running \subseteq Vehicles
      /\ running' = (running \ arrived') \cup departed'
      /\ Entering = departed'
      /\ Leaving \in SUBSET running
      /\ arrived' \subseteq Leaving
      /\ ~DestroyOnCrash => Leaving = arrived'
      /\ ResetCaches \in Caches
      /\ \A v \in running', x \in VehicleVars : ResetCaches[v][x] \in {NoValue, sumoTime'}
      /\ m_vehicle_caches' \in Caches => SubTypeOK'
      /\ SumoTypeOK' /\ CoreTypeOK' /\ VarsInv' /\ StoppedInv'
      /\ TimeInSync' /\ SubscriptionsComplete' /\ WaitingInv'
  BY CoreUpdated
<1>2. /\ NodeTypeOK /\ NumberInv /\ SinksOwned /\ VehiclesMirrored
      /\ InsertionArmed /\ QueueTypeOK
  BY DEF CoreInv, NodeInv, QueueInv
<1>3. PICK delay \in [Entering -> Delays] :
        LET queue == Enqueue(Entering, delay, now')
            called_off == {v \in Leaving : queue[v] # Never}
        IN /\ m_insert_queue' = Dequeue(called_off, queue)
           /\ addAndRemove({}, Leaving \ called_off)
  OBVIOUS
<1> DEFINE queue == Enqueue(Entering, delay, now')
           called_off == {v \in Leaving : queue[v] # Never}
<1>4. ASSUME NEW v \in Vehicles
      PROVE  /\ v \in departed' => queue[v] = now' + delay[v] /\ delay[v] \in Nat
             /\ v \notin departed' => queue[v] = m_insert_queue[v]
  BY <1>1, <1>2, DelaysAssumption DEF Enqueue, VehiclesMirrored, Queued
<1>5. ASSUME NEW v \in Vehicles, m_insert_queue[v] # Never
      PROVE  m_insert_queue[v] \in Nat /\ m_insert_queue[v] >= now'
  <2>1. insertAt # Never /\ insertAt <= m_insert_queue[v]
    BY <1>1, <1>2, <1>5 DEF InsertionArmed, Queued, IsFirstInsertion
  <2>2. updateAt <= insertAt
    BY <2>1 DEF Due
  <2> QED
    BY <1>1, <1>2, <1>5, <2>1, <2>2, TimeAssumption DEF QueueTypeOK
<1>6. called_off = {v \in Leaving : m_insert_queue[v] # Never}
  BY <1>1, <1>4
<1> HIDE DEF queue, called_off
<1>7. ASSUME NEW v \in Vehicles
      PROVE  \/ v \in departed' /\ m_insert_queue'[v] \in Nat /\ m_insert_queue'[v] >= now'
             \/ v \in Leaving /\ m_insert_queue'[v] = Never
             \/ v \notin departed' \cup Leaving /\ m_insert_queue'[v] = m_insert_queue[v]
  <2>1. m_insert_queue'[v] = IF v \in called_off THEN Never ELSE queue[v]
    BY <1>3 DEF Dequeue, queue, called_off
  <2> QED
    BY <1>1, <1>4, <1>6, <2>1
<1>8. m_insert_queue' \in [Vehicles -> Nat \cup {Never}]
  <2>1. m_insert_queue' = Dequeue(called_off, queue)
    BY <1>3 DEF queue, called_off
  <2>2. \A v \in Vehicles : m_insert_queue'[v] \in Nat \cup {Never}
    BY <1>7, <1>2 DEF QueueTypeOK
  <2> QED
    BY <2>1, <2>2 DEF Dequeue
<1>9. InsertionArmed' /\ QueueTypeOK'
  <2>1. \A v \in Vehicles : m_insert_queue'[v] # Never => m_insert_queue'[v] >= now'
    BY <1>5, <1>7
  <2> QED
    BY <1>1, <1>8, <2>1, Scheduled DEF QueueTypeOK
<1>10. /\ m_nodes' \in [Vehicles -> Nat \cup {Absent}]
       /\ m_vehicles' \in [Vehicles -> Nat \cup {Absent, NoSink}]
       /\ m_nodeIndex' \in Nat /\ m_nodeIndex <= m_nodeIndex'
       /\ \A v \in Vehicles :
            \/ /\ v \in Leaving \ called_off
               /\ m_nodes'[v] = Absent /\ m_vehicles'[v] = Absent
            \/ /\ v \notin Leaving \ called_off
               /\ m_nodes'[v] = m_nodes[v] /\ m_vehicles'[v] = m_vehicles[v]
  <2> DEFINE gone == Leaving \ called_off
  <2>1. addAndRemove({}, gone) /\ gone \in SUBSET Vehicles
    BY <1>1, <1>3 DEF queue, called_off
  <2> HIDE DEF gone
  <2>2. /\ m_nodes' \in [Vehicles -> Nat \cup {Absent}]
        /\ m_vehicles' \in [Vehicles -> Nat \cup {Absent, NoSink}]
        /\ m_nodeIndex' \in Nat /\ m_nodeIndex <= m_nodeIndex'
        /\ \A v \in Vehicles :
             \/ v \in gone /\ m_nodes'[v] = Absent /\ m_vehicles'[v] = Absent
             \/ /\ v \notin gone /\ m_nodes'[v] = m_nodes[v]
                /\ m_vehicles'[v] = m_vehicles[v]
    BY <1>2, <2>1, RemoveOnly
  <2> QED
    BY <2>2 DEF gone
<1>11. VehiclesMirrored'
  <2>1. \A v \in Vehicles : ~(m_insert_queue[v] # Never /\ m_vehicles[v] # Absent)
    BY <1>1, <1>2 DEF VehiclesMirrored, Managed, Queued
  <2>2. Managed' = Managed \ Leaving
    BY <1>6, <1>10, <2>1 DEF Managed
  <2>3. Queued' = (Queued \ Leaving) \cup departed'
    BY <1>1, <1>7, TimeAssumption DEF Queued
  <2> QED
    BY <1>1, <1>2, <2>2, <2>3 DEF VehiclesMirrored
<1>12. /\ m_vehicle_caches' \in Caches /\ CachesFresh'
       /\ shown' \in [Vehicles -> SUBSET (Nat \cup {NoValue})]
       /\ \A v \in Managed' \ Queued' : m_vehicles'[v] \in Nat => shown'[v] = {sumoTime'}
  <2>1. /\ sumoTime' \in Nat /\ running' \subseteq Vehicles
        /\ Managed' \ Queued' \in SUBSET running'
        /\ shown \in [Vehicles -> SUBSET (Nat \cup {NoValue})]
    BY <1>1, <1>2, <1>11 DEF NodeTypeOK, VehiclesMirrored
  <2> QED
    BY <1>1, <2>1, SinksUpdated
<1>13. NodeTypeOK' /\ NumberInv'
  BY <1>2, <1>10, <1>12, AbsentAssumption DEF NumberInv, NodeTypeOK
<1>14. SinksOwned'
  BY <1>1, <1>2, <1>10, AbsentAssumption DEF SinksOwned, Noded
<1>15. SinksCurrent'
  <2> SUFFICES ASSUME NEW v \in Vehicles, m_nodes'[v] # Absent
               PROVE  shown'[v] = {sumoTime'}
    BY DEF SinksCurrent, Noded
  <2>1. m_vehicles'[v] \in Nat
    BY <1>1, <1>10, <1>14 DEF SinksOwned
  <2>2. v \in Managed' \ Queued'
    BY <1>1, <1>11, <2>1, AbsentAssumption DEF Managed, VehiclesMirrored
  <2> QED
    BY <1>12, <2>1, <2>2
<1> QED
  BY <1>1, <1>9, <1>11, <1>12, <1>13, <1>14, <1>15
     DEF CoreInv, SubscriptionInv, NodeInv, QueueInv, QueueWaitingInv

(* The insertion event: the first vehicle of the queue gets its node and   *)
(* is shown as it is in SUMO, between two steps.                           *)
LEMMA InsertInv ==
    ASSUME IInv, Insert
    PROVE  IInv'
<1> USE DEF IInv, Insert
<1>1. /\ phase = "running" /\ phase' = "running"
      /\ now' = insertAt /\ insertAt # Never
      /\ UNCHANGED <<connectAt, updateAt, sumoVars>>
      /\ UNCHANGED <<m_vehicle_vars, m_subscribed_vehicles, m_sim_cache>>
  BY DEF Due
<1>2. /\ SubscriptionInv /\ NodeTypeOK /\ NumberInv /\ SinksOwned /\ SinksCurrent
      /\ VehiclesMirrored /\ InsertionArmed /\ QueueTypeOK
      /\ running \subseteq Vehicles /\ sumoTime \in Nat
      /\ running' = running /\ sumoTime' = sumoTime
  BY <1>1 DEF CoreInv, NodeInv, QueueInv, SubscriptionInv, SumoTypeOK, sumoVars
<1>3. now' \in Nat
  BY <1>1, <1>2 DEF QueueTypeOK
<1>4. PICK u \in Queued :
        /\ m_insert_queue[u] = now'
        /\ addAndRemove({u}, {})
        /\ updateVehicles({u}, m_vehicle_caches)
        /\ m_insert_queue' = Dequeue({u}, m_insert_queue)
  OBVIOUS
<1>5. u \in Vehicles /\ u \in running /\ m_vehicles[u] = Absent /\ m_nodes[u] = Absent
  BY <1>1, <1>2, AbsentAssumption DEF VehiclesMirrored, Queued, Managed, SinksOwned, NodeTypeOK
<1>6. /\ m_insert_queue' \in [Vehicles -> Nat \cup {Never}]
      /\ m_insert_queue'[u] = Never
      /\ \A v \in Vehicles \ {u} : m_insert_queue'[v] = m_insert_queue[v]
  BY <1>2, <1>4, <1>5 DEF Dequeue, QueueTypeOK
<1>7. InsertionArmed' /\ QueueTypeOK'
  <2>1. ASSUME NEW v \in Vehicles, m_insert_queue'[v] # Never
        PROVE  m_insert_queue'[v] >= now'
    <3>1. m_insert_queue'[v] = m_insert_queue[v] /\ m_insert_queue[v] # Never
      BY <1>6, <2>1
    <3>2. insertAt <= m_insert_queue[v]
      BY <1>1, <1>2, <3>1 DEF InsertionArmed, Queued, IsFirstInsertion
    <3> QED
      BY <1>1, <1>2, <1>3, <3>1, <3>2, TimeAssumption DEF QueueTypeOK
  <2> QED
    BY <1>3, <1>6, <2>1, Scheduled DEF QueueTypeOK
<1>8. /\ m_nodes' \in [Vehicles -> Nat \cup {Absent}]
      /\ m_vehicles' \in [Vehicles -> Nat \cup {Absent, NoSink}]
      /\ m_nodeIndex' \in Nat /\ m_nodeIndex <= m_nodeIndex'
      /\ \/ /\ m_nodes'[u] \in m_nodeIndex .. m_nodeIndex' - 1
            /\ m_vehicles'[u] = m_nodes'[u]
         \/ m_nodes'[u] = Absent /\ m_vehicles'[u] = NoSink
      /\ \A v \in Vehicles \ {u} : m_nodes'[v] = m_nodes[v] /\ m_vehicles'[v] = m_vehicles[v]
  BY <1>2, <1>4, <1>5, AddOne
<1>9. /\ m_vehicle_caches' \in Caches /\ CachesFresh'
      /\ shown' \in [Vehicles -> SUBSET (Nat \cup {NoValue})]
      /\ m_vehicles'[u] \in Nat => shown'[u] = {sumoTime'}
      /\ \A v \in Vehicles \ {u} : m_vehicles'[v] \in Nat => shown'[v] = shown[v]
  <2>1. /\ sumoTime' \in Nat /\ running' \subseteq Vehicles
        /\ {u} \in SUBSET running' /\ m_vehicle_caches \in Caches
        /\ shown \in [Vehicles -> SUBSET (Nat \cup {NoValue})]
        /\ \A v \in running', x \in VehicleVars : m_vehicle_caches[v][x] \in {NoValue, sumoTime'}
    BY <1>1, <1>2, <1>5 DEF SubscriptionInv, SubTypeOK, NodeTypeOK, CachesFresh
  <2> QED
    BY <1>4, <2>1, SinksUpdated
<1>10. SubscriptionInv' /\ WaitingInv'
  <2>1. SumoTypeOK' /\ SubTypeOK' /\ CoreTypeOK'
    BY <1>1, <1>2, <1>3, <1>9 DEF SubscriptionInv, SumoTypeOK, SubTypeOK, CoreTypeOK, sumoVars
  <2>2. VarsInv' /\ StoppedInv' /\ TimeInSync' /\ SubscriptionsComplete' /\ WaitingInv'
    BY <1>1, <1>2 DEF SubscriptionInv, VarsInv, StoppedInv, TimeInSync,
       SubscriptionsComplete, WaitingInv, sumoVars
  <2> QED
    BY <1>9, <2>1, <2>2 DEF SubscriptionInv
<1>11. NodeTypeOK' /\ NumberInv'
  BY <1>2, <1>8, <1>9, AbsentAssumption DEF NumberInv, NodeTypeOK
<1>12. SinksOwned'
  <2>1. ASSUME NEW v \in Vehicles
        PROVE  /\ m_nodes'[v] # Absent => m_vehicles'[v] = m_nodes'[v]
               /\ m_vehicles'[v] \in Nat => m_nodes'[v] = m_vehicles'[v]
    BY <1>1, <1>2, <1>8, AbsentAssumption DEF SinksOwned
  <2>2. ASSUME NEW v \in Vehicles, v # u, m_nodes'[v] # Absent
        PROVE  m_nodes'[v] # m_nodes'[u]
    BY <1>2, <1>8, <2>2, AbsentAssumption DEF NumberInv, NodeTypeOK
  <2>3. ASSUME NEW v \in Vehicles \ {u}, NEW w \in Vehicles \ {u},
               m_nodes'[v] # Absent, m_nodes'[v] = m_nodes'[w]
        PROVE  v = w
    BY <1>1, <1>2, <1>8, <2>3 DEF SinksOwned, Noded
  <2>4. \A v, w \in Noded' : m_nodes'[v] = m_nodes'[w] => v = w
    BY <2>2, <2>3 DEF Noded
  <2> QED
    BY <2>1, <2>4 DEF SinksOwned
<1>13. SinksCurrent'
  <2> SUFFICES ASSUME NEW v \in Vehicles, m_nodes'[v] # Absent
               PROVE  shown'[v] = {sumoTime'}
    BY DEF SinksCurrent, Noded
  <2>1. m_vehicles'[v] \in Nat
    BY <1>1, <1>8, <1>12 DEF SinksOwned
  <2>2. CASE v = u
    BY <1>9, <2>1, <2>2
  <2>3. CASE v # u
    BY <1>1, <1>2, <1>8, <1>9, <2>1, <2>3 DEF SinksCurrent, Noded
  <2> QED
    BY <2>2, <2>3
<1>14. VehiclesMirrored'
  <2>1. Managed' = Managed \cup {u} /\ Queued' = Queued \ {u}
    <3>1. m_vehicles'[u] # Absent
      BY <1>2, <1>4, <1>5, AddOne
    <3>2. Managed' = Managed \cup {u}
      BY <1>5, <1>8, <3>1 DEF Managed
    <3>3. Queued' = Queued \ {u}
      BY <1>6 DEF Queued
    <3> QED
      BY <3>2, <3>3
  <2> QED
    BY <1>1, <1>2, <1>5, <2>1 DEF VehiclesMirrored
<1> QED
  BY <1>1, <1>7, <1>10, <1>11, <1>12, <1>13, <1>14
     DEF CoreInv, NodeInv, QueueInv, QueueWaitingInv

(* The other steps touch neither queue nor nodes, or end the run.          *)
LEMMA OtherInv ==
    ASSUME IInv,
           \/ Reject \/ Finish \/ UNCHANGED vars
           \/ Client /\ UNCHANGED delayVars
    PROVE  IInv'
<1> USE DEF IInv
<1>1. UNCHANGED delayVars /\ QueueTypeOK'
  BY DEF Reject, Finish, vars, delayVars, QueueInv, QueueTypeOK
<1>2. CASE Reject
  BY <1>1, <1>2, RejectInv DEF Reject, CoreReject, QueueInv, QueueWaitingInv,
     InsertionArmed, VehiclesMirrored
<1>3. CASE Finish
  BY <1>1, <1>3, FinishInv DEF Finish, CoreFinish, QueueInv, QueueWaitingInv,
     InsertionArmed, VehiclesMirrored
<1>4. CASE Client \/ UNCHANGED vars
  <2>1. CoreInv' /\ UNCHANGED <<nodeVars, coreVars, running>>
    <3>1. CASE Client
      BY <3>1, ClientInv
    <3>2. CASE UNCHANGED vars
      <4>1. UNCHANGED <<sumoVars, subVars, nodeVars, coreVars>>
        BY <3>2 DEF vars
      <4> QED
        BY <4>1, CoreStutterInv DEF sumoVars
    <3> QED
      BY <1>4, <3>1, <3>2
  <2>2. QueueWaitingInv' /\ InsertionArmed' /\ VehiclesMirrored'
    BY <1>1, <2>1 DEF QueueInv, QueueWaitingInv, InsertionArmed, VehiclesMirrored, Managed,
       Queued, IsFirstInsertion, nodeVars, coreVars, delayVars
  <2> QED
    BY <1>1, <2>1, <2>2 DEF QueueInv
<1> QED
  BY <1>2, <1>3, <1>4

(* IInv holds in every reachable state.                                    *)
THEOREM Invariance == Spec => []IInv
<1>1. Init => IInv
  <2> SUFFICES ASSUME Init PROVE IInv
    OBVIOUS
  <2>1. CoreInv
    BY CoreInitInv DEF Init
  <2>2. QueueTypeOK /\ QueueWaitingInv
    BY DEF Init, QueueTypeOK, QueueWaitingInv
  <2> QED
    BY <2>1, <2>2 DEF IInv, QueueInv, Init, CoreInit, InsertionArmed, VehiclesMirrored
<1>2. IInv /\ [Next]_vars => IInv'
  BY ConnectInv, UpdateInv, InsertInv, OtherInv DEF Next, Done
<1> QED
  BY <1>1, <1>2, PTL DEF Spec

-----------------------------------------------------------------------------

(* Every variable keeps its type.                                          *)
THEOREM TypeCorrect == Spec => []TypeOK
<1>1. IInv => TypeOK
  BY DEF IInv, CoreInv, SubscriptionInv, NodeInv, QueueInv, QueueTypeOK, TypeOK
<1> QED
  BY <1>1, Invariance, PTL

(* The one insertion event is always armed for the first vehicle waiting,  *)
(* and nobody is overdue, in whatever order the kernel delivers insertions *)
(* and updates of the same time: the assertions of the handler hold.       *)
THEOREM AlwaysArmed == Spec => []InsertionArmed
<1>1. IInv => InsertionArmed
  BY DEF IInv, QueueInv
<1> QED
  BY <1>1, Invariance, PTL

(* A node created between two steps of SUMO shows its vehicle as it is,    *)
(* like all others, and pointers to sinks are valid.                       *)
THEOREM AlwaysCurrent == Spec => [](SinksCurrent /\ CachesFresh /\ SinksOwned)
<1>1. IInv => SinksCurrent /\ CachesFresh /\ SinksOwned
  BY DEF IInv, CoreInv, SubscriptionInv, NodeInv
<1> QED
  BY <1>1, Invariance, PTL

(* A vehicle waits or is kept, never both, and only while SUMO runs it.    *)
THEOREM AlwaysMirrored == Spec => []VehiclesMirrored
<1>1. IInv => VehiclesMirrored
  BY DEF IInv, QueueInv
<1> QED
  BY <1>1, Invariance, PTL

(* When Core stops stepping SUMO no vehicle waits for its insertion.       *)
THEOREM CleanStop == Spec => []NothingLeftBehind
<1>1. IInv => NothingLeftBehind
  BY DEF IInv, CoreInv, SubscriptionInv, QueueInv, StoppedInv, SubscriptionsComplete,
     VehiclesMirrored, NothingLeftBehind
<1> QED
  BY <1>1, Invariance, PTL

(* With delayed insertion, too, a vehicle never gets another module.       *)
THEOREM NodesAreStable == Spec => NodesStable
<1> DEFINE Stable == \A v \in Vehicles :
                        m_nodes[v] # Absent => m_nodes'[v] \in {m_nodes[v], Absent}
<1>1. IInv /\ [Next]_vars => [Stable]_m_nodes
  <2> SUFFICES ASSUME IInv, [Next]_vars PROVE Stable \/ UNCHANGED m_nodes
    OBVIOUS
  <2>1. CASE Update
    <3>1. NodeTypeOK /\ \E gone \in SUBSET Vehicles : addAndRemove({}, gone)
      <4>1. Leaving \in SUBSET Vehicles
        BY <2>1, CoreUpdated DEF IInv, Update
      <4> QED
        BY <2>1, <4>1 DEF IInv, CoreInv, NodeInv, Update
    <3> QED
      BY <3>1, RemoveOnly
  <2>2. CASE Insert
    <3>1. PICK u \in Vehicles : u \in Queued /\ addAndRemove({u}, {})
      BY <2>2 DEF Insert, Queued
    <3>2. NodeTypeOK
      BY DEF IInv, CoreInv, NodeInv
    <3>3. m_nodes[u] = Absent
      BY <2>2, <3>1 DEF Insert, IInv, CoreInv, NodeInv, QueueInv, VehiclesMirrored, SinksOwned, Managed
    <3>4. \A v \in Vehicles : v \notin {u} => m_nodes'[v] \in {m_nodes[v], Absent}
      BY <3>1, <3>2, <3>3, AddOne
    <3> QED
      BY <3>3, <3>4
  <2>3. CASE Finish
    BY <2>3 DEF Finish, CoreFinish, NodeTraciClose
  <2>4. CASE Connect \/ Reject \/ Client \/ Done \/ UNCHANGED vars
    BY <2>4 DEF Connect, Reject, Client, ReadVariable, SubscribeMore, Done, vars, nodeVars
  <2> QED
    BY <2>1, <2>2, <2>3, <2>4 DEF Next
<1> QED
  BY <1>1, Invariance, PTL DEF Spec, NodesStable

(* Waiting and inserted vehicles together implement the abstract           *)
(* specification of a node manager: the delay is invisible in which        *)
(* vehicles are kept, and an insertion is a stuttering step.               *)
THEOREM Refinement == Spec => MirrorsTraffic
<1>1. Init => Mirror!Init
  BY DEF Init, CoreInit, SumoInit, NodeInit, Mirror!Init, Managed, Queued
<1>2. IInv /\ IInv' /\ [Next]_vars => [Mirror!Next]_(Mirror!vars)
  <2> SUFFICES ASSUME IInv, IInv', [Next]_vars
               PROVE  Mirror!Next \/ UNCHANGED Mirror!vars
    BY DEF Mirror!vars
  <2> DEFINE known == Managed \cup Queued
  <2>1. CASE Connect
    <3>1. /\ phase = "waiting" /\ phase' = "running"
          /\ running' \in SUBSET Vehicles
      BY <2>1, CoreConnected DEF Connect, IInv
    <3>2. known' = running'
      <4>1. Managed' = {}
        BY <2>1, <3>1 DEF Connect, IInv, CoreInv, WaitingInv, Managed, nodeVars
      <4>2. PICK delay \in [running' -> Delays] : m_insert_queue' = Enqueue(running', delay, now')
        BY <2>1 DEF Connect
      <4>3. \A v \in Vehicles : m_insert_queue[v] = Never
        BY <3>1 DEF IInv, QueueInv, QueueWaitingInv
      <4>4. now' \in Nat
        BY <2>1, CoreConnected DEF Connect, IInv
      <4>5. \A v \in running' : now' + delay[v] # Never
        BY <4>2, <4>4, DelayedTime
      <4>6. Queued' = running'
        BY <3>1, <4>2, <4>3, <4>5 DEF Queued, Enqueue
      <4> QED
        BY <4>1, <4>6
    <3> QED
      BY <3>1, <3>2 DEF Mirror!Next, Mirror!Open
  <2>2. CASE Update
    <3>1. /\ phase = "running" /\ phase' = "running"
          /\ departed' \subseteq Vehicles /\ departed' \cap running = {}
          /\ arrived' \subseteq running /\ running \subseteq Vehicles
          /\ running' = (running \ arrived') \cup departed'
          /\ Entering = departed' /\ Leaving \in SUBSET running
          /\ arrived' \subseteq Leaving
          /\ now' \in Nat
      BY <2>2, CoreUpdated DEF Update, IInv
    <3>2. /\ known \subseteq running
          /\ ~DestroyOnCrash => known' = running'
          /\ known' \subseteq running'
      BY <3>1 DEF IInv, QueueInv, VehiclesMirrored
    <3>3. PICK delay \in [departed' -> Delays], gone \in SUBSET Vehicles, called_off \in SUBSET Leaving :
            /\ m_insert_queue' = Dequeue(called_off, Enqueue(departed', delay, now'))
            /\ addAndRemove({}, gone)
      BY <2>2, <3>1 DEF Update
    <3>4. ASSUME NEW v \in Vehicles
          PROVE  /\ v \in departed' => m_insert_queue'[v] # Never
                 /\ v \notin departed' => m_insert_queue'[v] \in {m_insert_queue[v], Never}
      <4>1. v \in departed' => m_insert_queue[v] = Never
        BY <3>1, <3>2 DEF Queued
      <4>2. v \in departed' => now' + delay[v] # Never
        BY <3>1, <3>3, DelayedTime
      <4>3. v \in departed' => v \notin called_off
        BY <3>1, <3>3
      <4> QED
        BY <3>3, <4>1, <4>2, <4>3 DEF Dequeue, Enqueue
    <3>5. \A v \in Vehicles : m_vehicles'[v] \in {m_vehicles[v], Absent}
      <4>1. NodeTypeOK
        BY DEF IInv, CoreInv, NodeInv
      <4> QED
        BY <3>3, <4>1, RemoveOnly
    <3>6. departed' \subseteq known' /\ known' \subseteq departed' \cup known
      BY <3>1, <3>4, <3>5 DEF Queued, Managed
    <3>7. departed' = running' \ running
      BY <3>1
    <3> QED
      BY <3>1, <3>2, <3>6, <3>7 DEF Mirror!Next, Mirror!Move
  <2>3. CASE Insert
    <3>1. /\ phase = "running" /\ phase' = "running" /\ running' = running
      BY <2>3 DEF Insert, sumoVars
    <3>2. PICK u \in Vehicles :
            /\ u \in Queued /\ addAndRemove({u}, {})
            /\ m_insert_queue' = Dequeue({u}, m_insert_queue)
      BY <2>3 DEF Insert, Queued
    <3>3. NodeTypeOK /\ m_nodes[u] = Absent
      BY <3>1, <3>2 DEF IInv, CoreInv, NodeInv, QueueInv, VehiclesMirrored, SinksOwned, Managed
    <3>4. /\ m_vehicles'[u] # Absent
          /\ \A v \in Vehicles \ {u} : m_vehicles'[v] = m_vehicles[v]
      BY <3>2, <3>3, AddOne
    <3>5. Managed' = Managed \cup {u} /\ Queued' = Queued \ {u}
      BY <3>2, <3>4 DEF Managed, Queued, Dequeue
    <3>6. known' = known
      BY <3>2, <3>5
    <3> QED
      BY <3>1, <3>6 DEF Mirror!vars
  <2>4. CASE Finish
    BY <2>4 DEF Finish, CoreFinish, sumoVars, Mirror!Next, Mirror!Stop
  <2>5. CASE Reject
    <3>1. /\ phase = "waiting" /\ phase' = "error"
          /\ running' = running /\ UNCHANGED <<m_vehicles, m_insert_queue>>
      BY <2>5 DEF Reject, CoreReject, sumoVars, nodeVars, delayVars
    <3>2. known' = {}
      BY <3>1 DEF IInv, CoreInv, QueueInv, WaitingInv, QueueWaitingInv, Managed, Queued
    <3> QED
      BY <3>1, <3>2 DEF Mirror!Next, Mirror!Stop
  <2>6. CASE (Client /\ UNCHANGED delayVars) \/ Done \/ UNCHANGED vars
    BY <2>6 DEF Client, ReadVariable, SubscribeMore, Done, vars, sumoVars, nodeVars,
       coreVars, delayVars, Managed, Queued, Mirror!vars
  <2> QED
    BY <2>1, <2>2, <2>3, <2>4, <2>5, <2>6 DEF Next
<1> QED
  BY <1>1, <1>2, Invariance, PTL DEF Spec, MirrorsTraffic, Mirror!Spec
=============================================================================
