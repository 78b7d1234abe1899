----------------------- MODULE EnvironmentModelProofs -----------------------
(***************************************************************************)
(* Proofs about EnvironmentModel for any number of vehicles and nodes, any *)
(* step length, validity periods and length of the run.                    *)
(***************************************************************************)
EXTENDS EnvironmentModel, FiniteSetTheorems, TLAPS

(* The inductive invariant.  The database holds one object per identifier, *)
(* and whoever is registered elsewhere is in it.                           *)
DatabaseInv ==
    /\ \A o, p \in mObjects : o.id = p.id => o = p
    /\ Ids(identities) \subseteq Ids(mObjects)
    /\ subscribed \subseteq Ids(mObjects)

(* Only a running refresh has nodes to call, and it works on an up to date *)
(* preselector.                                                            *)
RefreshInv ==
    /\ phase # "refreshing" => pending = {}
    /\ phase = "refreshing" => mPreselector = Ids(mObjects) /\ ~mTainted

(* A radar holds objects of the database; from the removals of a step to   *)
(* its own next measurement also objects which that step removed.  Without *)
(* a local model there is no radar.                                        *)
StaleAllowed(v) ==
    \/ phase = "removing"
    \/ phase = "refreshing" /\ v \in pending

RadarInv ==
    \A v \in Vehicles :
        /\ lastDetection[v] \subseteq mObjects \cup removed
        /\ ~StaleAllowed(v) => lastDetection[v] \subseteq mObjects
        /\ v \notin subscribed => lastDetection[v] = {}

(* Tracking follows with the node's own measurement; until then it is what *)
(* earlier steps have left.                                                *)
TrackingInv ==
    \A v \in Vehicles :
        /\ phase \in {"idle", "refreshing"} /\ v \notin pending =>
             \A e \in tracked[v] : e.object \in mObjects \cup removed
        /\ v \notin subscribed => tracked[v] = {}

IInv == TypeOK /\ DatabaseInv /\ RefreshInv /\ RadarInv /\ TrackingInv

-----------------------------------------------------------------------------

(* The bound on nodes altogether bounds those of every identifier: the     *)
(* objects of one vehicle are as many as the nodes made for it.            *)
LEMMA CreatedBounded ==
    ASSUME created \in [Vehicles -> 0..MaxNodes], Cardinality(Made) < MaxNodes,
           NEW v \in Vehicles
    PROVE  created[v] + 1 \in 1..MaxNodes
<1> DEFINE Pairs == Vehicles \X (1..MaxNodes)
           AsObject == [p \in Pairs |-> [id |-> p[1], node |-> p[2]]]
           Numbers == 1..created[v]
           OfNode == [n \in Numbers |-> [id |-> v, node |-> n]]
<1>1. created[v] \in Nat /\ created[v] <= MaxNodes /\ MaxNodes \in Nat
  BY TimesAssumption
<1>2. IsFiniteSet(Objects)
  <2>1. IsFiniteSet(Pairs)
    <3>1. IsFiniteSet(1..MaxNodes)
      BY <1>1, FS_Interval
    <3> QED BY <3>1, VehiclesAssumption, FS_Product
  <2>2. AsObject \in Surjection(Pairs, Objects)
    <3>1. AsObject \in [Pairs -> Objects]
      BY DEF Objects
    <3>2. ASSUME NEW o \in Objects PROVE \E p \in Pairs : AsObject[p] = o
      <4>1. <<o.id, o.node>> \in Pairs /\ AsObject[<<o.id, o.node>>] = o
        BY DEF Objects
      <4> QED BY <4>1
    <3> QED BY <3>1, <3>2 DEF Surjection
  <2> QED BY <2>1, <2>2, FS_Surjection
<1>3. IsFiniteSet(Made)
  BY <1>2, FS_Subset DEF Made
<1>4. OfNode \in Injection(Numbers, Made)
  <2>1. OfNode \in [Numbers -> Made]
    BY <1>1 DEF Made, Objects
  <2>2. ASSUME NEW m \in Numbers, NEW n \in Numbers, OfNode[m] = OfNode[n]
        PROVE  m = n
    BY <2>2
  <2> QED BY <2>1, <2>2 DEF Injection, IsInjective
<1>5. Cardinality(Numbers) <= Cardinality(Made)
  BY <1>3, <1>4, FS_Injection
<1>6. Cardinality(Numbers) = created[v]
  BY <1>1, FS_Interval
<1>7. Cardinality(Made) \in Nat
  BY <1>3, FS_CardinalityType
<1> QED BY <1>1, <1>5, <1>6, <1>7

(* Before the first step there is nothing to track.                        *)
LEMMA InitInv == Init => IInv
<1> SUFFICES ASSUME Init PROVE IInv
  OBVIOUS
<1> USE DEF Init
<1>1. TypeOK
  <2>1. 0 \in 0..MaxTime /\ 0 \in 0..MaxNodes
    BY TimesAssumption
  <2> QED BY <2>1 DEF TypeOK
<1>2. DatabaseInv /\ RefreshInv
  BY DEF DatabaseInv, RefreshInv, Ids
<1>3. RadarInv /\ TrackingInv
  BY DEF RadarInv, TrackingInv
<1> QED BY <1>1, <1>2, <1>3 DEF IInv

(* getObject of a vehicle in the database is its object there.             *)
LEMMA GetObject ==
    ASSUME NEW v \in Ids(mObjects)
    PROVE  getObject(v) \in mObjects /\ getObject(v).id = v
BY DEF getObject, Ids

(* A radar detects objects of the database only, provided the preselector  *)
(* is up to date.                                                          *)
LEMMA Detected ==
    ASSUME mPreselector = Ids(mObjects), NEW v
    PROVE  Detectable(v) \subseteq mObjects
BY GetObject DEF Detectable

(* complementObjects leaves trackings, of what was tracked and of what is  *)
(* detected.                                                               *)
LEMMA Complemented ==
    ASSUME NEW entries \in SUBSET Trackings, NEW objects \in SUBSET Objects,
           NEW sensor \in Sensors, now \in 0..MaxTime
    PROVE  /\ complementObjects(entries, objects, sensor) \subseteq Trackings
           /\ \A e \in complementObjects(entries, objects, sensor) :
                e \in entries \/ e.object \in objects
BY DEF complementObjects, Trackings

(* addVehicle: a new object of a vehicle that has none.                    *)
LEMMA AddVehicleInv ==
    ASSUME IInv, NEW v \in Vehicles, addVehicle(v)
    PROVE  IInv'
<1> DEFINE object == [id |-> v, node |-> created[v] + 1]
<1> USE DEF IInv
<1>1. /\ phase' = phase /\ phase \in {"idle", "adding"}
      /\ now' = now /\ lastStep' = lastStep
      /\ mPreselector' = mPreselector /\ pending' = pending
      /\ lastDetection' = lastDetection /\ tracked' = tracked /\ removed' = removed
      /\ mTainted' = TRUE
      /\ subscribed' = subscribed \cup ({v} \cap Equipped)
  BY DEF addVehicle
<1>2. /\ created' = [created EXCEPT ![v] = created[v] + 1]
      /\ created[v] + 1 \in 1..MaxNodes
  BY CreatedBounded DEF addVehicle, TypeOK
<1>3. /\ object \in Objects
      /\ identities' = identities \cup {object}
      /\ mObjects' = mObjects \cup {object}
      /\ \A o \in mObjects : o.id # v
  <2>1. created'[v] = created[v] + 1
    BY <1>2 DEF TypeOK
  <2> QED BY <1>2, <2>1 DEF addVehicle, Objects, Ids
<1> HIDE DEF object
<1>4. object.id = v
  BY DEF object
<1>5. TypeOK'
  <2>1. created' \in [Vehicles -> 0..MaxNodes]
    BY <1>2 DEF TypeOK
  <2> QED BY <1>1, <1>3, <2>1, VehiclesAssumption DEF TypeOK
<1>6. DatabaseInv'
  BY <1>1, <1>3, <1>4 DEF DatabaseInv, Ids
<1>7. RefreshInv'
  BY <1>1 DEF RefreshInv
<1>8. RadarInv'
  BY <1>1, <1>3 DEF RadarInv, StaleAllowed
<1>9. TrackingInv'
  BY <1>1, <1>3 DEF TrackingInv
<1> QED BY <1>5, <1>6, <1>7, <1>8, <1>9

(* removeVehicle: the object, the registrations and the sensors of the     *)
(* node go together; other radars may keep the object.                     *)
LEMMA RemoveVehicleInv ==
    ASSUME IInv, NEW v \in Vehicles, removeVehicle(v)
    PROVE  IInv'
<1> USE DEF IInv
<1>1. /\ phase' = phase /\ phase = "removing"
      /\ now' = now /\ lastStep' = lastStep /\ created' = created
      /\ mPreselector' = mPreselector /\ pending' = pending /\ mTainted' = mTainted
      /\ mObjects' = {o \in mObjects : o.id # v}
      /\ removed' = removed \cup (mObjects \ mObjects')
      /\ subscribed' = subscribed \ {v}
      /\ identities' = {o \in identities : o.id # v}
      /\ lastDetection' = [lastDetection EXCEPT ![v] = {}]
      /\ tracked' = [tracked EXCEPT ![v] = {}]
  BY DEF removeVehicle, Unregistered
<1>2. mObjects' \cup removed' = mObjects \cup removed
  BY <1>1
<1>3. pending = {}
  BY <1>1 DEF RefreshInv
<1>4. TypeOK'
  BY <1>1, <1>3 DEF TypeOK
<1>5. DatabaseInv'
  BY <1>1 DEF DatabaseInv, Ids
<1>6. RefreshInv'
  BY <1>1 DEF RefreshInv
<1>7. RadarInv'
  BY <1>1, <1>2 DEF RadarInv, StaleAllowed, TypeOK
<1>8. TrackingInv'
  BY <1>1 DEF TrackingInv, TypeOK
<1> QED BY <1>4, <1>5, <1>6, <1>7, <1>8

(* refresh: the preselector is up to date from here until the last local   *)
(* model has been called.                                                  *)
LEMMA RefreshStepInv ==
    ASSUME IInv, refresh
    PROVE  IInv'
<1> USE DEF IInv
<1>1. /\ now' = now /\ lastStep' = lastStep /\ created' = created
      /\ mObjects' = mObjects /\ identities' = identities /\ removed' = removed
      /\ subscribed' = subscribed /\ pending' = subscribed
      /\ lastDetection' = lastDetection /\ tracked' = tracked
      /\ mPreselector' = Ids(mObjects) /\ mTainted' = FALSE
      /\ phase' = IF subscribed = {} THEN "idle" ELSE "refreshing"
  BY DEF refresh, Preselect
<1>2. TypeOK'
  BY <1>1 DEF TypeOK, Ids, Objects
<1>3. DatabaseInv'
  BY <1>1 DEF DatabaseInv, Ids
<1>4. RefreshInv'
  BY <1>1 DEF RefreshInv, Ids
<1>5. RadarInv'
  BY <1>1 DEF RadarInv, StaleAllowed
<1>6. TrackingInv'
  BY <1>1 DEF TrackingInv
<1> QED BY <1>2, <1>3, <1>4, <1>5, <1>6

(* measurement: what the radar detects and the tracking keeps.             *)
LEMMA MeasurementInv ==
    ASSUME IInv, NEW v \in Vehicles, measurement(v)
    PROVE  IInv'
<1> USE DEF IInv
<1>1. /\ now' = now /\ lastStep' = lastStep /\ created' = created
      /\ mObjects' = mObjects /\ mPreselector' = mPreselector /\ mTainted' = mTainted
      /\ identities' = identities /\ subscribed' = subscribed /\ removed' = removed
      /\ phase = "refreshing" /\ v \in pending
      /\ pending' = pending \ {v}
      /\ phase' = IF pending' = {} THEN "idle" ELSE "refreshing"
  BY DEF measurement
<1>2. PICK detection \in SUBSET Detectable(v) :
        /\ lastDetection' = [lastDetection EXCEPT ![v] = detection]
        /\ tracked' = [tracked EXCEPT ![v] =
             update(complementObjects(tracked[v], detection, "radar"),
                    mObjects \cup UNION {lastDetection'[u] : u \in Vehicles})]
  BY DEF measurement, Remember
<1>3. detection \subseteq mObjects /\ detection \subseteq Objects
  BY <1>1, <1>2, Detected DEF RefreshInv, TypeOK
<1>4. lastDetection' \in [Vehicles -> SUBSET Objects]
  BY <1>2, <1>3 DEF TypeOK
<1>5. RadarInv'
  BY <1>1, <1>2, <1>3 DEF RadarInv, StaleAllowed, TypeOK
<1>6. mObjects \cup UNION {lastDetection'[u] : u \in Vehicles} \subseteq mObjects \cup removed
  BY <1>1, <1>5 DEF RadarInv
<1>7. tracked' \in [Vehicles -> SUBSET Trackings]
  <2>1. complementObjects(tracked[v], detection, "radar") \subseteq Trackings
    BY <1>3, Complemented DEF Sensors, TypeOK
  <2> QED BY <1>2, <2>1 DEF update, TypeOK
<1>8. TrackingInv'
  <2>1. ASSUME NEW e \in tracked'[v] PROVE e.object \in mObjects \cup removed
    BY <1>2, <1>6 DEF update, TypeOK
  <2>2. \A u \in Vehicles \ {v} : tracked'[u] = tracked[u]
    BY <1>2 DEF TypeOK
  <2>3. v \in subscribed
    BY <1>1 DEF TypeOK
  <2> QED BY <1>1, <2>1, <2>2, <2>3 DEF TrackingInv
<1>9. TypeOK'
  BY <1>1, <1>4, <1>7 DEF TypeOK
<1>10. DatabaseInv'
  BY <1>1 DEF DatabaseInv, Ids
<1>11. RefreshInv'
  BY <1>1 DEF RefreshInv, Ids
<1> QED BY <1>5, <1>8, <1>9, <1>10, <1>11

(* receiveCam: a station with an identity has its object in the database.  *)
LEMMA ReceiveCamInv ==
    ASSUME IInv, NEW v \in Vehicles, NEW station \in identities, receiveCam(v, station)
    PROVE  IInv'
<1> DEFINE object == getObject(station.id)
           complemented == complementObjects(tracked[v], {object}, "cam")
<1> USE DEF IInv
<1>1. /\ UNCHANGED <<phase, now, lastStep, created, mObjects, mPreselector, mTainted,
                     identities, subscribed, pending, lastDetection, removed>>
      /\ v \in subscribed
      /\ tracked' = [tracked EXCEPT ![v] = complemented]
  BY DEF receiveCam
<1>2. object \in mObjects /\ object \in Objects
  BY GetObject DEF DatabaseInv, Ids, TypeOK
<1> HIDE DEF object
<1>3. /\ complemented \subseteq Trackings
      /\ \A e \in complemented : e \in tracked[v] \/ e.object \in mObjects
  BY <1>2, Complemented DEF Sensors, TypeOK
<1> HIDE DEF complemented
<1>4. TypeOK'
  BY <1>1, <1>3 DEF TypeOK
<1>5. DatabaseInv'
  BY <1>1 DEF DatabaseInv, Ids
<1>6. RefreshInv'
  BY <1>1 DEF RefreshInv, Ids
<1>7. RadarInv'
  BY <1>1 DEF RadarInv, StaleAllowed
<1>8. TrackingInv'
  BY <1>1, <1>3 DEF TrackingInv, TypeOK
<1> QED BY <1>4, <1>5, <1>6, <1>7, <1>8

(* Time passing and the turns of a TraCI step leave database and nodes.    *)
LEMMA PhaseInv ==
    ASSUME IInv, Tick \/ BeginStep \/ BeginRemoval \/ UNCHANGED vars
    PROVE  IInv'
<1> USE DEF IInv
<1>1. /\ UNCHANGED <<created, mObjects, mPreselector, mTainted, identities,
                     subscribed, pending, lastDetection, tracked>>
      /\ \/ UNCHANGED <<phase, removed>>
         \/ phase = "idle" /\ phase' = "adding" /\ removed' = {}
         \/ phase = "adding" /\ phase' = "removing" /\ removed' = removed
  BY DEF Tick, BeginStep, BeginRemoval, vars
<1>2. now' \in 0..MaxTime /\ lastStep' \in 0..MaxTime
  BY TimesAssumption DEF Tick, BeginStep, BeginRemoval, vars, TypeOK
<1>3. TypeOK'
  BY <1>1, <1>2 DEF TypeOK
<1>4. DatabaseInv'
  BY <1>1 DEF DatabaseInv, Ids
<1>5. RefreshInv'
  BY <1>1 DEF RefreshInv, Ids
<1>6. RadarInv'
  BY <1>1 DEF RadarInv, StaleAllowed
<1>7. TrackingInv'
  BY <1>1 DEF TrackingInv
<1> QED BY <1>3, <1>4, <1>5, <1>6, <1>7

(* clear leaves nothing.                                                   *)
LEMMA ClearInv ==
    ASSUME IInv, clear
    PROVE  IInv'
<1> USE DEF IInv
<1>1. pending = {} /\ pending' = pending
  BY DEF clear, RefreshInv
<1>2. TypeOK'
  BY <1>1 DEF clear, TypeOK
<1>3. DatabaseInv' /\ RefreshInv'
  BY <1>1 DEF clear, DatabaseInv, RefreshInv, Ids
<1>4. RadarInv' /\ TrackingInv'
  BY <1>1 DEF clear, RadarInv, TrackingInv
<1> QED BY <1>2, <1>3, <1>4

(* The invariant holds in every reachable state.                           *)
THEOREM Invariance == Spec => []IInv
<1>1. IInv /\ [Next]_vars => IInv'
  BY AddVehicleInv, RemoveVehicleInv, RefreshStepInv, MeasurementInv, ReceiveCamInv,
     PhaseInv, ClearInv DEF Next
<1> QED BY <1>1, InitInv, PTL DEF Spec

-----------------------------------------------------------------------------

(* Types; in particular no detection or tracking ever holds a nullptr that *)
(* getObject returned, so detectObjects has an object to dereference.      *)
THEOREM TypeCorrect == Spec => []TypeOK
<1>1. IInv => TypeOK
  BY DEF IInv
<1> QED BY <1>1, Invariance, PTL

(* While the local models are called, each has its object in the database, *)
(* and preselector and database name the same vehicles, whatever was added *)
(* and removed before.                                                     *)
THEOREM RefreshIsConsistent == Spec => []RefreshConsistent
<1>1. IInv => RefreshConsistent
  BY DEF IInv, TypeOK, DatabaseInv, RefreshInv, RefreshConsistent
<1> QED BY <1>1, Invariance, PTL

(* Between events no radar holds an object whose controller was deleted.   *)
THEOREM DisplayIsSafe == Spec => []DisplaySafe
<1>1. IInv => DisplaySafe
  BY DEF IInv, RadarInv, StaleAllowed, DisplaySafe
<1> QED BY <1>1, Invariance, PTL

(* An object outlives its vehicle in the tracking of a node until the next *)
(* TraCI step at most, for any validity periods.                           *)
THEOREM GhostsAreShortLived == Spec => []GhostsShortLived
<1>1. IInv => GhostsShortLived
  BY DEF IInv, RefreshInv, TrackingInv, GhostsShortLived
<1> QED BY <1>1, Invariance, PTL

(* A node forgets an object only when it has left the database or all its  *)
(* tracking times are out of date: a measurement that does not see an      *)
(* object, or a CAM of another station, never drops it.                    *)
THEOREM TrackingIsKept == Spec => TrackingKept
<1>1. ASSUME IInv, [Next]_vars PROVE Kept
  <2> SUFFICES ASSUME NEW v \in subscribed, v \in subscribed', NEW e \in tracked[v],
                      e.object \in mObjects, ~(e.last + Validity(e.sensor) < now)
               PROVE  \E f \in tracked'[v] : f.object = e.object /\ f.sensor = e.sensor
    BY DEF Kept
  <2>1. v \in Vehicles /\ now \in Nat /\ tracked \in [Vehicles -> SUBSET Trackings]
        /\ e \in Trackings
    BY TimesAssumption, <1>1 DEF IInv, TypeOK
  <2>2. CASE tracked'[v] = tracked[v]
    BY <2>2
  <2>3. CASE \E u \in Vehicles : measurement(u)
    <3>1. CASE measurement(v)
      <4>1. PICK detection :
              /\ lastDetection' = [lastDetection EXCEPT ![v] = detection]
              /\ tracked' = [tracked EXCEPT ![v] =
                   update(complementObjects(tracked[v], detection, "radar"),
                          mObjects \cup UNION {lastDetection'[u] : u \in Vehicles})]
        BY <3>1 DEF measurement, Remember
      <4> DEFINE complemented == complementObjects(tracked[v], detection, "radar")
      <4>2. PICK f \in complemented :
              f.object = e.object /\ f.sensor = e.sensor /\ ~Expired(f)
        <5>1. CASE e.sensor = "radar" /\ e.object \in detection
          <6> DEFINE f == [object |-> e.object, sensor |-> "radar", last |-> now]
          <6>1. f \in complemented
            BY <5>1 DEF complementObjects
          <6>2. ~Expired(f)
            BY <2>1, TimesAssumption DEF Expired, Validity
          <6> QED BY <5>1, <6>1, <6>2
        <5>2. CASE ~(e.sensor = "radar" /\ e.object \in detection)
          BY <5>2 DEF complementObjects, Expired
        <5> QED BY <5>1, <5>2
      <4>3. f \in tracked'[v]
        BY <2>1, <4>1, <4>2 DEF update
      <4> QED BY <4>2, <4>3
    <3>2. CASE ~measurement(v)
      BY <2>1, <2>3, <3>2, <2>2 DEF measurement
    <3> QED BY <3>1, <3>2
  <2>4. CASE \E u \in Vehicles, station \in identities : receiveCam(u, station)
    <3>1. PICK u \in Vehicles, station \in identities : receiveCam(u, station)
      BY <2>4
    <3>2. CASE u # v
      BY <2>1, <3>1, <3>2, <2>2 DEF receiveCam
    <3>3. CASE u = v
      <4> DEFINE object == getObject(station.id)
                 f == [object |-> object, sensor |-> "cam", last |-> now]
      <4>1. tracked'[v] = complementObjects(tracked[v], {object}, "cam")
        BY <2>1, <3>1, <3>3 DEF receiveCam
      <4>2. CASE e.sensor = "cam" /\ e.object = object
        <5>1. f \in tracked'[v]
          BY <4>1 DEF complementObjects
        <5> QED BY <4>2, <5>1
      <4>3. CASE ~(e.sensor = "cam" /\ e.object = object)
        BY <4>1, <4>3 DEF complementObjects
      <4> QED BY <4>2, <4>3
    <3> QED BY <3>2, <3>3
  <2>5. CASE \E u \in Vehicles : removeVehicle(u)
    <3>1. PICK u \in Vehicles : removeVehicle(u)
      BY <2>5
    <3>2. u # v
      BY <3>1 DEF removeVehicle, Unregistered
    <3> QED BY <2>1, <2>2, <3>1, <3>2 DEF removeVehicle
  <2>6. CASE clear
    BY <2>6 DEF clear
  <2>7. CASE Tick \/ BeginStep \/ BeginRemoval \/ refresh \/ UNCHANGED vars
             \/ \E u \in Vehicles : addVehicle(u)
    <3>1. tracked' = tracked
      BY <2>7 DEF Tick, BeginStep, BeginRemoval, refresh, vars, addVehicle
    <3> QED BY <2>2, <3>1
  <2> QED BY <1>1, <2>3, <2>4, <2>5, <2>6, <2>7 DEF Next
<1> QED BY <1>1, Invariance, PTL DEF Spec, TrackingKept

=============================================================================
