-------------------------- MODULE EnvironmentModel --------------------------
(***************************************************************************)
(* The environment model of Artery (src/src/artery/envmod): the global     *)
(* database of vehicle objects, which follows the nodes TraCI adds and     *)
(* removes, and the local models of the nodes, which track the objects     *)
(* their radar detects and the stations whose CAMs they receive.           *)
(*                                                                         *)
(* An object is the std::shared_ptr made by addVehicle: the identifier of  *)
(* the vehicle and the how-manieth node of that identifier it belongs to.  *)
(* The database and the last detection of every radar own objects; local   *)
(* tracking refers to them by std::weak_ptr.  One TraCI step adds nodes,   *)
(* removes nodes, and then refreshes the database, which calls the local   *)
(* models one by one.                                                      *)
(***************************************************************************)
EXTENDS Naturals, FiniteSets

CONSTANTS
    Vehicles,       \* vehicle identifiers
    Equipped,       \* those whose node has a LocalEnvironmentModel
    StepLength,     \* TraCI step in ticks
    RadarValidity,  \* RadarSensor::getValidityPeriod in ticks
    CamValidity,    \* CamSensor::getValidityPeriod in ticks
    MaxNodes,       \* bound: nodes altogether
    MaxTime,        \* bound: ticks
    NoObject        \* nullptr

ASSUME VehiclesAssumption == IsFiniteSet(Vehicles) /\ Equipped \subseteq Vehicles
ASSUME TimesAssumption ==
    /\ StepLength \in Nat \ {0}
    /\ RadarValidity \in Nat
    /\ CamValidity \in Nat
    /\ MaxNodes \in Nat
    /\ MaxTime \in Nat

VARIABLES
    phase,          \* what the current event is doing; "idle" between events
    now,            \* simTime()
    lastStep,       \* time of the last TraCI step
    created,        \* nodes made so far, by vehicle identifier
    mObjects,       \* GlobalEnvironmentModel: the database
    mPreselector,   \* identifiers the preselector knows
    mTainted,       \* preselector update is pending
    identities,     \* IdentityRegistry: stations with a known identity
    subscribed,     \* nodes listening to EnvironmentModel.refresh
    pending,        \* those the running refresh has not called yet
    lastDetection,  \* RadarSensor::mLastDetection of every node
    tracked,        \* LocalEnvironmentModel::mObjects of every node
    removed         \* history: objects the last TraCI step removed

vars == <<phase, now, lastStep, created, mObjects, mPreselector, mTainted,
          identities, subscribed, pending, lastDetection, tracked, removed>>

Objects == [id : Vehicles, node : 1..MaxNodes]
(* Objects made so far. *)
Made == {o \in Objects : o.node <= created[o.id]}

Sensors == {"radar", "cam"}
Trackings == [object : Objects, sensor : Sensors, last : 0..MaxTime]

Ids(objects) == {o.id : o \in objects}
Validity(sensor) == IF sensor = "radar" THEN RadarValidity ELSE CamValidity

Init ==
    /\ phase = "idle"
    /\ now = 0
    /\ lastStep = 0
    /\ created = [v \in Vehicles |-> 0]
    /\ mObjects = {}
    /\ mPreselector = {}
    /\ mTainted = FALSE
    /\ identities = {}
    /\ subscribed = {}
    /\ pending = {}
    /\ lastDetection = [v \in Vehicles |-> {}]
    /\ tracked = [v \in Vehicles |-> {}]
    /\ removed = {}

-----------------------------------------------------------------------------
(* Time passes between events; a TraCI step is due at every multiple of    *)
(* StepLength, before or after other events of the same time.              *)
StepDue == now % StepLength = 0 /\ lastStep < now

Tick ==
    /\ phase = "idle"
    /\ ~StepDue
    /\ now < MaxTime
    /\ now' = now + 1
    /\ UNCHANGED <<phase, lastStep, created, mObjects, mPreselector, mTainted,
                   identities, subscribed, pending, lastDetection, tracked,
                   removed>>

(* traciStep: vehicles that departed are added first ...                   *)
BeginStep ==
    /\ phase = "idle"
    /\ StepDue
    /\ phase' = "adding"
    /\ lastStep' = now
    /\ removed' = {}
    /\ UNCHANGED <<now, created, mObjects, mPreselector, mTainted, identities,
                   subscribed, pending, lastDetection, tracked>>

(* addNodeModule: initializing the node registers its identity and         *)
(* subscribes its local model, the signal that follows adds the object.    *)
(* With delayed insertion it also happens between two steps.               *)
addVehicle(v) ==
    /\ phase \in {"idle", "adding"}
    /\ v \notin Ids(mObjects)
    /\ Cardinality(Made) < MaxNodes
    /\ created' = [created EXCEPT ![v] = @ + 1]
    /\ LET object == [id |-> v, node |-> created'[v]]
       IN  /\ identities' = identities \cup {object}
           /\ mObjects' = mObjects \cup {object}
    /\ mTainted' = TRUE
    /\ subscribed' = subscribed \cup ({v} \cap Equipped)
    /\ UNCHANGED <<phase, now, lastStep, mPreselector, pending, lastDetection,
                   tracked, removed>>

(* ... then those that arrived or crashed are removed ...                  *)
BeginRemoval ==
    /\ phase = "adding"
    /\ phase' = "removing"
    /\ UNCHANGED <<now, lastStep, created, mObjects, mPreselector, mTainted,
                   identities, subscribed, pending, lastDetection, tracked,
                   removed>>

(* Mutants of Unregistered: Middleware::finish keeps the identity; the     *)
(* local model does not unsubscribe.                                       *)
KeepIdentity(v) == subscribed' = subscribed \ {v} /\ identities' = identities
KeepSubscription(v) ==
    /\ subscribed' = subscribed
    /\ identities' = {o \in identities : o.id # v}

(* callFinish of the node: identity and subscription are given up.         *)
Unregistered(v) ==
    /\ subscribed' = subscribed \ {v}
    /\ identities' = {o \in identities : o.id # v}

(* removeNodeModule: the signal erases the object, then the node finishes  *)
(* and is deleted with its sensors.  removeVehicle returns before the      *)
(* statement that sets mTainted.                                           *)
removeVehicle(v) ==
    /\ phase = "removing"
    /\ v \in Ids(mObjects)
    /\ mObjects' = {o \in mObjects : o.id # v}
    /\ removed' = removed \cup (mObjects \ mObjects')
    /\ Unregistered(v)
    /\ lastDetection' = [lastDetection EXCEPT ![v] = {}]
    /\ tracked' = [tracked EXCEPT ![v] = {}]
    /\ UNCHANGED <<phase, now, lastStep, created, mPreselector, mTainted,
                   pending>>

(* PreselectionMethod::update: identifiers are indexed anew.               *)
Preselect == mPreselector' = Ids(mObjects)

(* ... and refresh updates the database and emits EnvironmentModel.refresh *)
(* to the local models, in an order OMNeT++ leaves open.                   *)
refresh ==
    /\ phase = "removing"
    /\ Preselect
    /\ mTainted' = FALSE
    /\ pending' = subscribed
    /\ phase' = IF subscribed = {} THEN "idle" ELSE "refreshing"
    /\ UNCHANGED <<now, lastStep, created, mObjects, identities, subscribed,
                   lastDetection, tracked, removed>>

-----------------------------------------------------------------------------
getObject(v) ==
    IF v \in Ids(mObjects) THEN CHOOSE o \in mObjects : o.id = v ELSE NoObject

(* GlobalEnvironmentModel::detectObjects: some of the preselected objects  *)
(* are in sight; the vehicle itself never is.                              *)
Detectable(v) == {getObject(u) : u \in mPreselector \ {v}}

(* LocalEnvironmentModel::complementObjects: one tracking time per object  *)
(* and sensor, tapped by every detection.                                  *)
complementObjects(entries, objects, sensor) ==
    {e \in entries : e.sensor # sensor \/ e.object \notin objects}
        \cup [object : objects, sensor : {sensor}, last : {now}]

(* Mutant of Expired: expiry one tick early.                              *)
ExpiredEarly(e) == e.last + Validity(e.sensor) <= now

(* Tracking::update: a sensor's tracking time is out of date.              *)
Expired(e) == e.last + Validity(e.sensor) < now

(* Mutant of update: the weak_ptr is not asked.                            *)
updateTimesOnly(entries, owned) == {e \in entries : ~Expired(e)}

(* LocalEnvironmentModel::update: out of date tracking times go, and so do *)
(* the objects that nobody owns any more.                                  *)
update(entries, owned) == {e \in entries : ~Expired(e) /\ e.object \in owned}

(* Mutant of Remember: an empty detection does not replace the last one.   *)
RememberNonEmpty(v, detection) ==
    lastDetection' = IF detection = {} THEN lastDetection
                     ELSE [lastDetection EXCEPT ![v] = detection]

(* RadarSensor::measurement keeps what it has detected.                    *)
Remember(v, detection) ==
    lastDetection' = [lastDetection EXCEPT ![v] = detection]

(* LocalEnvironmentModel::receiveSignal: the radar measures, then the      *)
(* tracking is updated.                                                    *)
measurement(v) ==
    /\ phase = "refreshing"
    /\ v \in pending
    /\ \E detection \in SUBSET Detectable(v) :
         /\ Remember(v, detection)
         /\ tracked' = [tracked EXCEPT ![v] =
                update(complementObjects(@, detection, "radar"),
                       mObjects \cup UNION {lastDetection'[u] : u \in Vehicles})]
    /\ pending' = pending \ {v}
    /\ phase' = IF pending' = {} THEN "idle" ELSE "refreshing"
    /\ UNCHANGED <<now, lastStep, created, mObjects, mPreselector, mTainted,
                   identities, subscribed, removed>>

(* CamSensor::receiveSignal: a CAM of a station with a known identity      *)
(* complements the tracking; any other is dropped.                         *)
receiveCam(v, station) ==
    /\ phase = "idle"
    /\ v \in subscribed
    /\ station \in identities
    /\ station.id # v
    /\ tracked' = [tracked EXCEPT ![v] =
                     complementObjects(@, {getObject(station.id)}, "cam")]
    /\ UNCHANGED <<phase, now, lastStep, created, mObjects, mPreselector,
                   mTainted, identities, subscribed, pending, lastDetection,
                   removed>>

(* traci.close: every node is removed and the database cleared.            *)
clear ==
    /\ phase = "idle"
    /\ phase' = "closed"
    /\ mObjects' = {}
    /\ mPreselector' = {}
    /\ mTainted' = FALSE
    /\ identities' = {}
    /\ subscribed' = {}
    /\ lastDetection' = [v \in Vehicles |-> {}]
    /\ tracked' = [v \in Vehicles |-> {}]
    /\ removed' = mObjects
    /\ UNCHANGED <<now, lastStep, created, pending>>

Next ==
    \/ Tick
    \/ BeginStep
    \/ BeginRemoval
    \/ refresh
    \/ clear
    \/ \E v \in Vehicles : addVehicle(v) \/ removeVehicle(v) \/ measurement(v)
    \/ \E v \in Vehicles, station \in identities : receiveCam(v, station)

Spec == Init /\ [][Next]_vars

-----------------------------------------------------------------------------
(* Types of the variables; in particular detections and tracking hold no   *)
(* nullptr: whatever the preselector or the identity registry names is in  *)
(* the database (GlobalEnvironmentModel::detectObjects dereferences it).   *)
TypeOK ==
    /\ phase \in {"idle", "adding", "removing", "refreshing", "closed"}
    /\ now \in 0..MaxTime
    /\ lastStep \in 0..MaxTime
    /\ created \in [Vehicles -> 0..MaxNodes]
    /\ mObjects \subseteq Objects
    /\ mPreselector \subseteq Vehicles
    /\ mTainted \in BOOLEAN
    /\ identities \subseteq Objects
    /\ subscribed \subseteq Vehicles
    /\ pending \subseteq subscribed
    /\ lastDetection \in [Vehicles -> SUBSET Objects]
    /\ tracked \in [Vehicles -> SUBSET Trackings]
    /\ removed \subseteq Objects

(* detectObjects neither throws for want of the measuring vehicle's own    *)
(* object nor meets an identifier the preselector knows and the database   *)
(* does not: while local models are being called, every one of them has    *)
(* its object, and preselector and database name the same vehicles.        *)
RefreshConsistent ==
    phase = "refreshing" =>
        /\ pending \subseteq Ids(mObjects)
        /\ mPreselector = Ids(mObjects)
        /\ ~mTainted

(* Between events radars hold only objects of the database, so that        *)
(* RadarSensor::refreshDisplay never asks an object for the identifier of  *)
(* a vehicle controller that was deleted with its node.                    *)
DisplaySafe ==
    phase = "idle" => \A v \in Vehicles : lastDetection[v] \subseteq mObjects

(* An object survives its vehicle in the tracking for one step at most,    *)
(* whatever the validity period of the sensor: only another radar that     *)
(* has not measured yet can own it.  LocalEnvironmentModel.h:87 promises   *)
(* that objects which no longer exist are removed in the step itself,      *)
(* which is not so for a local model called before that radar.             *)
GhostsShortLived ==
    phase = "idle" => \A v \in Vehicles : \A e \in tracked[v] :
                          e.object \in mObjects \cup removed

(* A node forgets an object only when the object has left the database or  *)
(* every tracking time of it is out of date.                               *)
Kept ==
    \A v \in subscribed \cap subscribed' : \A e \in tracked[v] :
        \/ \E f \in tracked'[v] : f.object = e.object /\ f.sensor = e.sensor
        \/ e.object \notin mObjects
        \/ e.last + Validity(e.sensor) < now

(* Every step of the specification keeps the trackings it should: tracking *)
(* is lost to expiry and removal only, never to another detection or CAM.  *)
TrackingKept == [][Kept]_vars
=============================================================================
