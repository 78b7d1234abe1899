---------------------------- MODULE TraciDelayed ----------------------------
(***************************************************************************)
(* The TraCI subsystem with InsertionDelayNodeManager: a departed vehicle  *)
(* waits in m_insert_queue for an individual delay before its node is      *)
(* created by an event of its own, between or at the same time as SUMO's   *)
(* steps.                                                                  *)
(***************************************************************************)
EXTENDS TraciCore

CONSTANT Delays         \* values the volatile parameter insertionDelay takes

ASSUME DelaysAssumption == Delays \subseteq Nat /\ Delays # {}

VARIABLES
    m_insert_queue,     \* id -> time of its insertion, or Never
    insertAt            \* when m_insert_event is scheduled

delayVars == <<m_insert_queue, insertAt>>

vars == <<sumoVars, subVars, nodeVars, coreVars, delayVars>>

TypeOK ==
    /\ SumoTypeOK /\ SubTypeOK /\ NodeTypeOK /\ CoreTypeOK
    /\ m_insert_queue \in [Vehicles -> Nat \cup {Never}]
    /\ insertAt \in Nat \cup {Never}

Queued == {v \in Vehicles : m_insert_queue[v] # Never}

Init ==
    /\ SumoInit /\ SubInit /\ NodeInit /\ CoreInit
    /\ m_insert_queue = [v \in Vehicles |-> Never]
    /\ insertAt = Never

-----------------------------------------------------------------------------

(* Some vehicle waits for time t, and none for an earlier time.            *)
IsFirstInsertion(t, queue) ==
    /\ \E v \in Vehicles : queue[v] = t
    /\ \A v \in Vehicles : queue[v] # Never => t <= queue[v]

(* Mutant: an event that is scheduled already is left alone.               *)
scheduleOnlyOnce(queue) ==
    IF insertAt # Never
      THEN UNCHANGED insertAt
      ELSE IF \A v \in Vehicles : queue[v] = Never
             THEN insertAt' = Never
             ELSE /\ insertAt' \in {queue[v] : v \in Vehicles} \ {Never}
                  /\ IsFirstInsertion(insertAt', queue)

(* Mutant: the event is cancelled and not scheduled again.                 *)
scheduleNever(queue) == insertAt' = Never

(* scheduleVehicleInsertion: one event, always for the first insertion.    *)
scheduleVehicleInsertion(queue) ==
    \/ /\ \A v \in Vehicles : queue[v] = Never
       /\ insertAt' = Never
    \/ /\ \E v \in Vehicles : queue[v] # Never
       /\ insertAt' \in {queue[v] : v \in Vehicles} \ {Never}
       /\ IsFirstInsertion(insertAt', queue)

(* addVehicle: the vehicle is queued.  The bimap refuses an id that is     *)
(* queued already.                                                         *)
Enqueue(ids, delay, time) ==
    [v \in Vehicles |->
        IF v \in ids /\ m_insert_queue[v] = Never
          THEN time + delay[v]
          ELSE m_insert_queue[v]]

(* removeVehicle: an insertion that is still pending is called off.        *)
Dequeue(ids, queue) ==
    [v \in Vehicles |-> IF v \in ids THEN Never ELSE queue[v]]

Connect ==
    /\ CoreConnect
    /\ Due(connectAt, {insertAt})
    /\ \E delay \in [running' -> Delays] :
         m_insert_queue' = Enqueue(running', delay, now')
    /\ scheduleVehicleInsertion(m_insert_queue')
    /\ UNCHANGED <<nodeVars, m_vehicle_caches>>

Reject ==
    /\ CoreReject
    /\ Due(connectAt, {insertAt})
    /\ UNCHANGED <<sumoVars, subVars, nodeVars, delayVars>>

Update ==
    /\ CoreUpdate
    /\ Due(updateAt, {insertAt})
    /\ \E delay \in [Entering -> Delays] :
         LET queue == Enqueue(Entering, delay, now')
             called_off == {v \in Leaving : queue[v] # Never}
         IN /\ m_insert_queue' = Dequeue(called_off, queue)
            /\ addAndRemove({}, Leaving \ called_off)
    /\ scheduleVehicleInsertion(m_insert_queue')
    /\ updateVehicles(Managed' \ Queued', ResetCaches)

(* handleMessage(m_insert_event): the first vehicle of the queue is added  *)
(* and updated at once.                                                    *)
Insert ==
    /\ phase = "running"
    /\ Due(insertAt, {connectAt, updateAt})
    /\ now' = insertAt
    /\ UNCHANGED <<connectAt, updateAt, phase, sumoVars>>
    /\ UNCHANGED <<m_vehicle_vars, m_subscribed_vehicles, m_sim_cache>>
    /\ \E v \in Queued :
         /\ m_insert_queue[v] = now'
         /\ addAndRemove({v}, {})
         /\ updateVehicles({v}, m_vehicle_caches)
         /\ m_insert_queue' = Dequeue({v}, m_insert_queue)
    /\ scheduleVehicleInsertion(m_insert_queue')

Finish ==
    /\ CoreFinish
    /\ UNCHANGED <<sumoVars, subVars, delayVars>>

Done ==
    /\ phase \in {"closed", "error"}
    /\ UNCHANGED vars

Next ==
    \/ Connect \/ Reject \/ Update \/ Insert \/ Finish
    \/ Client /\ UNCHANGED delayVars
    \/ Done

Spec == Init /\ [][Next]_vars

-----------------------------------------------------------------------------

(* Every vehicle the manager knows is either waiting or kept, never both,  *)
(* and SUMO still runs it: an insertion never asks SUMO for a vehicle that *)
(* is gone.  Without destroyVehiclesOnCrash no running vehicle is missed.  *)
VehiclesMirrored ==
    phase = "running" =>
        /\ Managed \cap Queued = {}
        /\ Managed \cup Queued \subseteq running
        /\ ~DestroyOnCrash => Managed \cup Queued = running

(* The one insertion event is armed exactly for the first vehicle in the   *)
(* queue and nobody is overdue, so the assertions of handleMessage (when   *)
(* == simTime()) and scheduleVehicleInsertion (when >= simTime()) hold.    *)
InsertionArmed ==
    phase = "running" =>
        /\ Queued # {} => insertAt # Never /\ IsFirstInsertion(insertAt, m_insert_queue)
        /\ Queued = {} => insertAt = Never
        /\ \A v \in Queued : m_insert_queue[v] >= now

(* When Core stops stepping SUMO nothing is left to insert or to remove.   *)
NothingLeftBehind ==
    phase = "running" /\ updateAt = Never =>
        Managed = {} /\ Queued = {} /\ m_subscribed_vehicles = {}

(* The kernel delivers the next event sooner or later.                     *)
FairSpec == Spec /\ WF_vars(Connect \/ Update \/ Insert)

(* A queued vehicle does not wait forever: it is inserted or called off,   *)
(* unless the run ends or its time lies beyond the bound of the model.     *)
QueueDrains ==
    \A v \in Vehicles :
        v \in Queued ~> \/ v \notin Queued
                        \/ phase = "closed"
                        \/ m_insert_queue[v] > MaxTime

-----------------------------------------------------------------------------

(* Waiting and inserted vehicles together mirror SUMO: the delay does not  *)
(* change which vehicles are kept, nor from when until when.               *)
Mirror == INSTANCE VehicleMirror
    WITH MayDestroy <- DestroyOnCrash, traffic <- running,
         kept <- IF phase = "closed" THEN {} ELSE Managed \cup Queued
MirrorsTraffic == Mirror!Spec
=============================================================================
