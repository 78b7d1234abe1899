----------------------------- MODULE TraciBasic -----------------------------
(***************************************************************************)
(* The TraCI subsystem with BasicNodeManager: Core, SUMO, subscription     *)
(* manager and node manager.  Definitions that the system with delayed     *)
(* insertion has its own version of have names that begin with Basic.      *)
(***************************************************************************)
EXTENDS TraciCore

basicVars == <<sumoVars, subVars, nodeVars, coreVars>>

BasicTypeOK == SumoTypeOK /\ SubTypeOK /\ NodeTypeOK /\ CoreTypeOK

BasicInit == SumoInit /\ SubInit /\ NodeInit /\ CoreInit

-----------------------------------------------------------------------------

(* Vehicles that are running already get their nodes on "traci.init".      *)
BasicConnect ==
    /\ CoreConnect
    /\ addAndRemove(running', {})
    /\ shown' = [v \in Vehicles |-> IF m_vehicles'[v] \in Nat THEN {sumoTime'} ELSE {}]
    /\ UNCHANGED m_vehicle_caches

BasicReject ==
    /\ CoreReject
    /\ UNCHANGED <<sumoVars, subVars, nodeVars>>

BasicUpdate ==
    /\ CoreUpdate
    /\ addAndRemove(Entering, Leaving)
    /\ updateVehicles(Managed', ResetCaches)

BasicFinish ==
    /\ CoreFinish
    /\ UNCHANGED <<sumoVars, subVars>>

(* The run has ended.                                                      *)
BasicDone ==
    /\ phase \in {"closed", "error"}
    /\ UNCHANGED basicVars

BasicNext == BasicConnect \/ BasicReject \/ BasicUpdate \/ BasicFinish \/ Client \/ BasicDone

BasicSpec == BasicInit /\ [][BasicNext]_basicVars

-----------------------------------------------------------------------------

(* The manager keeps exactly the vehicles SUMO is running; with            *)
(* destroyVehiclesOnCrash some of them are gone for good, never others.    *)
BasicVehiclesMirrored ==
    phase = "running" =>
        /\ Managed \subseteq running
        /\ ~DestroyOnCrash => Managed = running

(* When Core stops stepping SUMO because it expects no more vehicles, no   *)
(* node, vehicle or subscription is left behind.                           *)
BasicNothingLeftBehind ==
    phase = "running" /\ updateAt = Never =>
        Managed = {} /\ Noded = {} /\ m_subscribed_vehicles = {}

-----------------------------------------------------------------------------

(* What the node manager promises to the rest of the simulation.           *)
BasicMirror == INSTANCE VehicleMirror
    WITH MayDestroy <- DestroyOnCrash, traffic <- running,
         kept <- IF phase = "closed" THEN {} ELSE Managed
BasicMirrorsTraffic == BasicMirror!Spec
=============================================================================
