--------------------------- MODULE TraCIInterface ---------------------------
(* What utils/traci/TraCIAPI.h declares: the methods of every scope, by the     *)
(* type they return.                                                            *)

EdgeScope ==
  [int |-> {"getIDCount", "getLastStepVehicleNumber", "getLaneNumber"},
   double |-> {"getAdaptedTraveltime", "getEffort", "getCO2Emission", "getCOEmission", "getHCEmission",
      "getPMxEmission", "getNOxEmission", "getFuelConsumption", "getNoiseEmission",
      "getElectricityConsumption", "getLastStepMeanSpeed", "getLastStepOccupancy", "getLastStepLength",
      "getTraveltime", "getLastStepHaltingNumber"},
   string |-> {"getStreetName"},
   strings |-> {"getIDList", "getLastStepVehicleIDs"},
   void |-> {"adaptTraveltime", "setEffort", "setMaxSpeed"}]

GUIScope ==
  [double |-> {"getZoom"},
   string |-> {"getSchema"},
   strings |-> {"getIDList"},
   TraCIPosition |-> {"getOffset"},
   TraCIPositionVector |-> {"getBoundary"},
   void |-> {"setZoom", "setOffset", "setSchema", "setBoundary", "screenshot", "trackVehicle"}]

InductionLoopScope ==
  [int |-> {"getLastStepVehicleNumber"},
   double |-> {"getPosition", "getLastStepMeanSpeed", "getLastStepOccupancy", "getLastStepMeanLength",
      "getTimeSinceDetection"},
   string |-> {"getLaneID"},
   strings |-> {"getIDList", "getLastStepVehicleIDs"},
   compound |-> {"getVehicleData"}]

JunctionScope ==
  [strings |-> {"getIDList"},
   TraCIPosition |-> {"getPosition"}]

LaneScope ==
  [int |-> {"getIDCount", "getLinkNumber", "getLastStepVehicleNumber", "getLastStepHaltingNumber"},
   double |-> {"getLength", "getMaxSpeed", "getWidth", "getCO2Emission", "getCOEmission", "getHCEmission",
      "getPMxEmission", "getNOxEmission", "getFuelConsumption", "getNoiseEmission",
      "getElectricityConsumption", "getLastStepMeanSpeed", "getLastStepOccupancy", "getLastStepLength",
      "getTraveltime"},
   string |-> {"getEdgeID"},
   strings |-> {"getIDList", "getAllowed", "getDisallowed", "getLastStepVehicleIDs", "getFoes", "getInternalFoes"},
   TraCIPositionVector |-> {"getShape"},
   compound |-> {"getLinks"},
   void |-> {"setAllowed", "setDisallowed", "setMaxSpeed", "setLength"}]

LaneAreaScope ==
  [strings |-> {"getIDList"}]

MeMeScope ==
  [int |-> {"getLastStepVehicleNumber", "getLastStepHaltingNumber"},
   double |-> {"getLastStepMeanSpeed"},
   strings |-> {"getIDList", "getLastStepVehicleIDs"}]

POIScope ==
  [int |-> {"getIDCount"},
   double |-> {"getWidth", "getHeight", "getAngle"},
   string |-> {"getType", "getImageFile"},
   strings |-> {"getIDList"},
   TraCIPosition |-> {"getPosition"},
   TraCIColor |-> {"getColor"},
   void |-> {"setType", "setPosition", "setColor", "setWidth", "setHeight", "setAngle", "setImageFile", "add",
      "remove"}]

PolygonScope ==
  [int |-> {"getIDCount"},
   double |-> {"getLineWidth"},
   string |-> {"getType"},
   strings |-> {"getIDList"},
   TraCIPositionVector |-> {"getShape"},
   TraCIColor |-> {"getColor"},
   void |-> {"setType", "setShape", "setColor", "setLineWidth", "add", "remove"}]

RouteScope ==
  [strings |-> {"getIDList", "getEdges"},
   void |-> {"add"}]

SimulationScope ==
  [int |-> {"getCurrentTime", "getLoadedNumber", "getDepartedNumber", "getArrivedNumber",
      "getStartingTeleportNumber", "getEndingTeleportNumber", "getMinExpectedNumber"},
   double |-> {"getTime", "getDeltaT", "getDistance2D", "getDistanceRoad"},
   strings |-> {"getLoadedIDList", "getDepartedIDList", "getArrivedIDList", "getStartingTeleportIDList",
      "getEndingTeleportIDList"},
   TraCIPosition |-> {"convert2D", "convert3D", "convertGeo"},
   TraCIPositionVector |-> {"getNetBoundary"},
   TraCIRoadPosition |-> {"convertRoad"}]

TrafficLightScope ==
  [int |-> {"getIDCount", "getPhase"},
   double |-> {"getPhaseDuration", "getNextSwitch"},
   string |-> {"getRedYellowGreenState", "getProgram", "getPhaseName"},
   strings |-> {"getIDList", "getControlledLanes"},
   compound |-> {"getCompleteRedYellowGreenDefinition", "getControlledLinks"},
   void |-> {"setRedYellowGreenState", "setPhase", "setPhaseName", "setProgram", "setPhaseDuration",
      "setCompleteRedYellowGreenDefinition"}]

VehicleTypeScope ==
  [double |-> {"getLength", "getMaxSpeed", "getSpeedFactor", "getSpeedDeviation", "getAccel", "getDecel",
      "getEmergencyDecel", "getApparentDecel", "getImperfection", "getTau", "getMinGap", "getWidth",
      "getHeight", "getMinGapLat", "getMaxSpeedLat"},
   string |-> {"getVehicleClass", "getEmissionClass", "getShapeClass", "getLateralAlignment"},
   strings |-> {"getIDList"},
   TraCIColor |-> {"getColor"},
   void |-> {"setLength", "setMaxSpeed", "setVehicleClass", "setSpeedFactor", "setSpeedDeviation",
      "setEmissionClass", "setShapeClass", "setWidth", "setHeight", "setMinGap", "setAccel", "setDecel",
      "setEmergencyDecel", "setApparentDecel", "setImperfection", "setTau", "setColor", "setMinGapLat",
      "setMaxSpeedLat", "setLateralAlignment", "copy"}]

VehicleScope ==
  [int |-> {"getIDCount", "getLaneIndex", "getRouteIndex", "getSignals", "getSpeedMode", "getStopState",
      "getPersonNumber", "getRoutingMode"},
   bool |-> {"isRouteValid"},
   double |-> {"getSpeed", "getAcceleration", "getAngle", "getLanePosition", "getDistance", "getCO2Emission",
      "getCOEmission", "getHCEmission", "getPMxEmission", "getNOxEmission", "getFuelConsumption",
      "getNoiseEmission", "getElectricityConsumption", "getWaitingTime", "getAccumulatedWaitingTime",
      "getSlope", "getAllowedSpeed", "getSpeedWithoutTraCI", "getLateralLanePosition", "getSpeedFactor",
      "getLength", "getMaxSpeed", "getAccel", "getDecel", "getEmergencyDecel", "getApparentDecel", "getTau",
      "getImperfection", "getSpeedDeviation", "getMinGap", "getWidth", "getHeight", "getMaxSpeedLat",
      "getMinGapLat"},
   string |-> {"getRoadID", "getLaneID", "getTypeID", "getRouteID", "getLine", "getVehicleClass", "getEmissionClass",
      "getShapeClass", "getLateralAlignment"},
   strings |-> {"getIDList", "getRoute", "getPersonIDList", "getVia"},
   TraCIPosition |-> {"getPosition", "getPosition3D"},
   TraCIColor |-> {"getColor"},
   compound |-> {"getNextTLS", "getBestLanes", "getLeader", "getLaneChangeState"},
   void |-> {"add", "changeTarget", "changeLane", "changeLaneRelative", "changeSublane", "setRouteID", "setRoute",
      "rerouteTraveltime", "moveTo", "moveToXY", "slowDown", "openGap", "setSpeed", "setSpeedMode",
      "setStop", "setType", "remove", "setColor", "setLine", "setVia", "setSignals", "setRoutingMode",
      "setShapeClass", "setEmissionClass", "setSpeedFactor", "setMaxSpeed"}]

PersonScope ==
  [int |-> {"getIDCount", "getRemainingStages", "getStage"},
   double |-> {"getSpeed", "getWaitingTime", "getAngle", "getSlope", "getLanePosition", "getLength"},
   string |-> {"getRoadID", "getTypeID", "getNextEdge", "getVehicle"},
   strings |-> {"getIDList", "getEdges"},
   TraCIPosition |-> {"getPosition", "getPosition3D"},
   TraCIColor |-> {"getColor"},
   void |-> {"removeStages", "add", "appendWaitingStage", "appendWalkingStage", "appendDrivingStage",
      "removeStage", "rerouteTraveltime", "setSpeed", "setType", "setLength", "setWidth", "setHeight",
      "setMinGap", "setColor"}]

\* The scopes of a client, and the type a method of one is declared to return.
Scopes ==
  [edge |-> EdgeScope, gui |-> GUIScope, inductionloop |-> InductionLoopScope, junction |-> JunctionScope,
   lane |-> LaneScope, lanearea |-> LaneAreaScope, multientryexit |-> MeMeScope, poi |-> POIScope,
   polygon |-> PolygonScope, route |-> RouteScope, simulation |-> SimulationScope,
   trafficlights |-> TrafficLightScope, vehicletype |-> VehicleTypeScope, vehicle |-> VehicleScope,
   person |-> PersonScope]

Declared(scope, method) ==
  CHOOSE t \in DOMAIN Scopes[scope] : method \in Scopes[scope][t]
=============================================================================
