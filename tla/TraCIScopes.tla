---------------------------- MODULE TraCIScopes -----------------------------
(* The methods of TraCIAPI's scopes, after utils/traci/TraCIAPI.cpp: which      *)
(* variable each of them asks for or sets, which type of value it reads back,   *)
(* and what it writes.  A payload is a sequence of values; each one is written  *)
(* after its type code, "compoundN" with the number N of its parts, "polygonN"  *)
(* with N points, and the "raw" ones bare.  Other lists are of one element.     *)
EXTENDS Integers, Sequences

Getters(scope, table) ==
  UNION {{[kind |-> "get", scope |-> scope, method |-> m, variable |-> table[t][m],
           payload |-> <<>>, type |-> t] : m \in DOMAIN table[t]} : t \in DOMAIN table}

Setters(scope, table) ==
  UNION {{[kind |-> "set", scope |-> scope, method |-> m, variable |-> table[t][m],
           payload |-> <<t>>, type |-> "none"] : m \in DOMAIN table[t]} : t \in DOMAIN table}

Get(scope, method, variable, payload, type) ==
  [kind |-> "get", scope |-> scope, method |-> method, variable |-> variable, payload |-> payload, type |-> type]

Set(scope, method, variable, payload) ==
  [kind |-> "set", scope |-> scope, method |-> method, variable |-> variable, payload |-> payload, type |-> "none"]

EdgeGetters ==
  Getters("edge",
    [integer |-> [getIDCount |-> "ID_COUNT", getLastStepVehicleNumber |-> "LAST_STEP_VEHICLE_NUMBER",
        getLastStepHaltingNumber |-> "LAST_STEP_VEHICLE_HALTING_NUMBER", getLaneNumber |-> "VAR_LANE_INDEX"],
     double |-> [getCO2Emission |-> "VAR_CO2EMISSION", getCOEmission |-> "VAR_COEMISSION",
        getHCEmission |-> "VAR_HCEMISSION", getPMxEmission |-> "VAR_PMXEMISSION",
        getNOxEmission |-> "VAR_NOXEMISSION", getFuelConsumption |-> "VAR_FUELCONSUMPTION",
        getNoiseEmission |-> "VAR_NOISEEMISSION", getElectricityConsumption |-> "VAR_ELECTRICITYCONSUMPTION",
        getLastStepMeanSpeed |-> "LAST_STEP_MEAN_SPEED", getLastStepOccupancy |-> "LAST_STEP_OCCUPANCY",
        getLastStepLength |-> "LAST_STEP_LENGTH", getTraveltime |-> "VAR_CURRENT_TRAVELTIME"],
     string |-> [getStreetName |-> "VAR_NAME"],
     stringlist |-> [getIDList |-> "TRACI_ID_LIST", getLastStepVehicleIDs |-> "LAST_STEP_VEHICLE_ID_LIST"]])
  \cup {Get("edge", "getAdaptedTraveltime", "VAR_EDGE_TRAVELTIME", <<"double">>, "double"),
       Get("edge", "getEffort", "VAR_EDGE_EFFORT", <<"double">>, "double")}

EdgeSetters ==
  {Set("edge", "adaptTraveltime", "VAR_EDGE_TRAVELTIME", <<"compound3", "double", "double", "double">>),
       Set("edge", "adaptTraveltime", "VAR_EDGE_TRAVELTIME", <<"compound1", "double">>),
       Set("edge", "setEffort", "VAR_EDGE_EFFORT", <<"compound3", "double", "double", "double">>),
       Set("edge", "setEffort", "VAR_EDGE_EFFORT", <<"compound1", "double">>),
       Set("edge", "setMaxSpeed", "VAR_MAXSPEED", <<"rawDouble">>)}

GuiGetters ==
  Getters("gui",
    [double |-> [getZoom |-> "VAR_VIEW_ZOOM"],
     string |-> [getSchema |-> "VAR_VIEW_SCHEMA"],
     stringlist |-> [getIDList |-> "TRACI_ID_LIST"],
     position2D |-> [getOffset |-> "VAR_VIEW_OFFSET"],
     polygon |-> [getBoundary |-> "VAR_VIEW_BOUNDARY"]])

GuiSetters ==
  Setters("gui",
    [double |-> [setZoom |-> "VAR_VIEW_ZOOM"],
     string |-> [setSchema |-> "VAR_VIEW_SCHEMA", trackVehicle |-> "VAR_TRACK_VEHICLE"],
     position2D |-> [setOffset |-> "VAR_VIEW_OFFSET"],
     polygon2 |-> [setBoundary |-> "VAR_VIEW_BOUNDARY"]])
  \cup {Set("gui", "screenshot", "VAR_SCREENSHOT", <<"compound3", "string", "integer", "integer">>)}

InductionLoopGetters ==
  Getters("inductionloop",
    [integer |-> [getLastStepVehicleNumber |-> "LAST_STEP_VEHICLE_NUMBER"],
     double |-> [getPosition |-> "VAR_POSITION", getLastStepMeanSpeed |-> "LAST_STEP_MEAN_SPEED",
        getLastStepOccupancy |-> "LAST_STEP_OCCUPANCY", getLastStepMeanLength |-> "LAST_STEP_LENGTH",
        getTimeSinceDetection |-> "LAST_STEP_TIME_SINCE_DETECTION"],
     string |-> [getLaneID |-> "VAR_LANE_ID"],
     stringlist |-> [getIDList |-> "TRACI_ID_LIST", getLastStepVehicleIDs |-> "LAST_STEP_VEHICLE_ID_LIST"]])
  \cup {Get("inductionloop", "getVehicleData", "LAST_STEP_VEHICLE_DATA", <<>>, "compound")}

JunctionGetters ==
  Getters("junction",
    [stringlist |-> [getIDList |-> "TRACI_ID_LIST"],
     position2D |-> [getPosition |-> "VAR_POSITION"]])

LaneGetters ==
  Getters("lane",
    [integer |-> [getIDCount |-> "ID_COUNT", getLinkNumber |-> "LANE_LINK_NUMBER"],
     double |-> [getLength |-> "VAR_LENGTH", getMaxSpeed |-> "VAR_MAXSPEED", getWidth |-> "VAR_WIDTH"],
     string |-> [getEdgeID |-> "LANE_EDGE_ID"],
     stringlist |-> [getIDList |-> "TRACI_ID_LIST", getAllowed |-> "LANE_ALLOWED", getDisallowed |-> "LANE_DISALLOWED"],
     polygon |-> [getShape |-> "VAR_SHAPE"]])
  \cup {Get("lane", "getLinks", "LANE_LINKS", <<>>, "compound")}

LaneMeasurements ==
  Getters("lane",
    [integer |-> [getLastStepVehicleNumber |-> "LAST_STEP_VEHICLE_NUMBER",
        getLastStepHaltingNumber |-> "LAST_STEP_VEHICLE_HALTING_NUMBER"],
     double |-> [getCO2Emission |-> "VAR_CO2EMISSION", getCOEmission |-> "VAR_COEMISSION",
        getHCEmission |-> "VAR_HCEMISSION", getPMxEmission |-> "VAR_PMXEMISSION",
        getNOxEmission |-> "VAR_NOXEMISSION", getFuelConsumption |-> "VAR_FUELCONSUMPTION",
        getNoiseEmission |-> "VAR_NOISEEMISSION", getElectricityConsumption |-> "VAR_ELECTRICITYCONSUMPTION",
        getLastStepMeanSpeed |-> "LAST_STEP_MEAN_SPEED", getLastStepOccupancy |-> "LAST_STEP_OCCUPANCY",
        getLastStepLength |-> "LAST_STEP_LENGTH", getTraveltime |-> "VAR_CURRENT_TRAVELTIME"],
     stringlist |-> [getLastStepVehicleIDs |-> "LAST_STEP_VEHICLE_ID_LIST"]])
  \cup {Get("lane", "getFoes", "VAR_FOES", <<"string">>, "stringlist")}

LaneSetters ==
  Setters("lane",
    [double |-> [setMaxSpeed |-> "VAR_MAXSPEED", setLength |-> "VAR_LENGTH"],
     stringlist |-> [setAllowed |-> "LANE_ALLOWED", setDisallowed |-> "LANE_DISALLOWED"]])

LaneAreaGetters ==
  Getters("lanearea",
    [stringlist |-> [getIDList |-> "TRACI_ID_LIST"]])

MeMeGetters ==
  Getters("multientryexit",
    [integer |-> [getLastStepVehicleNumber |-> "LAST_STEP_VEHICLE_NUMBER",
        getLastStepMeanSpeed |-> "LAST_STEP_MEAN_SPEED",
        getLastStepHaltingNumber |-> "LAST_STEP_VEHICLE_HALTING_NUMBER"],
     stringlist |-> [getIDList |-> "TRACI_ID_LIST", getLastStepVehicleIDs |-> "LAST_STEP_VEHICLE_ID_LIST"]])

PoiGetters ==
  Getters("poi",
    [integer |-> [getIDCount |-> "ID_COUNT"],
     double |-> [getWidth |-> "VAR_WIDTH", getHeight |-> "VAR_HEIGHT", getAngle |-> "VAR_ANGLE"],
     string |-> [getType |-> "VAR_TYPE", getImageFile |-> "VAR_IMAGEFILE"],
     stringlist |-> [getIDList |-> "TRACI_ID_LIST"],
     position2D |-> [getPosition |-> "VAR_POSITION"],
     color |-> [getColor |-> "VAR_COLOR"]])

PoiSetters ==
  Setters("poi",
    [integer |-> [remove |-> "REMOVE"],
     double |-> [setWidth |-> "VAR_WIDTH", setHeight |-> "VAR_HEIGHT", setAngle |-> "VAR_ANGLE"],
     string |-> [setType |-> "VAR_TYPE", setImageFile |-> "VAR_IMAGEFILE"],
     position2D |-> [setPosition |-> "VAR_POSITION"],
     color |-> [setColor |-> "VAR_COLOR"]])
  \cup {Set("poi", "add", "ADD", <<"compound8", "string", "color", "integer", "position2D", "string",
          "double", "double", "double">>)}

PolygonGetters ==
  Getters("polygon",
    [integer |-> [getIDCount |-> "ID_COUNT"],
     double |-> [getLineWidth |-> "VAR_WIDTH"],
     string |-> [getType |-> "VAR_TYPE"],
     stringlist |-> [getIDList |-> "TRACI_ID_LIST"],
     polygon |-> [getShape |-> "VAR_SHAPE"],
     color |-> [getColor |-> "VAR_COLOR"]])

PolygonSetters ==
  Setters("polygon",
    [integer |-> [remove |-> "REMOVE"],
     double |-> [setLineWidth |-> "VAR_WIDTH"],
     string |-> [setType |-> "VAR_TYPE"],
     color |-> [setColor |-> "VAR_COLOR"]])
  \cup {Set("polygon", "setShape", "VAR_SHAPE", <<shape>>) : shape \in {"polygon0", "polygon", "polygon256"}}
  \cup {Set("polygon", "add", "ADD", <<"compound5", "string", "color", "ubyte", "integer", shape>>) :
           shape \in {"polygon0", "polygon", "polygon256InAByte"}}

RouteGetters ==
  Getters("route",
    [stringlist |-> [getIDList |-> "TRACI_ID_LIST", getEdges |-> "VAR_EDGES"]])

RouteSetters ==
  Setters("route",
    [stringlist |-> [add |-> "ADD"]])

SimulationGetters ==
  Getters("simulation",
    [integer |-> [getCurrentTime |-> "VAR_TIME_STEP", getLoadedNumber |-> "VAR_LOADED_VEHICLES_NUMBER",
        getDepartedNumber |-> "VAR_DEPARTED_VEHICLES_NUMBER",
        getArrivedNumber |-> "VAR_ARRIVED_VEHICLES_NUMBER",
        getStartingTeleportNumber |-> "VAR_TELEPORT_STARTING_VEHICLES_NUMBER",
        getEndingTeleportNumber |-> "VAR_TELEPORT_ENDING_VEHICLES_NUMBER",
        getMinExpectedNumber |-> "VAR_MIN_EXPECTED_VEHICLES"],
     double |-> [getTime |-> "VAR_TIME", getDeltaT |-> "VAR_DELTA_T"],
     stringlist |-> [getLoadedIDList |-> "VAR_LOADED_VEHICLES_IDS", getDepartedIDList |-> "VAR_DEPARTED_VEHICLES_IDS",
        getArrivedIDList |-> "VAR_ARRIVED_VEHICLES_IDS",
        getStartingTeleportIDList |-> "VAR_TELEPORT_STARTING_VEHICLES_IDS",
        getEndingTeleportIDList |-> "VAR_TELEPORT_ENDING_VEHICLES_IDS"],
     polygon |-> [getNetBoundary |-> "VAR_NET_BOUNDING_BOX"]])

SimulationConversions ==
  {Get("simulation", "convert2D", "POSITION_CONVERSION", <<"compound2", "roadmap", "ubyte">>, "position2D"),
       Get("simulation", "convert2D", "POSITION_CONVERSION", <<"compound2", "roadmap", "ubyte">>, "lonLat"),
       Get("simulation", "convert3D", "POSITION_CONVERSION", <<"compound2", "roadmap", "ubyte">>, "position3D"),
       Get("simulation", "convert3D", "POSITION_CONVERSION", <<"compound2", "roadmap", "ubyte">>, "lonLatAlt"),
       Get("simulation", "convertRoad", "POSITION_CONVERSION", <<"compound3", "position2D", "ubyte", "string">>, "roadmap"),
       Get("simulation", "convertRoad", "POSITION_CONVERSION", <<"compound3", "lonLat", "ubyte", "string">>, "roadmap"),
       Get("simulation", "convertGeo", "POSITION_CONVERSION", <<"compound2", "lonLat", "ubyte">>, "position2D"),
       Get("simulation", "convertGeo", "POSITION_CONVERSION", <<"compound2", "position2D", "ubyte">>, "lonLat"),
       Get("simulation", "getDistance2D", "DISTANCE_REQUEST", <<"compound3", "position2D", "position2D", "rawByte">>, "double"),
       Get("simulation", "getDistance2D", "DISTANCE_REQUEST", <<"compound3", "lonLat", "lonLat", "rawByte">>, "double"),
       Get("simulation", "getDistanceRoad", "DISTANCE_REQUEST", <<"compound3", "roadmap", "roadmap", "rawByte">>, "double")}

TrafficLightGetters ==
  Getters("trafficlights",
    [integer |-> [getIDCount |-> "ID_COUNT", getPhase |-> "TL_CURRENT_PHASE"],
     double |-> [getPhaseDuration |-> "TL_PHASE_DURATION", getNextSwitch |-> "TL_NEXT_SWITCH"],
     string |-> [getRedYellowGreenState |-> "TL_RED_YELLOW_GREEN_STATE", getProgram |-> "TL_CURRENT_PROGRAM",
        getPhaseName |-> "VAR_NAME"],
     stringlist |-> [getIDList |-> "TRACI_ID_LIST", getControlledLanes |-> "TL_CONTROLLED_LANES"]])
  \cup {Get("trafficlights", "getCompleteRedYellowGreenDefinition", "TL_COMPLETE_DEFINITION_RYG", <<>>, "compound"),
       Get("trafficlights", "getControlledLinks", "TL_CONTROLLED_LINKS", <<>>, "compound")}

TrafficLightSetters ==
  Setters("trafficlights",
    [integer |-> [setPhase |-> "TL_PHASE_INDEX"],
     double |-> [setPhaseDuration |-> "TL_PHASE_DURATION"],
     string |-> [setRedYellowGreenState |-> "TL_RED_YELLOW_GREEN_STATE", setPhaseName |-> "VAR_NAME",
        setProgram |-> "TL_PROGRAM"]])
  \cup {Set("trafficlights", "setCompleteRedYellowGreenDefinition", "TL_COMPLETE_PROGRAM_RYG",
          <<"compound5", "string", "integer", "integer", "compound1", "compound6",
            "double", "string", "double", "double", "compound1", "integer", "string", "compound1", "stringlist">>)}

VehicleTypeGetters ==
  Getters("vehicletype",
    [double |-> [getLength |-> "VAR_LENGTH", getMaxSpeed |-> "VAR_MAXSPEED", getSpeedFactor |-> "VAR_SPEED_FACTOR",
        getSpeedDeviation |-> "VAR_SPEED_DEVIATION", getAccel |-> "VAR_ACCEL", getDecel |-> "VAR_DECEL",
        getEmergencyDecel |-> "VAR_EMERGENCY_DECEL", getApparentDecel |-> "VAR_APPARENT_DECEL",
        getImperfection |-> "VAR_IMPERFECTION", getTau |-> "VAR_TAU", getMinGap |-> "VAR_MINGAP",
        getMinGapLat |-> "VAR_MINGAP_LAT", getMaxSpeedLat |-> "VAR_MAXSPEED_LAT", getWidth |-> "VAR_WIDTH",
        getHeight |-> "VAR_HEIGHT"],
     string |-> [getVehicleClass |-> "VAR_VEHICLECLASS", getEmissionClass |-> "VAR_EMISSIONCLASS",
        getShapeClass |-> "VAR_SHAPECLASS", getLateralAlignment |-> "VAR_LATALIGNMENT"],
     stringlist |-> [getIDList |-> "TRACI_ID_LIST"],
     color |-> [getColor |-> "VAR_COLOR"]])

VehicleTypeSetters ==
  Setters("vehicletype",
    [double |-> [setLength |-> "VAR_LENGTH", setMaxSpeed |-> "VAR_MAXSPEED", setSpeedFactor |-> "VAR_SPEED_FACTOR",
        setSpeedDeviation |-> "VAR_SPEED_DEVIATION", setWidth |-> "VAR_WIDTH", setHeight |-> "VAR_HEIGHT",
        setMinGap |-> "VAR_MINGAP"],
     string |-> [setVehicleClass |-> "VAR_VEHICLECLASS", setEmissionClass |-> "VAR_EMISSIONCLASS"]])

VehicleTypeMoreSetters ==
  Setters("vehicletype",
    [double |-> [setMinGapLat |-> "VAR_MINGAP_LAT", setMaxSpeedLat |-> "VAR_MAXSPEED_LAT", setAccel |-> "VAR_ACCEL",
        setDecel |-> "VAR_DECEL", setEmergencyDecel |-> "VAR_EMERGENCY_DECEL",
        setApparentDecel |-> "VAR_APPARENT_DECEL", setImperfection |-> "VAR_IMPERFECTION",
        setTau |-> "VAR_TAU"],
     string |-> [setLateralAlignment |-> "VAR_LATALIGNMENT", copy |-> "COPY", setShapeClass |-> "VAR_SHAPECLASS"],
     color |-> [setColor |-> "VAR_COLOR"]])

VehicleGetters ==
  Getters("vehicle",
    [integer |-> [getIDCount |-> "ID_COUNT", getLaneIndex |-> "VAR_LANE_INDEX", getRouteIndex |-> "VAR_ROUTE_INDEX",
        getSignals |-> "VAR_SIGNALS"],
     double |-> [getSpeed |-> "VAR_SPEED", getAcceleration |-> "VAR_ACCELERATION", getMaxSpeed |-> "VAR_MAXSPEED",
        getAngle |-> "VAR_ANGLE", getLanePosition |-> "VAR_LANEPOSITION", getDistance |-> "VAR_DISTANCE",
        getLateralLanePosition |-> "VAR_LANEPOSITION_LAT"],
     string |-> [getRoadID |-> "VAR_ROAD_ID", getLaneID |-> "VAR_LANE_ID", getTypeID |-> "VAR_TYPE",
        getRouteID |-> "VAR_ROUTE_ID"],
     stringlist |-> [getIDList |-> "TRACI_ID_LIST", getRoute |-> "VAR_EDGES"],
     position2D |-> [getPosition |-> "VAR_POSITION"],
     position3D |-> [getPosition3D |-> "VAR_POSITION3D"],
     color |-> [getColor |-> "VAR_COLOR"]])

VehicleEmissions ==
  Getters("vehicle",
    [integer |-> [getSpeedMode |-> "VAR_SPEEDSETMODE"],
     double |-> [getCO2Emission |-> "VAR_CO2EMISSION", getCOEmission |-> "VAR_COEMISSION",
        getHCEmission |-> "VAR_HCEMISSION", getPMxEmission |-> "VAR_PMXEMISSION",
        getNOxEmission |-> "VAR_NOXEMISSION", getFuelConsumption |-> "VAR_FUELCONSUMPTION",
        getNoiseEmission |-> "VAR_NOISEEMISSION", getElectricityConsumption |-> "VAR_ELECTRICITYCONSUMPTION",
        getWaitingTime |-> "VAR_WAITING_TIME", getSlope |-> "VAR_SLOPE"],
     string |-> [getLine |-> "VAR_LINE", getEmissionClass |-> "VAR_EMISSIONCLASS", getShapeClass |-> "VAR_SHAPECLASS"],
     stringlist |-> [getVia |-> "VAR_VIA"]])

VehicleCompounds ==
  {Get("vehicle", "getNextTLS", "VAR_NEXT_TLS", <<>>, "compound"),
       Get("vehicle", "getBestLanes", "VAR_BEST_LANES", <<>>, "compound"),
       Get("vehicle", "getLeader", "VAR_LEADER", <<"double">>, "compound"),
       Get("vehicle", "getLaneChangeState", "CMD_CHANGELANE", <<"integer">>, "compound")}

VehicleTypeShortcuts ==
  Getters("vehicle",
    [integer |-> [getStopState |-> "VAR_STOPSTATE", getRoutingMode |-> "VAR_ROUTING_MODE",
        getPersonNumber |-> "VAR_PERSON_NUMBER", isRouteValid |-> "VAR_ROUTE_VALID"],
     double |-> [getAccel |-> "VAR_ACCEL", getDecel |-> "VAR_DECEL", getTau |-> "VAR_TAU",
        getImperfection |-> "VAR_IMPERFECTION", getSpeedFactor |-> "VAR_SPEED_FACTOR",
        getSpeedDeviation |-> "VAR_SPEED_DEVIATION", getMinGap |-> "VAR_MINGAP", getWidth |-> "VAR_WIDTH",
        getLength |-> "VAR_LENGTH", getHeight |-> "VAR_HEIGHT",
        getAccumulatedWaitingTime |-> "VAR_ACCUMULATED_WAITING_TIME", getAllowedSpeed |-> "VAR_ALLOWED_SPEED",
        getSpeedWithoutTraCI |-> "VAR_SPEED_WITHOUT_TRACI", getMaxSpeedLat |-> "VAR_MAXSPEED_LAT",
        getMinGapLat |-> "VAR_MINGAP_LAT"],
     string |-> [getVehicleClass |-> "VAR_VEHICLECLASS", getLateralAlignment |-> "VAR_LATALIGNMENT"],
     stringlist |-> [getPersonIDList |-> "LAST_STEP_PERSON_ID_LIST"]])

VehicleLifecycle ==
  Setters("vehicle",
    [byte |-> [remove |-> "REMOVE"],
     double |-> [changeSublane |-> "CMD_CHANGESUBLANE"],
     string |-> [changeTarget |-> "CMD_CHANGETARGET", setRouteID |-> "VAR_ROUTE_ID"],
     stringlist |-> [setRoute |-> "VAR_ROUTE"]])
  \cup {Set("vehicle", "add", "ADD_FULL",
          <<"compound14">> \o [i \in 1..12 |-> "string"] \o <<"integer", "integer">>),
       Set("vehicle", "changeLane", "CMD_CHANGELANE", <<"compound2", "byte", "double">>),
       Set("vehicle", "changeLaneRelative", "CMD_CHANGELANE", <<"compound3", "byte", "double", "byte">>)}

VehicleMotion ==
  Setters("vehicle",
    [integer |-> [setSpeedMode |-> "VAR_SPEEDSETMODE"],
     double |-> [setSpeed |-> "VAR_SPEED"]])
  \cup {Set("vehicle", "rerouteTraveltime", "CMD_REROUTE_TRAVELTIME", <<"compound0">>),
       Set("vehicle", "moveTo", "VAR_MOVE_TO", <<"compound2", "string", "double">>),
       Set("vehicle", "moveToXY", "MOVE_TO_XY", <<"compound6", "string", "integer", "double",
          "double", "double", "byte">>),
       Set("vehicle", "slowDown", "CMD_SLOWDOWN", <<"compound2", "double", "double">>),
       Set("vehicle", "openGap", "CMD_OPENGAP", <<"compound4", "double", "double", "double", "double">>),
       Set("vehicle", "openGap", "CMD_OPENGAP", <<"compound3", "double", "double", "double">>),
       Set("vehicle", "setStop", "CMD_STOP", <<"compound7", "string", "double", "byte", "double",
          "byte", "double", "double">>)}

VehicleSetters ==
  Setters("vehicle",
    [integer |-> [setSignals |-> "VAR_SIGNALS", setRoutingMode |-> "VAR_ROUTING_MODE"],
     double |-> [setSpeedFactor |-> "VAR_SPEED_FACTOR", setMaxSpeed |-> "VAR_MAXSPEED"],
     string |-> [setType |-> "VAR_TYPE", setLine |-> "VAR_LINE", setShapeClass |-> "VAR_SHAPECLASS",
        setEmissionClass |-> "VAR_EMISSIONCLASS"],
     stringlist |-> [setVia |-> "VAR_VIA"],
     color |-> [setColor |-> "VAR_COLOR"]])

PersonGetters ==
  Getters("person",
    [integer |-> [getIDCount |-> "ID_COUNT", getRemainingStages |-> "VAR_STAGES_REMAINING"],
     double |-> [getSpeed |-> "VAR_SPEED", getAngle |-> "VAR_ANGLE", getSlope |-> "VAR_SLOPE",
        getLanePosition |-> "VAR_LANEPOSITION", getLength |-> "VAR_LENGTH",
        getWaitingTime |-> "VAR_WAITING_TIME"],
     string |-> [getRoadID |-> "VAR_ROAD_ID", getTypeID |-> "VAR_TYPE", getNextEdge |-> "VAR_NEXT_EDGE",
        getVehicle |-> "VAR_VEHICLE"],
     stringlist |-> [getIDList |-> "TRACI_ID_LIST"],
     position2D |-> [getPosition |-> "VAR_POSITION"],
     position3D |-> [getPosition3D |-> "VAR_POSITION3D"],
     color |-> [getColor |-> "VAR_COLOR"]])
  \cup {Get("person", "getEdges", "VAR_EDGES", <<"integer">>, "stringlist"),
       Get("person", "getStage", "VAR_STAGE", <<"integer">>, "integer")}

PersonStages ==
  Setters("person",
    [integer |-> [removeStage |-> "REMOVE_STAGE"]])
  \cup {Set("person", "rerouteTraveltime", "CMD_REROUTE_TRAVELTIME", <<"compound0">>),
       Set("person", "add", "ADD", <<"compound4", "string", "string", "double", "double">>),
       Set("person", "appendWaitingStage", "APPEND_STAGE", <<"compound4", "integer", "integer",
          "string", "string">>),
       Set("person", "appendWalkingStage", "APPEND_STAGE", <<"compound6", "integer", "stringlist",
          "double", "integer", "double", "string">>),
       Set("person", "appendDrivingStage", "APPEND_STAGE", <<"compound4", "integer", "string",
          "string", "string">>)}

PersonSetters ==
  Setters("person",
    [double |-> [setSpeed |-> "VAR_SPEED", setLength |-> "VAR_LENGTH", setWidth |-> "VAR_WIDTH",
        setHeight |-> "VAR_HEIGHT", setMinGap |-> "VAR_MINGAP"],
     string |-> [setType |-> "VAR_TYPE"],
     color |-> [setColor |-> "VAR_COLOR"]])

\* What the methods for compound values read after the compound's type code.
CompoundParts(method) ==
  CASE method = "getVehicleData" -> <<"rawInt", "integer", "string", "double", "double", "double", "string">>
    [] method = "getLinks" -> <<"integer", "rawInt", "string", "string", "ubyte", "ubyte", "ubyte", "string", "string", "double">>
    [] method = "getCompleteRedYellowGreenDefinition" -> <<"rawInt", "integer", "string", "integer", "integer", "integer", "integer",
          "double", "string", "double", "double", "integer", "integer", "string", "integer", "stringlist">>
    [] method = "getControlledLinks" -> <<"integer", "rawInt", "integer", "integer", "rawString", "rawString", "rawString">>
    [] method = "getNextTLS" -> <<"rawInt", "integer", "string", "integer", "double", "byte">>
    [] method = "getBestLanes" -> <<"rawInt", "integer", "string", "double", "double", "byte", "ubyte", "stringlist">>
    [] method = "getLeader" -> <<"rawInt", "string", "double">>
    [] method = "getLaneChangeState" -> <<"rawInt", "integer", "integer">>

\* getParameter and setParameter, which every scope inherits; detectors have no set command.
Parameters(scope) ==
  {Get(scope, "getParameter", "VAR_PARAMETER", <<"string">>, "string"),
   Set(scope, "setParameter", "VAR_PARAMETER", <<"compound2", "string", "string">>)}

Methods ==
  UNION {EdgeGetters, EdgeSetters, GuiGetters, GuiSetters, InductionLoopGetters, JunctionGetters,
         LaneGetters, LaneMeasurements, LaneSetters, LaneAreaGetters, MeMeGetters, PoiGetters,
         PoiSetters, PolygonGetters, PolygonSetters, RouteGetters, RouteSetters, SimulationGetters,
         SimulationConversions, TrafficLightGetters, TrafficLightSetters, VehicleTypeGetters,
         VehicleTypeSetters, VehicleTypeMoreSetters, VehicleGetters, VehicleEmissions,
         VehicleCompounds, VehicleTypeShortcuts, VehicleLifecycle, VehicleMotion, VehicleSetters,
         PersonGetters, PersonStages, PersonSetters}
=============================================================================
