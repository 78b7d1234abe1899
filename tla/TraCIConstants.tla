--------------------------- MODULE TraCIConstants ---------------------------
(* The numbers of the TraCI protocol, after libsumo/TraCIConstants.h: commands, *)
(* type and result codes, and variables.  The commands of a domain differ only  *)
(* in their upper half byte, so a domain is its lower half byte.                *)
EXTENDS Integers

\* Commands that belong to no domain, and the ones used as variables of vehicles.
Commands ==
  [CMD_GETVERSION |-> 0, CMD_LOAD |-> 1, CMD_SIMSTEP |-> 2, CMD_SETORDER |-> 3, CMD_CLOSE |-> 127,
   CMD_STOP |-> 18, CMD_CHANGELANE |-> 19, CMD_SLOWDOWN |-> 20, CMD_CHANGESUBLANE |-> 21,
   CMD_OPENGAP |-> 22, CMD_CHANGETARGET |-> 49]

\* The domains and their lower half byte, first those of detectors, lights, lanes and vehicles.
DomainsToPoi ==
  [inductionloop |-> 0, multientryexit |-> 1, trafficlights |-> 2, lane |-> 3, vehicle |-> 4,
   vehicletype |-> 5, route |-> 6, poi |-> 7]

DomainsToPerson ==
  [polygon |-> 8, junction |-> 9, edge |-> 10, simulation |-> 11, gui |-> 12, lanearea |-> 13, person |-> 14]

Domains == [d \in DOMAIN DomainsToPoi \cup DOMAIN DomainsToPerson |->
              IF d \in DOMAIN DomainsToPoi THEN DomainsToPoi[d] ELSE DomainsToPerson[d]]

SubscribeContext(d) == 128 + Domains[d]       \* CMD_SUBSCRIBE_*_CONTEXT, answered by + 16
GetVariable(d) == 160 + Domains[d]            \* CMD_GET_*_VARIABLE, answered by + 16
SetVariable(d) == 192 + Domains[d]            \* CMD_SET_*_VARIABLE
SubscribeVariable(d) == 208 + Domains[d]      \* CMD_SUBSCRIBE_*_VARIABLE, answered by + 16
ResponseVariable(d) == 224 + Domains[d]       \* RESPONSE_SUBSCRIBE_*_VARIABLE

\* Type codes, positions included: they precede every value.
TypeCodes ==
  [lonLat |-> 0, position2D |-> 1, lonLatAlt |-> 2, position3D |-> 3, roadmap |-> 4, polygon |-> 6,
   ubyte |-> 7, byte |-> 8, integer |-> 9, double |-> 11, string |-> 12, stringlist |-> 14, compound |-> 15,
   color |-> 17]

RTYPE_OK == 0
RTYPE_NOTIMPLEMENTED == 1
RTYPE_ERR == 255

VariablesOfLanesAndLights ==
  [TRACI_ID_LIST |-> 0, ID_COUNT |-> 1, LAST_STEP_VEHICLE_NUMBER |-> 16, LAST_STEP_MEAN_SPEED |-> 17,
   LAST_STEP_VEHICLE_ID_LIST |-> 18, LAST_STEP_OCCUPANCY |-> 19, LAST_STEP_VEHICLE_HALTING_NUMBER |-> 20,
   LAST_STEP_LENGTH |-> 21, LAST_STEP_TIME_SINCE_DETECTION |-> 22, LAST_STEP_VEHICLE_DATA |-> 23,
   LAST_STEP_PERSON_ID_LIST |-> 26, VAR_NAME |-> 27, TL_RED_YELLOW_GREEN_STATE |-> 32,
   TL_PHASE_INDEX |-> 34, TL_PROGRAM |-> 35, TL_PHASE_DURATION |-> 36, TL_CONTROLLED_LANES |-> 38,
   TL_CONTROLLED_LINKS |-> 39, TL_CURRENT_PHASE |-> 40, TL_CURRENT_PROGRAM |-> 41,
   TL_COMPLETE_DEFINITION_RYG |-> 43, TL_COMPLETE_PROGRAM_RYG |-> 44, TL_NEXT_SWITCH |-> 45,
   LANE_LINK_NUMBER |-> 48, LANE_EDGE_ID |-> 49, LANE_LINKS |-> 51, LANE_ALLOWED |-> 52,
   LANE_DISALLOWED |-> 53, VAR_FOES |-> 55, VAR_SLOPE |-> 54, VAR_SPEED |-> 64, VAR_MAXSPEED |-> 65,
   VAR_POSITION |-> 66, VAR_POSITION3D |-> 57, VAR_ANGLE |-> 67, VAR_LENGTH |-> 68, VAR_COLOR |-> 69,
   VAR_ACCEL |-> 70, VAR_DECEL |-> 71, VAR_EMERGENCY_DECEL |-> 123, VAR_APPARENT_DECEL |-> 124]

VariablesOfShapesAndTypes ==
  [VAR_TAU |-> 72, VAR_VEHICLECLASS |-> 73, VAR_EMISSIONCLASS |-> 74, VAR_SHAPECLASS |-> 75,
   VAR_MINGAP |-> 76, VAR_WIDTH |-> 77, VAR_SHAPE |-> 78, VAR_TYPE |-> 79, VAR_ROAD_ID |-> 80,
   VAR_LANE_ID |-> 81, VAR_LANE_INDEX |-> 82, VAR_ROUTE_ID |-> 83, VAR_EDGES |-> 84, VAR_IMAGEFILE |-> 147,
   VAR_LANEPOSITION |-> 86, VAR_ROUTE |-> 87, VAR_EDGE_TRAVELTIME |-> 88, VAR_EDGE_EFFORT |-> 89,
   VAR_CURRENT_TRAVELTIME |-> 90, VAR_SIGNALS |-> 91, VAR_MOVE_TO |-> 92, VAR_IMPERFECTION |-> 93,
   VAR_SPEED_FACTOR |-> 94, VAR_SPEED_DEVIATION |-> 95, VAR_ROUTING_MODE |-> 137,
   VAR_SPEED_WITHOUT_TRACI |-> 177, VAR_BEST_LANES |-> 178, VAR_SPEEDSETMODE |-> 179, MOVE_TO_XY |-> 180,
   VAR_STOPSTATE |-> 181, VAR_ALLOWED_SPEED |-> 183, VAR_LANEPOSITION_LAT |-> 184, VAR_LATALIGNMENT |-> 185,
   VAR_MAXSPEED_LAT |-> 186]

VariablesOfVehicles ==
  [VAR_MINGAP_LAT |-> 187, VAR_HEIGHT |-> 188, VAR_LINE |-> 189, VAR_VIA |-> 190, VAR_CO2EMISSION |-> 96,
   VAR_COEMISSION |-> 97, VAR_HCEMISSION |-> 98, VAR_PMXEMISSION |-> 99, VAR_NOXEMISSION |-> 100,
   VAR_FUELCONSUMPTION |-> 101, VAR_NOISEEMISSION |-> 102, VAR_PERSON_NUMBER |-> 103, VAR_LEADER |-> 104,
   VAR_ROUTE_INDEX |-> 105, VAR_WAITING_TIME |-> 122, VAR_ACCUMULATED_WAITING_TIME |-> 135,
   VAR_NEXT_TLS |-> 112, VAR_ACCELERATION |-> 114, VAR_TIME |-> 102, VAR_TIME_STEP |-> 112,
   VAR_ELECTRICITYCONSUMPTION |-> 113, VAR_LOADED_VEHICLES_NUMBER |-> 113, VAR_LOADED_VEHICLES_IDS |-> 114,
   VAR_DEPARTED_VEHICLES_NUMBER |-> 115, VAR_DEPARTED_VEHICLES_IDS |-> 116,
   VAR_TELEPORT_STARTING_VEHICLES_NUMBER |-> 117, VAR_TELEPORT_STARTING_VEHICLES_IDS |-> 118,
   VAR_TELEPORT_ENDING_VEHICLES_NUMBER |-> 119, VAR_TELEPORT_ENDING_VEHICLES_IDS |-> 120,
   VAR_ARRIVED_VEHICLES_NUMBER |-> 121, VAR_ARRIVED_VEHICLES_IDS |-> 122, VAR_DELTA_T |-> 123,
   VAR_NET_BOUNDING_BOX |-> 124, VAR_MIN_EXPECTED_VEHICLES |-> 125]

VariablesOfPersonsAndView ==
  [VAR_PARAMETER |-> 126, ADD |-> 128, REMOVE |-> 129, COPY |-> 136, POSITION_CONVERSION |-> 130,
   DISTANCE_REQUEST |-> 131, VAR_DISTANCE |-> 132, ADD_FULL |-> 133, CMD_REROUTE_TRAVELTIME |-> 144,
   VAR_ROUTE_VALID |-> 146, VAR_STAGE |-> 192, VAR_NEXT_EDGE |-> 193, VAR_STAGES_REMAINING |-> 194,
   VAR_VEHICLE |-> 195, APPEND_STAGE |-> 196, REMOVE_STAGE |-> 197, VAR_VIEW_ZOOM |-> 160,
   VAR_VIEW_OFFSET |-> 161, VAR_VIEW_SCHEMA |-> 162, VAR_VIEW_BOUNDARY |-> 163, VAR_SCREENSHOT |-> 165,
   VAR_TRACK_VEHICLE |-> 166]

VariableTables == {Commands, VariablesOfLanesAndLights, VariablesOfShapesAndTypes, VariablesOfVehicles, VariablesOfPersonsAndView}

\* The number of a variable, by its name.
VariableID(name) ==
  LET t == CHOOSE r \in VariableTables : name \in DOMAIN r IN t[name]
=============================================================================
