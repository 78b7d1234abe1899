----------------------------- MODULE CaService -----------------------------
(***************************************************************************)
(* Generation of Cooperative Awareness Messages by the CaService of every  *)
(* sending station (src/src/artery/application/CaService.cc).  Position,   *)
(* heading and speed of a station are one value; two values differ by more *)
(* than the configured deltas exactly if they are not equal.               *)
(***************************************************************************)
EXTENDS Timer, FiniteSets

CONSTANTS
    Senders,            \* stations running a CaService
    Dynamics,           \* values of position, heading and speed
    NoDynamics,         \* their value-initialized members: zero
    Channels,           \* channels the multi-channel policy maps CAMs to
    CCH,                \* control channel
    WithDccRestriction, FixedRate,      \* NED parameters
    MinInterval, MaxInterval,           \* NED parameters, 100 ms and 1 s
    DefaultInterval,    \* 1000 ms, mGenCam as constructed
    LowFrequencyInterval,   \* 500 ms
    LowDynamicsLimit,   \* 3
    DccDelays           \* delays a transmit rate throttle may ask for

ASSUME CaServiceAssumption ==
    /\ NoDynamics \in Dynamics
    /\ WithDccRestriction \in BOOLEAN
    /\ FixedRate \in BOOLEAN
    /\ MinInterval \in Nat
    /\ MaxInterval \in Nat /\ MinInterval <= MaxInterval
    /\ DefaultInterval \in Nat
    /\ LowFrequencyInterval \in Nat \ {0}
    /\ LowDynamicsLimit \in Nat
    /\ DccDelays \subseteq Nat

VARIABLES
    now,            \* simTime()
    dynamics,       \* VehicleDataProvider of every sender ...
    updated,        \* ... and when it was updated
    trcDelay,       \* delay of the rate throttle of every channel
    mGenCam,
    mGenCamLowDynamicsCounter,
    mLastCamDynamics,       \* mLastCamPosition, -Speed and -Heading
    mLastCamTimestamp,
    mLastLowCamTimestamp,
    lastContainer   \* history: when a CAM with a low frequency container was sent

caVars == <<mGenCam, mGenCamLowDynamicsCounter, mLastCamDynamics,
            mLastCamTimestamp, mLastLowCamTimestamp, lastContainer>>

CaTypeOK ==
    /\ dynamics \in [Senders -> Dynamics]
    /\ updated \in [Senders -> 0..now]
    /\ trcDelay \in [Channels \cup {CCH} -> DccDelays]
    /\ mGenCam \in [Senders -> Nat]
    /\ mGenCamLowDynamicsCounter \in [Senders -> Nat]
    /\ mLastCamDynamics \in [Senders -> Dynamics]
    /\ mLastCamTimestamp \in [Senders -> 0..now]
    /\ mLastLowCamTimestamp \in [Senders -> -LowFrequencyInterval..now]
    /\ lastContainer \in [Senders -> 0..now]

(* initialize: the first CAM shall include the low frequency container.    *)
LowCamAtStart == [s \in Senders |-> -LowFrequencyInterval]

(* Constructor and initialize; mGenCam keeps the value of the constructor. *)
CaInit ==
    /\ dynamics \in [Senders -> Dynamics]
    /\ updated = [s \in Senders |-> 0]
    /\ trcDelay \in [Channels \cup {CCH} -> DccDelays]
    /\ mGenCam = [s \in Senders |-> DefaultInterval]
    /\ mGenCamLowDynamicsCounter = [s \in Senders |-> 0]
    /\ mLastCamDynamics = [s \in Senders |-> NoDynamics]
    /\ mLastCamTimestamp = [s \in Senders |-> 0]
    /\ mLastLowCamTimestamp = LowCamAtStart
    /\ lastContainer = [s \in Senders |-> 0]

AtMost(a, b) == IF a < b THEN a ELSE b
AtLeast(a, b) == IF a > b THEN a ELSE b

(* Mutant of genCamDcc: the upper boundary is forgotten. *)
genCamDccUnbounded(channel) == AtLeast(MinInterval, trcDelay[channel])

(* genCamDcc: the delay of the rate throttle within the boundaries.  There *)
(* is an interface, so it does not throw for want of one.                  *)
genCamDcc(channel) ==
    AtMost(MaxInterval, AtLeast(MinInterval, trcDelay[channel]))

(* mPrimaryChannel is the control channel: initialize looks up the primary *)
(* channel of CA but stores it in a local variable of the same name.       *)
mPrimaryChannel == CCH

T_GenCamDcc ==
    IF WithDccRestriction THEN genCamDcc(mPrimaryChannel) ELSE MinInterval

T_elapsed(s) == now - mLastCamTimestamp[s]

(* checkHeadingDelta, checkPositionDelta or checkSpeedDelta *)
checkDelta(s) == mLastCamDynamics[s] # dynamics[s]

(* The CAM sent now has a low frequency container.                         *)
LowFrequencyDue(s) == now - mLastLowCamTimestamp[s] >= LowFrequencyInterval

(* Mutant of sendCam: the time is taken for every CAM.                     *)
sendCamTimed(s) ==
    /\ mLastCamDynamics' = [mLastCamDynamics EXCEPT ![s] = dynamics[s]]
    /\ mLastCamTimestamp' = [mLastCamTimestamp EXCEPT ![s] = now]
    /\ mLastLowCamTimestamp' = [mLastLowCamTimestamp EXCEPT ![s] = now]

(* sendCam: what the service remembers of the CAM it sends.                *)
sendCam(s) ==
    /\ mLastCamDynamics' = [mLastCamDynamics EXCEPT ![s] = dynamics[s]]
    /\ mLastCamTimestamp' = [mLastCamTimestamp EXCEPT ![s] = now]
    /\ mLastLowCamTimestamp' = [mLastLowCamTimestamp EXCEPT ![s] =
                                  IF LowFrequencyDue(s) THEN now ELSE @]

(* A change of the dynamics sets the pace for the CAMs to come ...         *)
AdaptToDynamics(s) ==
    /\ mGenCam' = [mGenCam EXCEPT ![s] = AtMost(T_elapsed(s), MaxInterval)]
    /\ mGenCamLowDynamicsCounter' = [mGenCamLowDynamicsCounter EXCEPT ![s] = 0]

(* ... until LowDynamicsLimit of them went out without another change.     *)
CountLowDynamics(s) ==
    LET count == mGenCamLowDynamicsCounter[s] + 1
    IN  /\ mGenCamLowDynamicsCounter' =
             [mGenCamLowDynamicsCounter EXCEPT ![s] = count]
        /\ mGenCam' = [mGenCam EXCEPT ![s] =
                         IF count >= LowDynamicsLimit THEN MaxInterval ELSE @]

(* checkTriggeringConditions: whether a CAM is generated now ...           *)
CamDue(s) ==
    /\ T_elapsed(s) >= T_GenCamDcc
    /\ FixedRate \/ checkDelta(s) \/ T_elapsed(s) >= mGenCam[s]

(* ... and what is done when it is.                                        *)
GenerateCam(s) ==
    /\ sendCam(s)
    /\ IF FixedRate THEN UNCHANGED <<mGenCam, mGenCamLowDynamicsCounter>>
       ELSE IF checkDelta(s) THEN AdaptToDynamics(s)
       ELSE CountLowDynamics(s)
=============================================================================
