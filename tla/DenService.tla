----------------------------- MODULE DenService -----------------------------
(***************************************************************************)
(* Decentralized environmental notification from end to end: the DenService*)
(* of every station with its use cases (src/src/artery/application/        *)
(* DenService.cc and den/), its memory of received messages, and the radio.*)
(*                                                                         *)
(* The radio (external) repeats a DENM as long as its request asks for, so *)
(* a message may be received any number of times, in any order, by any     *)
(* station, its sender included, or by nobody.  Stations outside of the    *)
(* simulation, such as a device under test, send DENMs of their own and    *)
(* updates of them.  Positions, headings and the other contents of a DENM  *)
(* are left out: no decision depends on them.                              *)
(***************************************************************************)
EXTENDS Timer, DenMemory, Sampling

CONSTANTS
    Stations,           \* stations running a DenService
    UseCaseConfig,      \* applicable use cases of every station, as configured
    Parked,             \* stations that stand still
    Speeds,             \* speeds of the others, zero included
    Neighbours,         \* stations whose CAMs may be in the LocalDynamicMap
    Reach,              \* who receives whom
    Directed,           \* stations whose storyboard triggers exchanges
    Foreign,            \* stations outside of the simulation
    ForeignActions,     \* sequence numbers they use
    ForeignValidities, ForeignCauses,   \* what they say about an event
    SequenceModulus,    \* 2^16
    nonUrbanEnvironment, sampleDuration, sampleInterval,   \* NED parameters
    targetVelocity, initialVelocity,    \* thresholds: 30 and 80 km/h ...
    instantDecel,                       \* ... and 3.5 m/s^2
    averageWindow, stationaryWindow, minWindow,     \* 120, 30 and 10 s
    JamQuorum,          \* 5, DENMs or slow vehicles that make up a jam
    validityDuration,   \* of the messages of every use case: 20, 60 and 2 s
    UpdateInterval,     \* period of the middleware
    StepLength,         \* period of the traffic simulation
    MaxTime,            \* bound: time
    AirLimit            \* bound: DENMs on the air

EndOfQueue == "TrafficJamEndOfQueue"
Ahead == "TrafficJamAhead"
Impact == "ImpactReductionContainerExchange"
TrafficJam == {EndOfQueue, Ahead}
UseCases == TrafficJam \cup {Impact}

(* CauseCode: a message without a situation container has code zero.       *)
Causes == {"TrafficCondition", "DangerousEndOfQueue", "CollisionRisk", "None"}

ASSUME DenServiceAssumption ==
    /\ Parked \subseteq Stations /\ Stations \cap Foreign = {}
    /\ UseCaseConfig \in [Stations -> Seq(UseCases)]
    /\ Reach \subseteq (Stations \cup Foreign) \X Stations
    /\ Speeds \subseteq Nat /\ 0 \in Speeds
    /\ ForeignCauses \subseteq Causes
    /\ SequenceModulus \in Nat \ {0} /\ ForeignActions \subseteq Nat
    /\ ForeignValidities \subseteq Nat /\ validityDuration \in [UseCases -> Nat]
    /\ MaxTime \in Nat
    /\ nonUrbanEnvironment \in BOOLEAN
    /\ sampleDuration \in [TrafficJam -> Nat]
    /\ sampleInterval \in [TrafficJam -> Nat \ {0}]
    /\ UpdateInterval \in Nat \ {0} /\ StepLength \in Nat \ {0}

VARIABLES
    now,
    speed, updated,     \* VehicleDataProvider of every station, its update
    cams,               \* neighbours that are close, slow and heading alike
    nextUpdate,         \* arrival of the middleware's update message
    mMemory,
    mSequenceNumber,
    mVelocitySampler,   \* buffer of the traffic jam use cases
    mDetectionBlockingSince,
    mPendingRequest,
    air,                \* DENMs that are being repeated on the radio
    newest              \* history: newest message ever received about an action

denVars == <<mMemory, mSequenceNumber, mVelocitySampler,
             mDetectionBlockingSince, mPendingRequest, newest>>
vars == <<now, speed, updated, cams, nextUpdate, denVars, air>>

(* requestResponseIndication of the impact reduction container.            *)
Indications == {"request", "response", Unset}

Denms ==
    [station : Stations \cup Foreign,
     sequence : 0..(SequenceModulus - 1) \cup ForeignActions,
     detectionTime : Nat, referenceTime : Nat, validity : Nat \cup {Unset},
     cause : Causes, indication : Indications]

(* initUseCases: use cases are put at the front of the list.               *)
mUseCases(s) == Reverse(UseCaseConfig[s])

Runs(s, u) == u \in Range(UseCaseConfig[s])

Init ==
    /\ now = 0
    /\ speed \in [Stations -> Speeds] /\ \A s \in Parked : speed[s] = 0
    /\ updated = 0
    /\ cams \in SUBSET Neighbours
    /\ nextUpdate \in [Stations -> UpdateInterval..(2 * UpdateInterval - 1)]
    /\ mMemory = [s \in Stations |-> {}]
    /\ mSequenceNumber = [s \in Stations |-> 0]
    /\ mVelocitySampler = [s \in Stations |-> [u \in TrafficJam |-> << >>]]
    /\ mDetectionBlockingSince = [s \in Stations |-> [u \in TrafficJam |-> Unset]]
    /\ mPendingRequest = [s \in Stations |-> FALSE]
    /\ air = {}
    /\ newest = [s \in Stations |-> {}]

-----------------------------------------------------------------------------
(* Surroundings: time, traffic, neighbours and radio.                      *)

StepDue == now % StepLength = 0 /\ updated < now

Tick ==
    /\ now < MaxTime
    /\ ~ StepDue /\ \A s \in Stations : nextUpdate[s] > now
    /\ now' = now + 1
    /\ UNCHANGED <<speed, updated, cams, nextUpdate, denVars, air>>

(* VehicleMiddleware::receiveSignal and VehicleDataProvider::update of all *)
(* stations, one after the other in one step of the traffic simulation.    *)
Move ==
    /\ StepDue
    /\ speed' \in [Stations -> Speeds] /\ \A s \in Parked : speed'[s] = 0
    /\ updated' = now
    /\ cams' \in SUBSET Neighbours
    /\ UNCHANGED <<now, nextUpdate, denVars, air>>

(* The radio takes new messages while it has room, and loses others.       *)
Aired(messages) ==
    IF Cardinality(air \cup messages) <= AirLimit THEN air \cup messages ELSE air

(* The last repetition of a message is over.                               *)
Vanish(d) ==
    /\ air' = air \ {d}
    /\ UNCHANGED <<now, speed, updated, cams, nextUpdate, denVars>>

(* A foreign station warns of an event, or updates an earlier warning: the *)
(* reference time moves on and the event may be detected anew.             *)
ForeignSend(f, action) ==
    \E v \in ForeignValidities \cup {Unset}, c \in ForeignCauses :
        LET d == [station |-> f, sequence |-> action,
                  detectionTime |-> TaiFor(now), referenceTime |-> TaiFor(now),
                  validity |-> v, cause |-> c, indication |-> Unset]
        IN  /\ \A e \in air \cup UNION {newest[s] : s \in Stations} :
                 SameAction(d, e) => e.referenceTime < d.referenceTime
            /\ air' = Aired({d}) /\ air' # air
            /\ UNCHANGED <<now, speed, updated, cams, nextUpdate, denVars>>

-----------------------------------------------------------------------------
(* Triggering conditions of the use cases.                                 *)

(* The speed sample a traffic jam use case takes when it is checked.       *)
Fed(s, u) ==
    FeedSample(mVelocitySampler[s][u], sampleDuration[u], sampleInterval[u],
               [value |-> speed[s], timestamp |-> updated])

(* Samples above the initial velocity, apart from the latest sample; the   *)
(* newest of them is the one the deceleration is computed from.            *)
InitialVelocities(buffer) ==
    {i \in 2..Len(buffer) : buffer[i].value >= initialVelocity}

(* checkEgoDeceleration *)
checkEgoDeceleration(buffer) ==
    /\ buffer # << >> /\ buffer[1].value <= targetVelocity
    /\ InitialVelocities(buffer) # {}
    /\ LET i == CHOOSE j \in InitialVelocities(buffer) :
                  \A k \in InitialVelocities(buffer) : j <= k
       IN  buffer[i].value - buffer[1].value >
             instantDecel * (buffer[1].timestamp - buffer[i].timestamp)

(* checkLowAverageEgoVelocity *)
checkLowAverageEgoVelocity(buffer) ==
    LET range == SamplesAfter(buffer, now - averageWindow)
    IN  /\ SampledTime(range) >= minWindow
        /\ SampleSum(range) <= targetVelocity * Len(range)
        /\ SampleSum(range) > 0

(* checkStationaryEgo *)
checkStationaryEgo(buffer) ==
    LET range == SamplesAfter(buffer, now - stationaryWindow)
    IN  SampledTime(range) >= minWindow /\ SampleSum(range) <= 0

(* checkSlowVehiclesAheadByV2X *)
checkSlowVehiclesAheadByV2X == Cardinality(cams) >= JamQuorum

(* TrafficJamEndOfQueue::checkConditions, without the conditions that the  *)
(* code fixes to false.                                                    *)
checkEndOfQueue(buffer, memory) ==
    /\ checkEgoDeceleration(buffer)
    /\ \/ countDenms(memory, "DangerousEndOfQueue") >= 1
       \/ countDenms(memory, "TrafficCondition") >= JamQuorum

(* TrafficJamAhead::checkConditions, likewise.                             *)
checkAhead(buffer, memory) ==
    \/ checkLowAverageEgoVelocity(buffer)
    \/ /\ checkStationaryEgo(buffer)
       /\ \/ countDenms(memory, "TrafficCondition") >= 1
          \/ checkSlowVehiclesAheadByV2X

(* TrafficJamEndOfQueue::initialize and TrafficJamAhead::initialize call   *)
(* UseCase::initialize; SuspendableUseCase::initialize, which would read   *)
(* the parameter, is not called, and the member stays zero.                *)
mDetectionBlockingInterval(u) == 0

isDetectionBlocked(s, u) ==
    /\ mDetectionBlockingSince[s][u] # Unset
    /\ mDetectionBlockingSince[s][u] + mDetectionBlockingInterval(u) >= now

(* check() of use case u, after the memory has dropped expired messages:   *)
(* does it send a message?                                                 *)
Sends(s, u, memory) ==
    \/ /\ u \in TrafficJam /\ ~ isDetectionBlocked(s, u)
       /\ nonUrbanEnvironment
       /\ \/ u = EndOfQueue /\ checkEndOfQueue(Fed(s, u), memory)
          \/ u = Ahead /\ checkAhead(Fed(s, u), memory)
    \/ u = Impact /\ mPendingRequest[s]

(* requestActionID: the i-th sequence number from now.                     *)
ActionSequence(s, i) == (mSequenceNumber[s] + i) % SequenceModulus

(* createMessageSkeleton: the i-th message a station sends in a step.      *)
createMessageSkeleton(s, i) ==
    [station |-> s, sequence |-> ActionSequence(s, i),
     detectionTime |-> TaiFor(updated), referenceTime |-> TaiFor(updated),
     validity |-> Unset, cause |-> "None", indication |-> Unset]

(* createMessage of the three use cases.                                   *)
EndOfQueueMessage(s, i) ==
    [createMessageSkeleton(s, i) EXCEPT !.validity = validityDuration[EndOfQueue],
                                        !.cause = "DangerousEndOfQueue"]
AheadMessage(s, i) ==
    [createMessageSkeleton(s, i) EXCEPT !.validity = validityDuration[Ahead],
                                        !.cause = "TrafficCondition"]
ImpactMessage(s, i, ind) ==
    [createMessageSkeleton(s, i) EXCEPT !.validity = validityDuration[Impact],
                                        !.cause = "CollisionRisk",
                                        !.indication = ind]

Message(s, i, u) ==
    CASE u = EndOfQueue -> EndOfQueueMessage(s, i)
      [] u = Ahead -> AheadMessage(s, i)
      [] u = Impact -> ImpactMessage(s, i, "request")

-----------------------------------------------------------------------------
(* Operations of the service.                                              *)

(* Mutant of MemoryChecked: the use cases look at the memory as it was     *)
(* before it dropped what has expired.                                     *)
MemoryUnchecked(s) == mMemory[s]

(* What the use cases find in the memory when they are checked.            *)
MemoryChecked(s) == dropDenms(mMemory[s], TaiFor(now))

(* DenService::trigger, and the middleware schedules the next one.  Events *)
(* of the same time keep their order of insertion: a step of the traffic   *)
(* simulation that is due then always comes first.                         *)
trigger(s) ==
    LET Case(j) == mUseCases(s)[j]
        sending == {j \in 1..Len(mUseCases(s)) : Sends(s, Case(j), MemoryChecked(s))}
        senders == {Case(j) : j \in sending}
        Number(j) == Cardinality({k \in sending : k <= j})
    IN  /\ nextUpdate[s] = now /\ ~ StepDue
        /\ nextUpdate' = [nextUpdate EXCEPT ![s] = now + UpdateInterval]
        /\ mMemory' = [mMemory EXCEPT ![s] = dropDenms(@, TaiFor(now))]
        /\ mVelocitySampler' = [mVelocitySampler EXCEPT ![s] =
             [u \in TrafficJam |-> IF Runs(s, u) THEN Fed(s, u) ELSE @[u]]]
        /\ mDetectionBlockingSince' = [mDetectionBlockingSince EXCEPT ![s] =
             [u \in TrafficJam |->
                IF u \in senders THEN now
                ELSE IF isDetectionBlocked(s, u) THEN @[u] ELSE Unset]]
        /\ mPendingRequest' = [mPendingRequest EXCEPT ![s] =
             @ /\ Impact \notin senders]
        /\ mSequenceNumber' = [mSequenceNumber EXCEPT ![s] =
             ActionSequence(s, Cardinality(sending))]
        /\ air' = Aired({Message(s, Number(j), Case(j)) : j \in sending})
        /\ UNCHANGED <<now, speed, updated, cams, newest>>

(* Mutant of Answers: responses are answered like requests.                *)
AnswersAll(s, denm) == Runs(s, Impact) /\ denm.indication # Unset

(* ImpactReductionContainerExchange::indicate *)
Answers(s, denm) == Runs(s, Impact) /\ denm.indication = "request"

(* indicate ignores the messages of the own station.                       *)
Heeds(s, denm) == denm.station # s

(* DenService::indicate *)
indicate(s, denm) ==
    /\ <<denm.station, s>> \in Reach /\ Heeds(s, denm)
    /\ mMemory' = [mMemory EXCEPT ![s] = receivedDenm(@, denm)]
    /\ newest' = [newest EXCEPT ![s] =
         LET older == {d \in @ : SameAction(d, denm)
                                 /\ d.referenceTime < denm.referenceTime}
         IN  IF \E d \in @ \ older : SameAction(d, denm)
               THEN @ ELSE (@ \ older) \cup {denm}]
    /\ IF Answers(s, denm)
         THEN /\ mSequenceNumber' =
                   [mSequenceNumber EXCEPT ![s] = ActionSequence(s, 1)]
              /\ air' = Aired({ImpactMessage(s, 1, "response")})
         ELSE UNCHANGED <<mSequenceNumber, air>>
    /\ UNCHANGED <<now, speed, updated, cams, nextUpdate, mVelocitySampler,
                   mDetectionBlockingSince, mPendingRequest>>

(* DenService::receiveSignal and handleStoryboardTrigger with cause "irc". *)
receiveSignal(s) ==
    /\ s \in Directed /\ Runs(s, Impact)
    /\ mPendingRequest' = [mPendingRequest EXCEPT ![s] = TRUE]
    /\ UNCHANGED <<now, speed, updated, cams, nextUpdate, mMemory,
                   mSequenceNumber, mVelocitySampler, mDetectionBlockingSince,
                   air, newest>>

Next ==
    \/ Tick \/ Move
    \/ \E d \in air : Vanish(d) \/ \E s \in Stations : indicate(s, d)
    \/ \E f \in Foreign, a \in ForeignActions : ForeignSend(f, a)
    \/ \E s \in Stations : trigger(s) \/ receiveSignal(s)

(* createRequest limits the time of repetition.                            *)
RepetitionEnds(s, n, ind) ==
    \E d \in air : /\ d.station = s /\ d.sequence = n /\ d.indication = ind
                  /\ Vanish(d)

Fairness ==
    \A s \in Stations, n \in 0..(SequenceModulus - 1) :
        \A ind \in {"request", "response"} : WF_vars(RepetitionEnds(s, n, ind))

Spec == Init /\ [][Next]_vars /\ Fairness

-----------------------------------------------------------------------------
(* Types of the variables; in particular no message about an action is     *)
(* stored twice and no buffer of samples exceeds its capacity.             *)
Samples == [value : Speeds, timestamp : 0..MaxTime]

TypeOK ==
    /\ now \in 0..MaxTime /\ updated \in 0..now
    /\ speed \in [Stations -> Speeds]
    /\ cams \subseteq Neighbours
    /\ nextUpdate \in [Stations -> now..(MaxTime + 2 * UpdateInterval)]
    /\ mSequenceNumber \in [Stations -> 0..(SequenceModulus - 1)]
    /\ mPendingRequest \in [Stations -> BOOLEAN]
    /\ air \subseteq Denms
    /\ mMemory \in [Stations -> SUBSET Denms] /\ newest \in [Stations -> SUBSET Denms]
    /\ mDetectionBlockingSince \in [Stations -> [TrafficJam -> 0..MaxTime \cup {Unset}]]
    /\ mVelocitySampler \in [Stations -> [TrafficJam -> Seq(Samples)]]
    /\ \A s \in Stations :
         /\ \A d, e \in mMemory[s] : SameAction(d, e) => d = e
         /\ \A u \in TrafficJam : Len(mVelocitySampler[s][u]) <=
                SampleCapacity(sampleDuration[u], sampleInterval[u])

(* Whatever the order, the number and the delay of its copies: while the   *)
(* newest message received about an action is valid, the memory holds it.  *)
NewestWarningKept ==
    \A s \in Stations : \A d \in newest[s] :
        DenmExpiry(d) >= TaiFor(now) => d \in mMemory[s]

(* Messages of other stations that are valid now and have the given cause. *)
Grounds(s, cause) ==
    {d \in mMemory[s] : /\ d.cause = cause /\ d.station # s
                        /\ DenmExpiry(d) >= TaiFor(now)}

(* What a station must know to warn of the end of a queue ...              *)
QueueGrounded(s) ==
    \/ Grounds(s, "DangerousEndOfQueue") # {}
    \/ Cardinality(Grounds(s, "TrafficCondition")) >= JamQuorum

(* ... and, if it has been standing all the time, of a jam ahead.          *)
JamGrounded(s) ==
    (\A k \in DOMAIN mVelocitySampler'[s][Ahead] : mVelocitySampler'[s][Ahead][k].value = 0) =>
        Grounds(s, "TrafficCondition") # {} \/ Cardinality(cams) >= JamQuorum

(* New warnings of a station of either kind have their grounds.            *)
NewWarnings(cause) == {d \in air' \ air : d.station \in Stations /\ d.cause = cause}
QueueWarnings == \A d \in NewWarnings("DangerousEndOfQueue") : QueueGrounded(d.station)
JamWarnings == \A d \in NewWarnings("TrafficCondition") : JamGrounded(d.station)

(* A station passes a warning on only on grounds that still hold and that  *)
(* come from others: expired warnings and the echo of its own ones do not  *)
(* keep a jam alive (Memory::drop before check, station ID in indicate).   *)
WarningsGrounded == [][QueueWarnings /\ JamWarnings]_vars

(* An exchange of impact reduction containers comes to an end: a response  *)
(* does not provoke another one.                                           *)
ExchangeSettles == <>[](\A d \in air : d.indication = Unset)
=============================================================================
