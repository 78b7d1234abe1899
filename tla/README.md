# A TLA+ model of Artery

Artery is a V2X simulation framework: OMNeT++ modules that couple the traffic
simulator SUMO (over TraCI) with ETSI ITS-G5 protocol stacks (Vanetza) and with
services that run on simulated vehicles.  This directory holds TLA+ modules
for the parts of Artery's own code that carry state over time, the TLC
configurations that check them on small instances, and proofs checked by TLAPS.

Artery's own code is `src/src/traci` (the TraCI client, with the copy of SUMO's
client library it is built on under `src/src/traci/sumo`) and `src/src/artery`
(everything else).  `src/extern` (INET, Veins, Vanetza, SimuLTE), scenarios, build
files and images are third party code or data and are left out, with one exception:
the parts of the vendored Vanetza that Artery's runtime and congestion control set
going (`ManualRuntime`, the router's beacons and repeater, flow control) are modelled
from their source, since `Runtime` cannot be understood without its callbacks.

OMNeT++ runs modules in one thread: a message handler together with every
method it calls and every signal listener it triggers is one indivisible step,
and steps are ordered by simulation time.  So "concurrency" in this code is
mostly the order of events of different modules, of signals and of what SUMO
reports.  Real threads exist only in `testbed` (the USRP receive thread) and,
at the level of asynchronous callbacks, in `transfusion`.

## Inventory

| Component | State it keeps | Operations | Interacts with | What is hard |
|---|---|---|---|---|
| `traci::Core` | connect and update event, update interval, self stopping | connect, version check, time sync, step, close | SUMO (TCP), launcher, listeners by signals `traci.init/step/close` | time of two simulators must agree; when to stop |
| `traci::BasicSubscriptionManager`, `VariableCache` | subscribed ids and variables, one cache per id | subscribe, step, cache get | SUMO, node manager, services | variables and vehicles may come in either order; stale cached values; ids used again |
| `traci::BasicNodeManager` | `m_nodes`, `m_vehicles`, node index | add, update, remove vehicle, close | OMNeT++ modules, module mapper | raw pointers into modules that are deleted |
| `traci::InsertionDelayNodeManager` | queue of pending insertions, one timer | as above, plus the timer | as above | a vehicle leaves while it waits; timer and step at the same time |
| `traci::TestbedNodeManager`, module mappers | twin id | choose the module type | node manager | - |
| launchers (`PosixLauncher`, `ConnectLauncher`), `API::connect` | pid, port | launch, kill, connect with retries | operating system | SUMO listens late or never, retry limit |
| `TraCIAPI`, its scopes, `tcpip::Storage`, `tcpip::Socket` | socket, input buffer, subscription results per scope | get, set, subscribe, step, close | SUMO (TCP) | lengths and types of every message, answers in pieces, refusals, a SUMO that ends |
| `artery::IdentityRegistry`, `Identity` | identities by TraCI id and station id | update, remove | all middleware instances | changes of only a part of an identity, identifiers used again |
| `artery::Middleware`, `VehicleMiddleware`, `StationaryMiddleware`, transport dispatcher, multi-channel policy | services, listeners per channel and BTP port, network interfaces, update timer | start, update, transmit, dispatch | router, services, facilities | one packet for several interfaces or services; frames before the channel is known |
| `artery::VehicleDataProvider`, `Timer` | last update and derived values | update, time stamp conversions | services | wrap around of 16 bit time stamps |
| `artery::CaService`, `LocalDynamicMap` | last CAM values and time stamps, CAMs by station | trigger, send, receive, expire | DCC, middleware | generation interval rules; old CAMs after new ones |
| `artery::DenService`, `den::Memory`, use cases | received and own DENMs, detection state | check, trigger, receive, expire | CAMs, story board | detection blocking, expiry |
| `artery::GlobalEnvironmentModel`, `LocalEnvironmentModel`, sensors | object database, tracked objects per sensor | add, update, remove, refresh; detect, expire | node manager signals, CaService signals | weak references, preselection in sync with the database, expiry |
| `artery::Storyboard`, `EffectStack` | stories, effect stacks per car | evaluate, apply, remove effects | node manager signals, vehicle controller | effects of several stories end in any order |
| `artery::Router`, `Runtime`, position providers | Vanetza router and callbacks, address, clock | transmit, indicate, schedule, cancel, now | radio drivers, middleware | one event for many callbacks, a clock that is stale between updates |
| DCC entities, `ChannelLoadMeasurements`, `VanetRx` | rate control, samples or periods of a busy medium | report, measure | radio drivers, Vanetza | a sliding window that is only touched by events |
| `artery::AsioScheduler`, `TransfusionService` | base time, flux state, socket buffers | take next event, read, write | wall clock, TCP peer | stream framing; waiting for whichever comes first |
| testbed (`TestbedScheduler`, `OtaIndicationQueue`, `OtaInterface*`) | packet list, flags, registered twin | trigger, flush, wait, register | USRP receive thread, wall clock | two threads, timeouts, late simulation |
| channel models (`inet`, `veins`), `gemv2`, visualisation, GUI | - | physics and drawing | INET, Veins | numerical models, left to their own tests |

The properties that make each component correct are stated below, with the run
or theorem that shows them; the hazards they answer are listed with their lines
in `PROJECT.json`.

## Modules

| Module | Models | Used by |
|---|---|---|
| `Sumo` | what SUMO answers over TraCI (external) | TraCI modules |
| `SubscriptionManager` | `BasicSubscriptionManager`, `VariableCache` | `TraciCore` |
| `NodeManager` | `BasicNodeManager` | `TraciCore` |
| `TraciCore` | `Core`, and properties common to both node managers | next two |
| `TraciBasic` | core, subscriptions and `BasicNodeManager` together | `MCTraciBasic` |
| `TraciDelayed` | the same with `InsertionDelayNodeManager` | `MCTraciDelayed` |
| `VehicleMirror` | abstract: what a node manager promises | refined by both |
| `TraCIConstants`, `TraCIValues`, `Storage`, `TraCIScopes`, `TraCIInterface` | constants, values, byte encodings, the methods of all scopes and their declarations | `TraCIAPI` |
| `TraCIAPI` | requests, answers, subscriptions, socket, launchers, and SUMO's side (external) | `TraCIClient` |
| `TraCIClient` | client and server together, properties | `MCTraCIClient` |
| `Timer`, `CaService` | `artery::Timer`, CAM generation | `CooperativeAwareness` |
| `CooperativeAwareness` | middleware update cycle, `CaService`, radio, `LocalDynamicMap` | `CooperativeAwareness.cfg` |
| `Sampling`, `DenMemory` | sample buffers and `den::Memory`, pure | `DenService` |
| `DenService` | `DenService` and its use cases on several stations | `MCDenService` |
| `Dispatching` | channels, policy, interface table, hand-over loops, filters, pure | `Station` |
| `Station` | middleware, router, identities and registry of several stations | `MCStation` |
| `Runtime` | `artery::Runtime` around Vanetza's `ManualRuntime`, pure | `Access` |
| `Access` | router, repeater, flow control and position fixes of one vehicle, down to the calls that run callbacks | `MCAccess` |
| `ChannelLoad` | the channel load measured and reported by the receiver for INET | `ChannelLoad.cfg` |
| `EnvironmentModel` | global and local environment model, radar and CAM sensor | `MCEnvironmentModel` |
| `Storyboard` | storyboard, effect stacks, speed effects | `MCStoryboard` |
| `Testbed` | `TestbedScheduler`, `OtaIndicationQueue`, `OtaInterfaceUsrp`, `UsrpConnection` | `Testbed.cfg` |
| `DutLink` | abstract: what the testbed promises a device under test | refined by `Testbed` |
| `TraciProofs` | theorems about the TraCI core with either node manager | - |
| `CooperativeAwarenessProofs`, `EnvironmentModelProofs`, `TestbedProofs`, `DenServiceProofs`, `StationProofs`, `AccessProofs`, `StoryboardProofs` | theorems about these components | - |

### TraCI: `Sumo`, `SubscriptionManager`, `NodeManager`, `TraciCore`

One OMNeT++ event is one action: `Connect` is the handler of the connect event
with the listeners of `traci.init`, `Update` the handler of the update event with
`BasicSubscriptionManager::step` first and `BasicNodeManager::traciStep` after
it, `Finish` is `Core::finish`.  In between services read variables
(`ReadVariable`) and ask for more of them (`SubscribeMore`).  `TraciDelayed` adds
`Insert`, the handler of the insertion timer, which may fall before or after an
update of the same time.  Actions and properties of which both systems have their
own version are called `BasicConnect`, `BasicUpdate` and so on in `TraciBasic`.

A TraCI value is represented by the SUMO time at which it was produced, so that
"stale" can be said; a node by its index, so that a node can be told from a
later one of the same vehicle.  Which vehicles get a node (the module mapper) is
any choice.  SUMO lets any running vehicles arrive or teleport and any others
depart in a step.  One assumption is made of it: an identifier departs
again only in a later step than the one in which it arrived.  `StartTime` is a
multiple of the step length, as SUMO demands of `simulationStep(time)`.

Properties: `SubscriptionsComplete` (running vehicles are subscribed, with all variables),
`CachesFresh` and `SinksCurrent` (no value of an earlier step or vehicle is
read or shown), `SinksOwned` (no dangling sink), `BasicNothingLeftBehind` (self
stopping), `MirrorsTraffic` and `BasicMirrorsTraffic` (refinement of
`VehicleMirror`); with delayed
insertion also `InsertionArmed` (the two assertions of the code) and the liveness
property `QueueDrains`.  `TimeInSync` (the clocks agree when caches are read),
`VehiclesMirrored`, `BasicVehiclesMirrored`, `NothingLeftBehind` and `NodesStable`
(an action property) are proved as well.

### TraCI client: `Storage` to `TraCIClient`

`TraCIScopes` lists every method of the fifteen scopes that is one request, with the
command and variable it names, how its arguments are encoded and how its result is
decoded; `TraCIInterface` has the result types that the header declares.  Polygons
have no point, one, two, or 256, where the long form of their number begins; other
lists have one element.  Three methods make several requests (`Composites`):
`VehicleScope::add` asks for the time first when the vehicle is to depart now,
`VehicleScope::rerouteTraveltime` asks for all edges and sets the weight of each, and
`PersonScope::removeStages` removes stages until SUMO tells of at most one.  They are
sequences of calls, `todo` is what is left of them, and `Rest` unfolds their loops when
the value they depend on has arrived.  A call is sent
as the bytes that the code writes (`createCommand`, lengths in the short and in
the long form) and SUMO's answer is decoded from bytes; every value has one of two
contents, so that an answer can be told from the one of the step before.
A value that does not fit into a byte (`OutOfRange`) is the exception of
`writeByte` and `writeUnsignedByte`: such a request is never sent (`Unwritable`).
`LaunchProcess`, `LaunchNothing`, `Connect`, `Begin`, `Receive`, `Return`, `GoOn` and
`Kill` are the program's steps; `Receive` is one `recv`, which returns any part of what
was asked for.  `Kill` sends SIGINT, which SUMO was started to ignore: SUMO may go on
running.  SUMO (external) answers, refuses, answers with another type, or ends, also
when the client has received a part of its answer.

Properties: `RequestsWellFormed` (the lengths of every request are those of
its bytes, also at 255 and 256, and a server can tell the values of the payload by
their type codes), `AnswersTrue` (a getter returns what SUMO
answered to this call, of the right type, or throws), `InStep` (no byte of an
answer is left for the next call), `ResultsCurrent` (the scopes hold exactly what
the last step reported), `CallsEnd` (liveness: every method ends, the ones with several
requests too, given that a stage that SUMO has removed is gone).

Two limits: the payloads of `getDistance2D`, `getDistanceRoad`, `EdgeScope::setMaxSpeed`
and of empty polygons cannot be told by type codes, and `RequestsWellFormed` leaves them
out by name (`Bare`).  And the parts of a compound value are taken from the code that
reads them (`CompoundParts`), for SUMO's side as well: for compound values
`AnswersTrue` shows that they arrive whole and in order, not that SUMO sends these
parts.

### Cooperative awareness: `Timer`, `CaService`, `CooperativeAwareness`

`trigger` is the middleware's update of a sending station, with CaService's
triggering conditions and the transmission on all channels; `indicate` the
reception with `LocalDynamicMap::updateAwareness`; `dropExpired` the update of a
receiving station; `Move` a new state of the mobility; `Throttle` a new delay that
the DCC's `TransmitRateThrottle` gives, any of a set.  `genCamDcc` throws when the
primary channel has no interface with a rate throttle; the modelled stations have
one.  A CAM carries its time stamp and whether it has the low frequency container, the
content on which receivers or properties depend.  Position, heading and speed are one value, and two values
differ by more than the deltas exactly if they are not equal.  The radio keeps
CAMs of one channel in order and delays or loses them at will.  Time stamps are
taken modulo `Modulus`; the time base is at least one modulus, so that the
unsigned arithmetic of `reconstructMilliseconds` cannot wrap.  A CAM is on the air
for at most `MaxAge`, which may be longer than its lifetime and than half the
modulus, but leaves a lifetime to the full modulus (65 s in the code): a CAM
older than that would look like a new one to any receiver.

Properties: `NeverSilent` (the longest silence, whatever the vehicle does and DCC asks
for) and `ContainerRegular` of the sender, which says of the CAMs sent that one with a
low frequency container is never farther back than the container's interval and the
longest silence: `sendCam` compares times of CAMs that come irregularly, and a reset at
the wrong CAM would let the distance grow. `MapTruthful` (an
expiry is that of the true generation time) and `NewestKept` of the receiver.  `NewestKept` holds with one channel only: a copy
of an older CAM that comes late on a second channel replaces a newer entry, since
`updateAwareness` does not compare generation times.

### Environment model: `EnvironmentModel`

A TraCI step is split into its parts, because the order inside it is the point:
`BeginStep`, `addVehicle`*, `BeginRemoval`, `removeVehicle`*, `refresh`, and
then one `measurement` per local model, in any order.  `receiveCam` is the CAM
sensor between steps, `clear` the end of the simulation.  Objects are what
`std::shared_ptr`s point to; an object is owned by the database and by the last
detection of the radars, and `weak_ptr::expired` is "nobody owns it".  Which of
the preselected objects a radar sees is any choice: geometry and obstacles only
narrow it.

Properties: `TypeOK` (which includes that no detection or tracking holds a null
object), `RefreshConsistent`, `DisplaySafe`, `GhostsShortLived`, `TrackingKept`
(action property).

### Storyboard: `Storyboard`

`updateStoryboard` begins a pass over all cars and stories, `checkCar` treats
one pair; conditions may give any result.  The `agenda` is the set of pairs still to
come: a car's stories in order, the cars in any order.  `removeEffectsByStory` takes
the effects it found off one after the other, the lowest first.  Effects are `SpeedEffect`s.  The
vehicle cache is part of the model, since `setMaxSpeed` does not write it and
`getMaxSpeed` reads through it.  Stacks are kept by address, and addresses are
used again.

Properties: `StoriesMatchConditions`, `StoriesInOrder`; `RestoredWhenDone` does
not hold (below).

### Testbed: `Testbed`, `DutLink`

The two threads interleave at every lock of `OtaIndicationQueue`'s mutex:
`Answer` and `Trigger` are the library's thread, `Poll`, `TakeNextEvent`,
`DoTiming`, `WaitFor`, `Timeout`, `LookAgain`, `ExecutePacket` and `ExecuteWork`
the simulation's, `Tick` the wall clock and `ExecutionResumed` the user.  Only
differences of times matter to the code, so the state has the lead of the
simulation over the wall clock.  There is at most one twin at a time
(`TestbedModuleMapper` maps one vehicle identifier), but a second one may follow
the first.

In `DutLink` packets are numbers and those underway a set: the twin hears the
oldest of them, always a later one than before, and what a leaving twin loses is
older than what is left.

Properties: `NoSleepOnPackets` (no lost wake-up), `LinkKept` (refinement of
`DutLink`), `OnTimeWithTwin`, `SimulationProceeds`, `PacketsTaken`.

### Decentralized notification: `Sampling`, `DenMemory`, `DenService`

`trigger` is the middleware's update of a station: expired messages are dropped,
then every use case checks its conditions and may send.  `indicate` is the
reception with `Memory::received`, `receiveSignal` a story that triggers an
exchange of impact reduction containers, `Move` a step of the traffic simulation
with the samples of the own speed.  A station outside of the simulation
(`ForeignSend`) sends and updates its own; messages on the air are a set, so
they arrive in any order and any number of times until they vanish.
`RepetitionEnds` takes a repeated message off the air when its repetition
interval is over.  The sequence numbers of actions wrap at `SequenceModulus`.

Properties: `NewestWarningKept` (while the newest message ever received about an
action is valid the memory holds it; the history variable `newest` keeps it also
after it has expired), `WarningsGrounded` (action property: a jam warning rests on the own
speed and on valid warnings or slow vehicles of others, never on expired ones),
`ExchangeSettles` (liveness).

### Stations: `Dispatching`, `Station`

`Create` is the creation of a node, one event with all initialization stages in
the order of the modules in `Car.ned` and `RSU.ned`; `HandleProperties` the message
with which the radio driver tells the router its address and channel;
`RequestTransmission` and `RequestOn` are a service that sends, with and without
the multi-channel policy; `HandleData` is a frame on its way from the driver
through router and dispatcher to the services; `Finish` the end of a node.  The
medium delivers the frames of a sender to each radio on the channel
independently and loses any of them.  A `unique_ptr` is `Whole` until it is moved.
Regular expressions of filters are sets, penetration rates free choices.

The two loops that give a packet away, one pass per interface and one per listener,
are written in closed form: a pass gets the packet `Moved` when an earlier pass was
given the original.  The table's and the multimap's orders are arbitrary but fixed
(`SetToSeq`), and nothing depends on them.

Properties: `ListenersServed`, `ChannelsServed`, `RegistryTrue`.

### Access layer: `Runtime`, `Access`

Vanetza's functions ask the runtime for the time, schedule and cancel, and each of
these calls may run callbacks on the spot, in the middle of the function that makes it.
So a function is cut at these calls: `agenda` is the stack of what is left of the
functions that are running, the innermost on top, and `Execute` does what is on top.
`Trigger` is the loop of `ManualRuntime::trigger`, `Schedule` the private
`Runtime::schedule` with its loop over what is due, `CancelBeacon` and `StartBeacon`
the two halves of `Router::reset_beacon_timer`, `Add` is `Repeater::add`, `Request`
and `Decide` are `FlowControl::request` before and after the clock was set, and
`FlowTrigger` is `FlowControl::trigger`.  The events of the simulation push on an empty
agenda: `HandleUpdateEvent`, the runtime's own; `UpdatePosition`, which asks for the
time in every step of the traffic simulation; `Indicate`, a frame that is received;
`RequestShb` and `RequestGbc`, services that send; `ReportChannelLoad`, a step of the
rate control's state machine.

Flow control has one queue per access category with packets that expire
(`drop_expired`, at the beginning of both of its functions), a limit at which the oldest
packet is lost, and one callback for all.  The repeater keeps any number of packets up
to `MaxRepeated` and shortens what remains of the duration by the interval and by the
delay of the callback.  All times are relative to the current one, so the model has no
last moment.  Callbacks of equal time run in the order of their insertion.
`remove_if` in `drop_expired` reads the time, so a callback may run in the middle of
it and change the queue it works on; what the build then does is undefined and not
modelled.  In the model the clock is set, and what is due runs, just before
`drop_expired`.

The runtime converts due times with a clock that was set at the last update: the
wake-up event is late by the age of this clock, and every `cancel` and `schedule`
of a beacon postpones it again.  `CallbacksInTime` says that a callback is late by
less than a step of the traffic simulation and is never forgotten: the position
provider asks for the time in every step and so runs what is due.  It also says that
by the stale clock nothing is due, which is the assertion in `Runtime::now`.
`PacketsServed` says that packets in flow control have a callback waiting, although
packets expire, are replaced and overtaken (a callback may wait without a packet, when
all have expired).  `RepetitionsFit` says that no repetition is due after the duration
its request asked for, however late earlier ones were.  `UpdatesEnd` (liveness) says
that functions that run callbacks that run functions return.

### Channel load: `ChannelLoad`

`RecomputeMediumFree` is the medium becoming busy or idle below the driver for INET,
`ReportChannelLoad` the periodic report of `VanetRx`, which congestion control receives.
The sums in `reportChannelLoad` are recursive functions over the recorded periods, the
newest first.  `ObsoleteForgotten` says that a report counts nothing that has been over
for twice the window; the code does not keep it (below).  The measurement for Veins,
`ChannelLoadMeasurements`, fills the time up to the report with samples first; it is not
modelled.

## Runs and bounds

| Run | Instance | Shows |
|---|---|---|
| `traci_basic` | 2 vehicles, 2 variables, steps of 2 up to time 8, joining SUMO at 2, versions too old, right and wrong | all of the above for `BasicNodeManager` with vehicles destroyed on crash; enough for a vehicle to depart, crash, arrive and depart again beside another one |
| `traci_delayed` | 2 vehicles, delays 0 to 3 with steps of 2 up to time 6 | delays shorter than, equal to and longer than a step; fairness for `QueueDrains` |
| `awareness` | 1 sender, 1 receiver, modulus 16 with a carry inside the run, 18 ticks, CAMs on the air for up to 12, DCC delays 0 and 9, middleware period 2 against intervals 1 to 3 | sender and receiver properties on one channel; CAMs may be delayed past their lifetime and past half the modulus |
| `envmod` | 3 vehicles, 2 with a local model, 4 nodes altogether, steps of 2 up to time 6 | 3 are needed for a vehicle that leaves while two others refresh in either order; a fourth node uses an identifier again |
| `storyboard` | 2 cars at one address, 3 stories with 2, 1 and 2 effects, all conditions free | removal from top, middle and bottom of a stack, inherited stacks |
| `testbed` | 2 twins, 3 packets, event gaps 0 to 2, lag up to 2 | safety, refinement and liveness |
| `traci_client` | every method of every scope once, names of 0, 1, 248 and 249 bytes, polygons of 0, 1, 2 and 256 points, the three methods of several requests with 2 stages and up to 1 edge, variable and context subscriptions, answers whole or in pieces, ten attempts to connect | every request and decoder, both forms of the length, refusals and a SUMO that ends at any point, with a part of its answer received too |
| `den` | 2 stations and a foreign one, time up to 2 with validities of 1 and 3, sequence numbers modulo 2, 2 messages on the air | an action that is updated, that expires, and whose number is used again; jam warnings of either kind; exchanges that could answer each other |
| `station` | 3 vehicles of which two carry the same name one after the other, a road side unit with 2 radios, 4 services, channels by name and by number, 1 packet | two listeners on one port and tapping services; applications with two channels of which one may be missing; a name used again |
| `access` | with and without rate control, two states of it with intervals 1 and 2, two categories with queues of 1, lifetime 1, beacons every 3 or 4, 2 packets repeated every 2 within 5, steps of 3 | callbacks due before, at and after a step; several due at once that schedule others; packets that expire while they wait, are replaced by newer ones and overtaken; repetitions that a delay lets end early |
| `channel_load_inet`, `storyboard_restore` | smallest instances | disagreements, below |

Time bounds (`MaxTime`), numbers of packets, nodes, queued CAMs and changes per
step are named constants in the guards.  `MaxLag` does not stop the clock: lags
beyond it are not told apart.  Symmetry is used only in `traci_basic` and
`envmod`, which check no liveness property.  Deadlock checking is off in the
awareness, environment and notification runs, which stop at `MaxTime`, in
`station`, where in the end all vehicles are gone, and in `traci_client`, which
ends with its connection.

## Fairness

`TraciDelayed!FairSpec`: OMNeT++ executes the next event as long as there is
one, so `Connect`, `Update` and `Insert` together are weakly fair; the end of the
simulation and what services do are not.  `Testbed!FairSpec`: the operating
system lets the simulation's thread run (`Poll`, the scheduler's steps) and time
passes (`Tick`); the device under test need not send anything and the USRP need
not answer.  `PacketsTaken` has the premise that the scheduler reaches its wait
again and again: a simulation that is late for good does not look at the queue.

`TraCIClient!Fairness`: the program, which has one thread, goes on with what it
is doing (`Connect`, `Receive`, the end of a connection, `GoOn`, and `Return`, which is
written as `[]<>~Complete`), and a SUMO that runs answers; it may end at any time.
`DenService!Fairness`: the repetition of a DENM ends (`RepetitionEnds`), since its
request carries a maximum time; nothing else has to happen.  `Access!Spec`: a function
that is running goes on (`Execute`); no event of the simulation has to happen.

## Proofs

TLAPS checks the theorems of the `*Proofs` modules for every value of the
constants that the named `ASSUME`s allow: any number of vehicles, stations, radios
and packets, any intervals and delays, and runs of any length, since `MaxTime` and
the other bounds are arbitrary numbers there.  Each module has the same layout: the
parts of an inductive invariant `IInv`, lemmas about the operators, one lemma per
action, `Invariance`, and the theorems that follow from it.

**TraCI with `BasicNodeManager` (`TraciProofs`).**  `BasicTypeCorrect`,
`TimeAlwaysInSync`, `AlwaysSubscribed`, `AlwaysFresh`, `NoDanglingSinks`,
`BasicAlwaysMirrored`, `BasicCleanStop`, `BasicNodesAreStable` (an action property)
and `BasicRefinement` (of `VehicleMirror`).  The invariants are not inductive one by
one.  `BasicIInv` joins them and adds four facts: before the connection everything is
empty (`WaitingInv`: the connect event inserts vehicles on top of what is there);
indices of nodes are below `m_nodeIndex` (`NumberInv`: otherwise a new node could
get the number of another one); once connected, the variables the node manager
needs are among those subscribed (`VarsInv`: otherwise a node could be shown a
value that was never reported); and when the update event is no longer
scheduled no vehicle is running (`StoppedInv`).  What does not depend on the node
manager comes first in the module.

**TraCI with delayed insertion (`TraciProofs`, last part).**  `AlwaysArmed`
(`InsertionArmed`, the two assertions of the timer's handler), `AlwaysCurrent`
(`SinksCurrent`, `CachesFresh`, `SinksOwned`), `AlwaysMirrored`, `CleanStop`,
`NodesAreStable` and `Refinement`.  To the shared `CoreInv` comes the queue
(`QueueInv`): its one event stands at the earliest entry, nobody is overdue, and a
vehicle waits or has a node but never both.  The last is needed for the first: a
vehicle that leaves must be taken out of the queue or of the nodes, and only one of
the two may set the timer anew.

**Environment model (`EnvironmentModelProofs`).**  `TypeCorrect`,
`RefreshIsConsistent`, `DisplayIsSafe`, `GhostsAreShortLived` and `TrackingIsKept`
(an action property).  `IInv` says where stale objects may be at which point of a
TraCI step: a radar may hold what this step has removed only until its own
measurement (`RadarInv`, with the set `pending` of models still to be called),
tracking follows with the measurement (`TrackingInv`), the preselector agrees with
the database while models are called (`RefreshInv`), and whoever is registered has
an object in the database (`DatabaseInv`).

**Cooperative awareness (`CooperativeAwarenessProofs`).**  `MapIsTruthful`: a time
stamp is resolved to its true time or the CAM is refused.  It rests on the lemmas
about `reconstructMilliseconds`, which returns the true time within half its range,
and is off by a whole modulus beyond it; `AgeAssumption` makes such a time fall
outside of what `updateAwareness` accepts.
`StationsNeverSilent` has the hypotheses that `maxInterval` is not below the
constructor's interval (the code does not hold it otherwise, below) and not below
the update interval of the middleware; its invariant says that the next update is
never farther away than one interval and that the current pace never exceeds
`maxInterval`.  `ContainersAreRegular` has the same hypotheses and rests on it: the
last CAM is recent, and the container in it or before it is not older than the
interval at which `sendCam` would have added another one.  `NewestIsKept` has the hypothesis of one channel and needs the order
of CAMs on the air: each queue is sorted by generation time and begins no earlier
than the newest CAM received.

**Testbed (`TestbedProofs`).**  `NoLostWakeUp`: `mNotified` says whether the list is
empty, at every lock (`QueueInv`).  `OnTime`: before the simulation's next event
is executed it is due, or a packet is before it (`TimeInv`).  `Refinement` of
`DutLink` needs most: the future event set holds exactly one event of the
simulation (`EventsInv`), packets in it are all for the registered twin except
between the event that deletes the twin and the next `takeNextEvent`, when all of
them are stale and in front (`AllStale`), and numbers of packets ascend from what was
heard over the event set to the list (`OrderInv`).

**Decentralized notification (`DenServiceProofs`).**  `TypeCorrect` (with one message
per action in the memory, and sample buffers within their capacity),
`NewestIsKept`, and `WarningsAreGrounded`, the action property.  The invariant
relates memory and history message by message (`HistoryInv`): a message that is
dropped when it expires may be followed by an older one of the same action, which the
memory then takes.  What `WarningsAreGrounded` needs of `TrafficJamAhead` is that
samples of standing still add up to nothing, whatever prefix of the buffer
`not_before` selects (`ZeroSum`, `StandingSum`).  The sum is a recursive function, and the
facts about it are shown by their least counterexample: a non-empty set of numbers has
a least element (`LeastNumber`).

**Stations (`StationProofs`).**  `RegistryIsTrue`.  Names are used again, so `IInv`
says that no two living vehicles share one (`NamesInv`); an interface's driver
speaks once, while its node lives and before an address is known for it
(`AddressInv`: otherwise `map::insert` would keep an older address than the one
the router sends with); the registry holds the present identity of every living
vehicle (`EntriesInv`).  SUMO's identifiers are assumed not to be empty, which is the
name all road side units share.

`ListenersAreServed` and `ChannelsAreServed` rest on `DeliveryInv`: the dispatcher's
maps hold exactly the entries of the services that run, an interface in operation is
on the channel of its radio, and frames on the air are whole and under way to radios
on their channel.  The rest is about the loops: no pass before the last one counts as
the last, so nobody is handed what was moved before (`HandedOver`, `IndicatedAll`).
`ConfigurationAssumption` says that a configuration is finite, names a service once and
asks for real ports.  `ChannelsAreServed` has the hypothesis `KnownChannels`: all
channel names of the policy's applications parse.  The code needs it.  An unknown
name is entered as channel 0 without a complaint, which is also the channel of an
interface whose driver has not reported yet, so `select` would find such an interface;
TLC shows this as soon as `PolicyConfig` has an application with an unknown name.

**Access layer (`AccessProofs`).**  `CallbacksAreInTime`, `PacketsAreServed` and
`RepetitionsAlwaysFit`, for any intervals, categories, queue lengths, lifetimes, numbers
of repeated packets and length of a traffic step, and for any nesting of callbacks.
The properties speak of the moments between two events; the invariant `Inv` must
speak of every moment inside, with whatever is on the agenda.  Its parts are: nothing is
due by the clock of the queue unless the clock has just been set and somebody on the
agenda will look (`NothingMissed`); the event is set or a `schedule` is still to come
(`EventSet`); the clock is not older than the last step of the traffic simulation
(`ClockBound`, which bounds how late a callback can be); functions that went on after
asking for the time find the clock set (`DecidedFresh`); packets wait with a callback,
or the function it has called is still to run (`FlowSet`); and what is left of a
repeated packet's duration, counted from its next repetition, ends when the first
request's does (`DurationsKept`).  None of them is inductive alone: `RepeaterTrigger`
keeps the duration only because the clock it measures the delay with is set.

**Storyboard (`StoryboardProofs`).**  `StoriesMatch`, `OrderIsKept` and `TypeCorrect`,
for any stories with any number of effects.  `StoriesInOrder` is not inductive:
taking out one effect of several must not tear another story apart.  `Ordered`
says of every stack that the effects of a story are complete, next to each other, in
order and there once; so they form one block from the lowest on (`Block`), and
`removeEffectsByStory` takes out exactly this block, although it removes them one at a
time and each removal may apply others again (`StoryTaken`, by least counterexample on
the number of removals).  While `updateStoryboard` is under way, the stories of a car
that are not on the agenda any more match their conditions (`AgendaInv`); a stack that
is inherited with an address is in order, and its stories match as soon as the new
car has been tested.  That cars share no stack (`CarsInv`) keeps a test of one car from
touching another.

Only model-checked:

- liveness: `QueueDrains`, `SimulationProceeds`, `PacketsTaken`, `ExchangeSettles`,
  `UpdatesEnd`, `CallsEnd`.  The installed provers handle neither fairness nor
  `ENABLED`;
- `RequestsWellFormed`, `AnswersTrue`, `InStep` and `ResultsCurrent` of `TraCIClient`: what
  recursion over the bytes of a message computes.

## Where code and documentation disagree

Shown by a run:

- `storyboard_restore`: an effect remembers a speed from the vehicle cache
  which an earlier effect of the same step has already replaced, and the car keeps
  that speed after its last story.
- `channel_load_inet`: `VanetRx::reportChannelLoad` is to "remove obsolete periods", but
  periods are added only when the medium changes.  While it stays idle the same
  busy periods are reported again and again, and congestion control keeps the
  interval of a loaded channel.

Part of the modules as the code has it, without a run of their own:

- `Runtime::now` has the comment "updating runtime's current time here will not
  trigger any callbacks" above the assertion: the assertion looks at the clock before it
  is set, and callbacks that have become due since then run inside of `now()`
  (`Indicate`, `UpdatePosition`).  A station that never asks for the time, such as a road
  side unit without rate control, depends on the wake-up event alone, which every
  renewed beacon postpones.
- TraCI client: `myDomains` has no entry for induction loops, so the result of a
  subscription to one is stored through a null pointer.  `EdgeScope::setMaxSpeed`
  writes no type byte before the double.  `MeMeScope::getLastStepMeanSpeed` decodes
  an integer where SUMO sends a double.  `PolygonScope::setShape` and `add` write
  the number zero for an empty polygon, which announces the long form of the number
  (`Bare`), and `add` counts 256 points in a byte, which `Storage::writeUnsignedByte`
  refuses, like the identifier -1 of the set commands of detector scopes.  `getEmergencyDecel` and `getApparentDecel`
  are declared and not defined.
- `PosixLauncher::kill` sends SIGINT, which `launch` has made the child ignore, and sets
  `m_pid` to zero before `waitpid(m_pid)`: it waits for a process of the own group,
  which SUMO has left.  A SUMO that has not been told to close goes on running, and one
  that ends stays a zombie until Artery ends.
- DEN: `TrafficJamEndOfQueue::initialize` and `TrafficJamAhead::initialize` call
  `UseCase::initialize` and not that of `SuspendableUseCase`, which alone reads
  `detectionBlockingInterval`; the interval is zero, and the next check may send
  again.  The assertion on the deceleration (`TrafficJamUseCase.cc:104`) assumes
  samples of at most ten seconds and fails when the traffic simulation steps more
  slowly than `sampleInterval`.
- `EffectStack::removeFromMiddle` is to "apply the removed Effects again" but its
  counter is never incremented; effects above one removed from the middle stay on
  the stack unapplied.
- `CaService`: `mGenCam` keeps its constructor value, so a `maxInterval` below 1 s
  does not bound the first interval; the primary channel is stored in a local
  variable that hides the member, so DCC of the control channel always decides.
- A time stamp exactly half its range away fails an assertion of
  `reconstructMilliseconds`; release builds refuse the CAM.
- `OtaInterfaceUsrp::unregisterModule` deletes the GPSD timer and keeps the pointer,
  which the next twin schedules.  A packet that is only dropped, because there is
  no twin, ends the scheduler's wait, and the next event is executed ahead of time
  (`OnTimeWithTwin` has the premise that this does not happen).
- `doTiming` waits for the event it was called with although `flushQueue` has just
  put packets before it.  The errors for a too slow simulation
  (`TestbedScheduler`) and for a second twin (`OtaInterfaceUsrp`) are constructed
  and not thrown, and `fakeMode` still needs a USRP that answers.
- `GlobalEnvironmentModel::removeVehicle` returns before it sets `mTainted`; the
  refresh at the end of the step hides it (`RefreshConsistent`).
- A tracked object may outlive its vehicle by one step although
  `LocalEnvironmentModel.h` says it is removed (`GhostsShortLived`).
- `Storyboard` does not erase the effect stack of a car that leaves; a `Vehicle`
  allocated at the same address inherits it.
- The first address of a vehicle's router has the station type "unknown", since
  routers are initialized before the middleware; no identity with this address is
  announced (`RegistryTrue`).  Road side units share the empty TraCI name in the
  registry, so only the last of them can be found.  `radioChannelChanged` signals
  after the start do not reach `NetworkInterface::channel`.
- The DCC network entity `TwoHopChannelLoad` cannot be used: the DCC entity asks the
  router for its location table before the router has been made.

## Not modelled

Left out for good: third-party code, physics, drawing and numerical channel
models (`gemv2`, fading, path loss), conversions of units and coordinates, the
security entity (parameters for objects of Vanetza), module mappers (their choice
is a constant or free).  In the modelled parts: the server side of `tcpip::Socket`
and data types no scope uses; of Vanetza's congestion control the LIMERIC algorithm,
the fully meshed state machine and burst control (the reactive state machine is one
whose state goes to a neighbour with any report); of Vanetza's router everything but
beacons, single-hop and repeated packets (forwarding, store-carry-forward, duplicate
detection); contents of CAMs and DENMs on which no decision depends.

Still open, in the order of the plan:

1. `AsioScheduler` and `TransfusionService`: framing of the byte stream (a message
   that arrives in two pieces, `TransfusionService.cc:69`), waiting for an event or
   data.
2. Storyboard: the condition algebra, `LimitCondition`, `StopEffect` and
   `SignalEffect`.
3. Proofs about the TraCI client, which need its decoders in a form without
   recursive operators.
