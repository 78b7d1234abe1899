------------------------------- MODULE Station -------------------------------
(***************************************************************************)
(* Stations of a simulation from their creation to their end: middleware   *)
(* with its services (application/Middleware.cc, VehicleMiddleware.cc,     *)
(* StationaryMiddleware.cc), one router per radio (networking/Router.cc),  *)
(* the radio drivers that tell the router its address and channel, the     *)
(* identity of a station and the registry of identities                    *)
(* (utility/Identity.cc, utility/IdentityRegistry.cc), and the packets that*)
(* services exchange.                                                      *)
(*                                                                         *)
(* Creation is one event of the simulation and runs all initialization     *)
(* stages; in every stage the routers come before the middleware, in the   *)
(* order of Car.ned and RSU.ned.  The radio medium (external) loses frames *)
(* and delivers those of different senders in any order.                   *)
(***************************************************************************)
EXTENDS Dispatching, TLC

CONSTANTS
    Vehicles, RSUs,     \* node modules
    TraciName,          \* of every vehicle: the identifier it has in SUMO
    Interfaces, Host,   \* radios and the node each of them belongs to
    RadioChannel,       \* channel the radio is tuned to
    ServiceConfig,      \* services in the XML configuration of the middleware
    PolicyConfig,       \* multi-channel operation in the XML configuration
    ItsAids, Ports,     \* applications and BTP ports that are used
    MaxFrames           \* bound: packets that are sent

Nodes == Vehicles \cup RSUs

ASSUME StationAssumption ==
    /\ Vehicles \cap RSUs = {} /\ TraciName \in [Vehicles -> STRING \ {""}]
    /\ Host \in [Interfaces -> Nodes] /\ RadioChannel \in [Interfaces -> Nat \ {0}]
    /\ MaxFrames \in Nat

(* A name stands for the module of a service.  Packets have a port.        *)
ASSUME ConfigurationAssumption ==
    /\ IsFiniteSet(ServiceConfig)
    /\ \A s, t \in ServiceConfig : s.name = t.name => s = t
    /\ IsFiniteSet(PolicyConfig.applications)
    /\ NoPort \notin Ports

Absent == "absent"
Alive == "alive"
Gone == "gone"

VARIABLES
    phase,          \* life of every node
    identity,       \* Middleware::mIdentity
    stationType,    \* Middleware::mStationType
    services,       \* Middleware::mServices
    listeners, taps,    \* maps of the TransportDispatcher
    channel,        \* NetworkInterface::channel, zero at first
    address,        \* address of the router
    properties,     \* interfaces whose RadioDriverProperties are on their way
    registry,       \* IdentityRegistry: identities by their TraCI name
    air,            \* frames on their way to an interface
    frames,         \* number of packets sent
    last            \* what the last event handed out, for the properties

vars == <<phase, identity, stationType, services, listeners, taps, channel,
          address, properties, registry, air, frames, last>>

Policy == ReadPolicy(PolicyConfig)
Own(n) == {i \in Interfaces : Host[i] = n}

NoAddresses == <<>>
NoIdentity == [traci |-> "", application |-> 0, geonet |-> NoAddresses]
Idle == [event |-> "none"]

(* Router::generateAddress: the station type of the middleware as it is    *)
(* now, and a MAC address made of the module's id or given by the driver.  *)
GenerateAddress(type, mac) == [type |-> type, mac |-> mac]
ModuleMac(i) == <<"module", i>>
LinkLayerMac(i) == <<"link", i>>

(* VehicleMiddleware::initializeStationType: all vehicle classes are alike.*)
TypeOf(n) == IF n \in Vehicles THEN "vehicle" ELSE "RSU"

-----------------------------------------------------------------------------
(* Identity::update and IdentityRegistry::receiveSignal.  map::insert keeps*)
(* an entry that is there.                                                 *)
UpdateTraci(id, traci, application) == [id EXCEPT !.traci = traci, !.application = application]
UpdateGeonet(id, i, addr) ==
    LET known == DOMAIN id.geonet
    IN  [id EXCEPT !.geonet =
            [j \in known \cup {i} |-> IF j \in known THEN id.geonet[j] ELSE addr]]

RegistryUpdate(reg, id) ==
    [name \in DOMAIN reg \cup {id.traci} |-> IF name = id.traci THEN id ELSE reg[name]]
RegistryKeep(reg, id) == reg
RegistryRemove(reg, id) == [name \in DOMAIN reg \ {id.traci} |-> reg[name]]

(* Middleware::receiveSignal: a changed identity is announced.             *)
Announced(reg, id) == RegistryUpdate(reg, id)

(* Middleware::initializeServices: the keys under which a service is known *)
(* to the dispatcher.  Tapping services that name no channel tap CCH.      *)
ListenerEntries(service) ==
    {<<<<ListenerChannel(l.channel), l.port>>, service.name>> :
        l \in {x \in service.listeners : x.port # NoPort}}

TapChannels(service) ==
    {ListenerChannel(l.channel) : l \in {x \in service.listeners : x.port = NoPort /\ x.channel # NoChannel}}
TapEntries(service) ==
    IF ~service.promiscuous THEN {}
    ELSE {<<ch, service.name>> : ch \in
            IF TapChannels(service) = {} THEN {CCH} ELSE TapChannels(service)}

(* The sets of services that a station may run.  There is none when a      *)
(* filter is an error, and services without a listener that need one are an*)
(* error of the configuration: the simulation ends.                        *)
Runnable(traci, n) ==
    {chosen \in SUBSET ServiceConfig :
        \A s \in ServiceConfig : (s \in chosen) \in ApplyFilterConfig(s.filters, traci, TypeOf(n))}

Correct(chosen) ==
    \A s \in chosen : s.promiscuous \/ ~s.requiresListener \/ ListenerEntries(s) # {}

-----------------------------------------------------------------------------
Init ==
    /\ phase = [n \in Nodes |-> Absent]
    /\ identity = [n \in Nodes |-> NoIdentity]
    /\ stationType = [n \in Nodes |-> "Unknown"]
    /\ services = [n \in Nodes |-> {}]
    /\ listeners = [n \in Nodes |-> {}] /\ taps = [n \in Nodes |-> {}]
    /\ channel = [i \in Interfaces |-> 0]
    /\ address = [i \in Interfaces |-> GenerateAddress("Unknown", ModuleMac(i))]
    /\ properties = {} /\ registry = <<>> /\ air = {} /\ frames = 0
    /\ last = Idle

(* Stage Prepare: a StationaryMiddleware knows its type.                   *)
PreparedType(n) == IF n \in RSUs THEN TypeOf(n) ELSE "Unknown"

(* Stage Self of the routers: the first address is generated from the type *)
(* known by then, and the interface is registered at the middleware.       *)
FirstAddresses(n) ==
    [i \in Interfaces |->
        IF i \in Own(n) THEN GenerateAddress(PreparedType(n), ModuleMac(i)) ELSE address[i]]

(* The radio drivers send their properties to the routers.                 *)
StartedDrivers(n) == properties \cup Own(n)

(* Stage Self of the middleware: that of a vehicle learns its identity ... *)
FirstIdentity(n) ==
    IF n \in Vehicles THEN UpdateTraci(NoIdentity, TraciName[n], n) ELSE NoIdentity

(* ... before it picks its services.                                       *)
InitializeServices(n) ==
    \E chosen \in Runnable(FirstIdentity(n).traci, n) :
        /\ Correct(chosen)
        /\ services' = [services EXCEPT ![n] = {s.name : s \in chosen}]
        /\ listeners' = [listeners EXCEPT ![n] = UNION {ListenerEntries(s) : s \in chosen}]
        /\ taps' = [taps EXCEPT ![n] = UNION {TapEntries(s) : s \in chosen}]

(* A node is created.  Stage Propagate announces the identity.  SUMO does  *)
(* not use an identifier twice at a time.                                  *)
Create(n) ==
    /\ phase[n] = Absent
    /\ n \in Vehicles =>
        \A m \in Vehicles : phase[m] = Alive => TraciName[m] # TraciName[n]
    /\ address' = FirstAddresses(n)
    /\ properties' = StartedDrivers(n)
    /\ identity' = [identity EXCEPT ![n] = FirstIdentity(n)]
    /\ stationType' = [stationType EXCEPT ![n] = TypeOf(n)]
    /\ InitializeServices(n)
    /\ registry' = Announced(registry, FirstIdentity(n))
    /\ phase' = [phase EXCEPT ![n] = Alive]
    /\ last' = Idle
    /\ UNCHANGED <<channel, air, frames>>

(* Router::handleMessage: the properties of the radio driver.              *)
HandleProperties(i) ==
    /\ i \in properties
    /\ LET n == Host[i]
           addr == GenerateAddress(stationType[n], LinkLayerMac(i))
           id == UpdateGeonet(identity[n], i, addr)
       IN  /\ address' = [address EXCEPT ![i] = addr]
           /\ identity' = [identity EXCEPT ![n] = id]
           /\ registry' = Announced(registry, id)
    /\ channel' = [channel EXCEPT ![i] = RadioChannel[i]]
    /\ properties' = properties \ {i}
    /\ last' = Idle
    /\ UNCHANGED <<phase, stationType, services, listeners, taps, air, frames>>

-----------------------------------------------------------------------------
(* From Router::request to the medium: access interface and radio driver   *)
(* pass the packet on; every other radio on the channel gets a copy of its *)
(* own (GeoNetPacket::dup).                                                *)
Frames(handed, port) ==
    UNION {{[number |-> frames, from |-> h.ifc, source |-> address[h.ifc],
             packet |-> h.packet, channel |-> RadioChannel[h.ifc], port |-> port, to |-> i] :
                i \in {x \in Interfaces :
                        /\ phase[Host[x]] = Alive /\ Host[x] # Host[h.ifc]
                        /\ RadioChannel[x] = RadioChannel[h.ifc]}} :
           h \in {handed[k] : k \in DOMAIN handed}}

Sent(n, aid, port, handed) ==
    /\ frames < MaxFrames
    /\ air' = air \cup Frames(handed, port)
    /\ frames' = frames + 1
    /\ last' = [event |-> "sent", node |-> n, aid |-> aid, handed |-> handed]
    /\ UNCHANGED <<phase, identity, stationType, services, listeners, taps, channel,
                   address, properties, registry>>

(* ItsG5BaseService::request without an interface: the policy decides.     *)
RequestTransmission(n, aid, port) ==
    /\ phase[n] = Alive
    /\ Sent(n, aid, port, HandOver(AllChannels(Policy, aid), Own(n), channel))

(* With an interface: the packet goes there, whatever its channel.         *)
RequestOn(i, port) ==
    /\ phase[Host[i]] = Alive
    /\ Sent(Host[i], None, port, <<[ifc |-> i, packet |-> Whole]>>)

(* Radio driver, Router::handleMessage and TransportDispatcher::indicate:  *)
(* a frame reaches the services of a station.                              *)
HandleData(f) ==
    /\ f \in air
    /\ air' = air \ {f}
    /\ last' = [event |-> "received", frame |-> f,
                indicated |-> Indicate(listeners[Host[f.to]], taps[Host[f.to]],
                                       channel[f.to], f.port, f.packet)]
    /\ UNCHANGED <<phase, identity, stationType, services, listeners, taps, channel,
                   address, properties, registry, frames>>

(* A frame is lost on the medium.                                          *)
Lose(f) ==
    /\ f \in air
    /\ air' = air \ {f} /\ last' = Idle
    /\ UNCHANGED <<phase, identity, stationType, services, listeners, taps, channel,
                   address, properties, registry, frames>>

(* A node is removed: Middleware::finish, and what was on its way to the   *)
(* node is deleted with it.                                                *)
Finish(n) ==
    /\ phase[n] = Alive
    /\ phase' = [phase EXCEPT ![n] = Gone]
    /\ registry' = RegistryRemove(registry, identity[n])
    /\ properties' = properties \ Own(n)
    /\ air' = {f \in air : Host[f.to] # n}
    /\ last' = Idle
    /\ UNCHANGED <<identity, stationType, services, listeners, taps, channel, address, frames>>

Next ==
    \/ \E n \in Nodes : Create(n) \/ (n \in Vehicles /\ Finish(n))
    \/ \E i \in Interfaces : HandleProperties(i)
    \/ \E n \in Nodes, aid \in ItsAids, port \in Ports : RequestTransmission(n, aid, port)
    \/ \E i \in Interfaces, port \in Ports : RequestOn(i, port)
    \/ \E f \in air : HandleData(f) \/ Lose(f)

Spec == Init /\ [][Next]_vars

-----------------------------------------------------------------------------
(* The packet is handed out as a whole each time, and who is reached are   *)
(* exactly the recipients, everyone once.                                  *)
WholeOnceEach(handed, reached, recipients) ==
    /\ Len(handed) = Cardinality(recipients) /\ reached = recipients
    /\ \A k \in DOMAIN handed : handed[k].packet = Whole

(* What the configuration says: the services a station runs, those of them *)
(* that listen to a channel and port, those that tap a channel, and the    *)
(* channels of an application.                                             *)
Running(n) == {s \in ServiceConfig : s.name \in services[n]}
Hearing(n, c, port) ==
    {s \in Running(n) : \E l \in s.listeners : l.port = port /\ ListenerChannel(l.channel) = c}
Tapping(n, c) ==
    {s \in Running(n) : s.promiscuous /\
        IF \E l \in s.listeners : l.port = NoPort /\ l.channel # NoChannel
        THEN \E l \in s.listeners : l.port = NoPort /\ l.channel # NoChannel
                /\ ListenerChannel(l.channel) = c
        ELSE c = CCH}
Wanted(aid) ==
    IF \E app \in PolicyConfig.applications : app[1] = aid
    THEN {ParseChannelNumber(app[2]) : app \in {x \in PolicyConfig.applications : x[1] = aid}}
    ELSE {ParseChannelNumber(PolicyConfig.default)}

(* A packet received on a channel reaches every service of the station that*)
(* is configured to listen to this channel and port, and every service that*)
(* taps the channel, once and complete, however many they are and however  *)
(* many interfaces the sender used (TransportDispatcher::indicate and the  *)
(* loop of Middleware::requestTransmission move one packet out of a        *)
(* unique_ptr and copy it for the others).  It does so as soon as the      *)
(* interface knows its channel.                                            *)
ListenersServed ==
    (last.event = "received" /\ channel[last.frame.to] # 0) =>
        LET f == last.frame
            got == last.indicated.got
            tapped == last.indicated.tapped
        IN  /\ WholeOnceEach(got, {got[k].service : k \in DOMAIN got},
                             {s.name : s \in Hearing(Host[f.to], f.channel, f.port)})
            /\ WholeOnceEach(tapped, {tapped[k].service : k \in DOMAIN tapped},
                             {s.name : s \in Tapping(Host[f.to], f.channel)})

(* A service that leaves the choice of the channel to the policy sends its *)
(* packet, complete, exactly once over each channel of its application on  *)
(* which the station has an interface in operation, also if others of the  *)
(* channels are missing (Middleware::requestTransmission).                 *)
ChannelsServed ==
    (last.event = "sent" /\ last.aid # None) =>
        LET mine == {i \in Own(last.node) : channel[i] # 0}
            handed == last.handed
        IN  WholeOnceEach(handed, {RadioChannel[handed[k].ifc] : k \in DOMAIN handed},
                          Wanted(last.aid) \cap {RadioChannel[i] : i \in mine})

(* The registry is true: a vehicle can be found under its TraCI name from  *)
(* its creation to its end, with its own station id and, for every         *)
(* interface in operation, the very address its router sends with, of the  *)
(* right station type; and no vehicle that is gone can be found, even when *)
(* its name is used again (Identity::update keeps older addresses, the     *)
(* registry replaces by name).                                             *)
RegistryTrue ==
    /\ \A n \in Vehicles : phase[n] = Alive =>
        /\ TraciName[n] \in DOMAIN registry
        /\ registry[TraciName[n]].application = n
        /\ \A i \in Own(n) : channel[i] # 0 =>
            /\ i \in DOMAIN registry[TraciName[n]].geonet
            /\ registry[TraciName[n]].geonet[i] = address[i]
            /\ address[i].type = TypeOf(n)
    /\ \A name \in DOMAIN registry \ {""} :
        \E n \in Vehicles : phase[n] = Alive /\ TraciName[n] = name
=============================================================================
