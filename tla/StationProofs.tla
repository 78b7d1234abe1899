---------------------------- MODULE StationProofs ----------------------------
(***************************************************************************)
(* Proofs about Station, for any nodes, names, interfaces and              *)
(* configurations.  First the registry of identities: packets do not touch *)
(* it; what matters is the order of creation, radio driver properties and  *)
(* the end of nodes that share a name.  Then the packets: the dispatcher   *)
(* hands them to all who listen, the middleware to all channels, in spite  *)
(* of the unique_ptr that is given away on the way.                        *)
(***************************************************************************)
EXTENDS Station, SequenceTheorems, FiniteSetTheorems, TLAPS

Addresses == {GenerateAddress(type, mac) :
                type \in {"Unknown", "vehicle", "RSU"},
                mac \in {ModuleMac(i) : i \in Interfaces} \cup {LinkLayerMac(i) : i \in Interfaces}}

(* Addresses by interface, of some of the interfaces.                      *)
Geonets == UNION {[known -> Addresses] : known \in SUBSET Interfaces}
Names == {TraciName[n] : n \in Vehicles} \cup {""}
Identities == [traci : Names, application : Nodes \cup {0}, geonet : Geonets]

TypesInv ==
    /\ phase \in [Nodes -> {Absent, Alive, Gone}]
    /\ identity \in [Nodes -> Identities]
    /\ stationType \in [Nodes -> {"Unknown", "vehicle", "RSU"}]
    /\ channel \in [Interfaces -> Nat]
    /\ address \in [Interfaces -> Addresses]
    /\ properties \subseteq Interfaces

(* Only vehicles have a name, and two of the same name never live together.*)
NamesInv ==
    /\ \A n \in RSUs : identity[n].traci = ""
    /\ \A n \in Vehicles : phase[n] = Alive =>
         /\ identity[n].traci = TraciName[n] /\ identity[n].application = n
         /\ \A m \in Vehicles : phase[m] = Alive /\ m # n => TraciName[m] # TraciName[n]
    /\ \A n \in Nodes : phase[n] = Alive => stationType[n] = TypeOf(n)

(* The radio driver speaks once, after the creation and before the address *)
(* is known; what was announced is the address that is used.               *)
AddressInv ==
    \A i \in Interfaces :
      /\ i \in properties =>
           phase[Host[i]] = Alive /\ channel[i] = 0 /\ i \notin DOMAIN identity[Host[i]].geonet
      /\ phase[Host[i]] = Absent => channel[i] = 0
      /\ phase[Host[i]] = Alive /\ channel[i] # 0 =>
           /\ i \in DOMAIN identity[Host[i]].geonet
           /\ identity[Host[i]].geonet[i] = address[i]
           /\ address[i].type = TypeOf(Host[i])

(* The registry holds the present identity of every living vehicle.        *)
EntriesInv ==
    /\ \A n \in Vehicles : phase[n] = Alive =>
         TraciName[n] \in DOMAIN registry /\ registry[TraciName[n]] = identity[n]
    /\ \A name \in DOMAIN registry \ {""} :
         \E n \in Vehicles : phase[n] = Alive /\ TraciName[n] = name

IInv == TypesInv /\ NamesInv /\ AddressInv /\ EntriesInv

-----------------------------------------------------------------------------

(* An address is added to those of an identity, under its interface.       *)
LEMMA AddressAdded ==
    ASSUME NEW id \in Identities, NEW i \in Interfaces, i \notin DOMAIN id.geonet,
           NEW a \in Addresses
    PROVE  /\ UpdateGeonet(id, i, a) \in Identities
           /\ UpdateGeonet(id, i, a).traci = id.traci
           /\ UpdateGeonet(id, i, a).application = id.application
           /\ DOMAIN UpdateGeonet(id, i, a).geonet = DOMAIN id.geonet \cup {i}
           /\ UpdateGeonet(id, i, a).geonet[i] = a
           /\ \A j \in DOMAIN id.geonet : UpdateGeonet(id, i, a).geonet[j] = id.geonet[j]
<1>0. id.geonet \in Geonets
  BY DEF Identities
<1>1. PICK known \in SUBSET Interfaces : id.geonet \in [known -> Addresses]
  BY <1>0 DEF Geonets
<1> DEFINE new == [j \in known \cup {i} |-> IF j \in known THEN id.geonet[j] ELSE a]
<1>2. UpdateGeonet(id, i, a) = [id EXCEPT !.geonet = new]
  BY <1>1 DEF UpdateGeonet
<1>3. new \in [known \cup {i} -> Addresses] /\ known \cup {i} \in SUBSET Interfaces
  BY <1>1
<1>4. new \in Geonets
  BY <1>3 DEF Geonets
<1>5. /\ DOMAIN new = DOMAIN id.geonet \cup {i} /\ new[i] = a
      /\ \A j \in DOMAIN id.geonet : new[j] = id.geonet[j]
  BY <1>1
<1> HIDE DEF new
<1> QED
  BY <1>2, <1>4, <1>5 DEF Identities

(* An identity without addresses.                                          *)
LEMMA Unaddressed ==
    /\ NoAddresses \in Geonets /\ DOMAIN NoAddresses = {}
    /\ \A name \in Names : \A application \in Nodes \cup {0} :
         [traci |-> name, application |-> application, geonet |-> NoAddresses] \in Identities
<1>1. DOMAIN NoAddresses = {} /\ NoAddresses \in [{} -> Addresses]
  BY DEF NoAddresses
<1>2. NoAddresses \in Geonets
  BY <1>1 DEF Geonets
<1> QED
  BY <1>1, <1>2 DEF Identities

(* In the beginning a station has no name.                                 *)
LEMMA Nameless == NoIdentity \in Identities /\ NoIdentity.traci = ""
<1>1. NoIdentity = [traci |-> "", application |-> 0, geonet |-> NoAddresses]
  BY DEF NoIdentity
<1>2. "" \in Names
  BY DEF Names
<1>3. 0 \in Nodes \cup {0}
  OBVIOUS
<1>4. NoAddresses \in Geonets
  BY Unaddressed
<1>5. NoIdentity \in [traci : Names, application : Nodes \cup {0}, geonet : Geonets]
  BY <1>1, <1>2, <1>3, <1>4
<1> QED
  BY <1>1, <1>5 DEF Identities

(* The initial states.                                                     *)
LEMMA InitInv == Init => IInv
<1> SUFFICES ASSUME Init
             PROVE  IInv
  OBVIOUS
<1>1. DOMAIN << >> = {}
  OBVIOUS
<1>2. NoIdentity \in Identities /\ NoIdentity.traci = ""
  BY Nameless
<1>3. TypesInv
  <2>1. \A i \in Interfaces : GenerateAddress("Unknown", ModuleMac(i)) \in Addresses
    BY DEF Addresses
  <2> QED
    BY <1>2, <2>1 DEF Init, TypesInv
<1>4. NamesInv
  BY <1>2 DEF Init, NamesInv, Absent, Alive, Nodes
<1>5. AddressInv
  BY StationAssumption DEF Init, AddressInv, Absent, Alive
<1>6. EntriesInv
  BY <1>1 DEF Init, EntriesInv, Absent, Alive, Nodes
<1> QED
  BY <1>3, <1>4, <1>5, <1>6 DEF IInv

(* The creation of a node.                                                 *)
LEMMA CreateInv ==
    ASSUME IInv, NEW n \in Nodes, Create(n)
    PROVE  IInv'
<1> DEFINE id == FirstIdentity(n)
<1>1. /\ phase[n] = Absent
      /\ n \in Vehicles =>
           \A m \in Vehicles : phase[m] = Alive => TraciName[m] # TraciName[n]
      /\ address' = FirstAddresses(n) /\ properties' = properties \cup Own(n)
      /\ identity' = [identity EXCEPT ![n] = id]
      /\ stationType' = [stationType EXCEPT ![n] = TypeOf(n)]
      /\ registry' = Announced(registry, id)
      /\ phase' = [phase EXCEPT ![n] = Alive] /\ channel' = channel
  BY DEF Create, StartedDrivers
<1>2. /\ id \in Identities /\ id.geonet = NoAddresses /\ DOMAIN NoAddresses = {}
      /\ n \in Vehicles => id.traci = TraciName[n] /\ id.application = n
      /\ n \in RSUs => id.traci = ""
  <2>3. CASE n \in Vehicles
    <3>1. id = [traci |-> TraciName[n], application |-> n, geonet |-> NoAddresses]
      BY <2>3 DEF FirstIdentity, UpdateTraci, NoIdentity
    <3>2. TraciName[n] \in Names /\ n \in Nodes \cup {0} /\ n \notin RSUs
      BY <2>3, StationAssumption DEF Names
    <3>3. id \in Identities
      BY <3>1, <3>2, Unaddressed
    <3>4. id.traci = TraciName[n] /\ id.application = n /\ id.geonet = NoAddresses
      BY <3>1
    <3>5. DOMAIN NoAddresses = {}
      BY Unaddressed
    <3> QED
      BY <3>2, <3>3, <3>4, <3>5
  <2>4. CASE n \in RSUs
    <3>1. id = NoIdentity /\ n \notin Vehicles
      BY <2>4, StationAssumption DEF FirstIdentity
    <3>2. NoIdentity.geonet = NoAddresses
      BY DEF NoIdentity
    <3> QED
      BY <3>1, <3>2, Nameless, Unaddressed
  <2> QED
    BY <2>3, <2>4 DEF Nodes
<1> HIDE DEF id
<1>3. /\ \A m \in Nodes : phase'[m] = IF m = n THEN Alive ELSE phase[m]
      /\ \A m \in Nodes : identity'[m] = IF m = n THEN id ELSE identity[m]
      /\ \A m \in Nodes : stationType'[m] = IF m = n THEN TypeOf(n) ELSE stationType[m]
  BY <1>1 DEF IInv, TypesInv
<1>4. \A i \in Interfaces : Host[i] # n => address'[i] = address[i]
  BY <1>1 DEF FirstAddresses, Own
<1>5. TypesInv'
  <2>1. address' \in [Interfaces -> Addresses]
    <3>1. \A i \in Interfaces : GenerateAddress(PreparedType(n), ModuleMac(i)) \in Addresses
      <4>1. PreparedType(n) \in {"Unknown", "vehicle", "RSU"}
        BY DEF PreparedType, TypeOf
      <4> QED
        BY <4>1 DEF Addresses
    <3> QED
      BY <1>1, <3>1 DEF FirstAddresses, IInv, TypesInv
  <2>2. properties' \subseteq Interfaces
    BY <1>1 DEF Own, IInv, TypesInv
  <2>3. TypeOf(n) \in {"Unknown", "vehicle", "RSU"}
    BY DEF TypeOf
  <2> QED
    BY <1>1, <1>2, <2>1, <2>2, <2>3 DEF IInv, TypesInv
<1>6. NamesInv'
  <2>1. \A m \in RSUs : identity'[m].traci = ""
    BY <1>2, <1>3 DEF IInv, NamesInv, Nodes
  <2>2. \A m \in Nodes : phase'[m] = Alive => stationType'[m] = TypeOf(m)
    BY <1>3 DEF IInv, NamesInv
  <2>3. \A m \in Vehicles : phase'[m] = Alive =>
          identity'[m].traci = TraciName[m] /\ identity'[m].application = m
    BY <1>2, <1>3 DEF IInv, NamesInv, Nodes
  <2>4. \A m, k \in Vehicles : phase'[m] = Alive /\ phase'[k] = Alive /\ m # k =>
          TraciName[m] # TraciName[k]
    <3> SUFFICES ASSUME NEW m \in Vehicles, NEW k \in Vehicles,
                        phase'[m] = Alive, phase'[k] = Alive, m # k
                 PROVE  TraciName[m] # TraciName[k]
      OBVIOUS
    <3>0. m \in Nodes /\ k \in Nodes
      BY DEF Nodes
    <3>1. CASE m = n
      BY <1>1, <1>3, <3>0, <3>1
    <3>2. CASE k = n
      BY <1>1, <1>3, <3>0, <3>2
    <3>3. CASE m # n /\ k # n
      BY <1>3, <3>0, <3>3 DEF IInv, NamesInv
    <3> QED
      BY <3>1, <3>2, <3>3
  <2> QED
    BY <2>1, <2>2, <2>3, <2>4 DEF NamesInv
<1>7. AddressInv'
  <2> SUFFICES ASSUME NEW i \in Interfaces
               PROVE  /\ i \in properties' =>
                           /\ phase'[Host[i]] = Alive /\ channel[i] = 0
                           /\ i \notin DOMAIN identity'[Host[i]].geonet
                      /\ phase'[Host[i]] = Absent => channel[i] = 0
                      /\ phase'[Host[i]] = Alive /\ channel[i] # 0 =>
                           /\ i \in DOMAIN identity'[Host[i]].geonet
                           /\ identity'[Host[i]].geonet[i] = address'[i]
                           /\ address'[i].type = TypeOf(Host[i])
    BY <1>1 DEF AddressInv
  <2>1. Host[i] \in Nodes
    BY StationAssumption
  <2>2. CASE Host[i] = n
    BY <1>1, <1>2, <1>3, <2>1, <2>2 DEF IInv, AddressInv, Absent, Alive
  <2>3. CASE Host[i] # n
    BY <1>1, <1>3, <1>4, <2>1, <2>3 DEF IInv, AddressInv, Own
  <2> QED
    BY <2>2, <2>3
<1>8. EntriesInv'
  <2>1. /\ DOMAIN registry' = DOMAIN registry \cup {id.traci} /\ registry'[id.traci] = id
        /\ \A name \in DOMAIN registry : name # id.traci => registry'[name] = registry[name]
    BY <1>1 DEF Announced, RegistryUpdate
  <2>2. \A m \in Vehicles : phase[m] = Alive /\ m # n => TraciName[m] # id.traci
    BY <1>1, <1>2, StationAssumption DEF Nodes
  <2>3. \A m \in Vehicles : phase'[m] = Alive =>
          TraciName[m] \in DOMAIN registry' /\ registry'[TraciName[m]] = identity'[m]
    BY <1>2, <1>3, <2>1, <2>2 DEF IInv, EntriesInv, Nodes
  <2>4. \A name \in DOMAIN registry' \ {""} :
          \E m \in Vehicles : phase'[m] = Alive /\ TraciName[m] = name
    <3> SUFFICES ASSUME NEW name \in DOMAIN registry', name # ""
                 PROVE  \E m \in Vehicles : phase'[m] = Alive /\ TraciName[m] = name
      OBVIOUS
    <3>1. CASE name = id.traci
      BY <1>2, <1>3, <3>1 DEF Nodes
    <3>2. CASE name # id.traci
      <4>1. name \in DOMAIN registry \ {""}
        BY <2>1, <3>2
      <4>2. PICK m \in Vehicles : phase[m] = Alive /\ TraciName[m] = name
        BY <4>1 DEF IInv, EntriesInv
      <4>3. m # n /\ m \in Nodes
        BY <1>1, <4>2 DEF Absent, Alive, Nodes
      <4> QED
        BY <1>3, <4>2, <4>3
    <3> QED
      BY <3>1, <3>2
  <2> QED
    BY <2>3, <2>4 DEF EntriesInv
<1> QED
  BY <1>5, <1>6, <1>7, <1>8 DEF IInv

(* The radio driver's properties.                                          *)
LEMMA HandlePropertiesInv ==
    ASSUME IInv, NEW i \in Interfaces, HandleProperties(i)
    PROVE  IInv'
<1> DEFINE n == Host[i]
           addr == GenerateAddress(stationType[n], LinkLayerMac(i))
           id == UpdateGeonet(identity[n], i, addr)
<1>1. /\ i \in properties
      /\ address' = [address EXCEPT ![i] = addr]
      /\ identity' = [identity EXCEPT ![n] = id]
      /\ registry' = Announced(registry, id)
      /\ channel' = [channel EXCEPT ![i] = RadioChannel[i]]
      /\ properties' = properties \ {i}
      /\ phase' = phase /\ stationType' = stationType
  BY DEF HandleProperties
<1>2. n \in Nodes /\ RadioChannel[i] \in Nat /\ RadioChannel[i] # 0
  BY StationAssumption
<1>3. /\ phase[n] = Alive /\ channel[i] = 0 /\ i \notin DOMAIN identity[n].geonet
      /\ stationType[n] = TypeOf(n) /\ identity[n] \in Identities
  BY <1>1, <1>2 DEF IInv, TypesInv, NamesInv, AddressInv
<1>4. addr \in Addresses /\ addr.type = TypeOf(n)
  <2>1. stationType[n] \in {"Unknown", "vehicle", "RSU"}
    BY <1>2 DEF IInv, TypesInv
  <2>2. addr \in Addresses
    BY <2>1 DEF Addresses
  <2>3. addr.type = stationType[n]
    BY DEF GenerateAddress
  <2> QED
    BY <1>3, <2>2, <2>3
<1> HIDE DEF addr
<1>5. /\ id \in Identities /\ id.traci = identity[n].traci
      /\ id.application = identity[n].application
      /\ DOMAIN id.geonet = DOMAIN identity[n].geonet \cup {i} /\ id.geonet[i] = addr
      /\ \A j \in DOMAIN identity[n].geonet : id.geonet[j] = identity[n].geonet[j]
  BY <1>3, <1>4, AddressAdded
<1> HIDE DEF id
<1>6. /\ \A m \in Nodes : identity'[m] = IF m = n THEN id ELSE identity[m]
      /\ \A j \in Interfaces : address'[j] = IF j = i THEN addr ELSE address[j]
      /\ \A j \in Interfaces : channel'[j] = IF j = i THEN RadioChannel[i] ELSE channel[j]
  BY <1>1 DEF IInv, TypesInv
<1> HIDE DEF n
<1>7. TypesInv'
  BY <1>1, <1>2, <1>4, <1>5 DEF IInv, TypesInv
<1>8. NamesInv'
  <2>1. \A m \in Nodes : /\ identity'[m].traci = identity[m].traci
                         /\ identity'[m].application = identity[m].application
    BY <1>5, <1>6
  <2> QED
    BY <1>1, <2>1 DEF IInv, NamesInv, Nodes
<1>9. AddressInv'
  <2> SUFFICES ASSUME NEW j \in Interfaces
               PROVE  /\ j \in properties' =>
                           /\ phase[Host[j]] = Alive /\ channel'[j] = 0
                           /\ j \notin DOMAIN identity'[Host[j]].geonet
                      /\ phase[Host[j]] = Absent => channel'[j] = 0
                      /\ phase[Host[j]] = Alive /\ channel'[j] # 0 =>
                           /\ j \in DOMAIN identity'[Host[j]].geonet
                           /\ identity'[Host[j]].geonet[j] = address'[j]
                           /\ address'[j].type = TypeOf(Host[j])
    BY <1>1 DEF AddressInv
  <2>1. Host[j] \in Nodes
    BY StationAssumption
  <2>2. CASE j = i
    <3>1. Host[j] = n
      BY <2>2 DEF n
    <3> QED
      BY <1>1, <1>3, <1>4, <1>5, <1>6, <2>1, <2>2, <3>1 DEF Absent, Alive
  <2>3. CASE j # i /\ Host[j] = n
    <3>1. identity'[n] = id
      BY <1>2, <1>6
    <3>2. channel'[j] = channel[j] /\ address'[j] = address[j]
      BY <1>6, <2>3
    <3>3. j \in DOMAIN id.geonet <=> j \in DOMAIN identity[n].geonet
      BY <1>5, <2>3
    <3>4. j \in DOMAIN identity[n].geonet => id.geonet[j] = identity[n].geonet[j]
      BY <1>5
    <3> QED
      BY <1>1, <2>3, <3>1, <3>2, <3>3, <3>4 DEF IInv, AddressInv
  <2>4. CASE Host[j] # n
    <3>1. j # i
      BY <2>4 DEF n
    <3> QED
      BY <1>1, <1>6, <2>1, <2>4, <3>1 DEF IInv, AddressInv
  <2> QED
    BY <2>2, <2>3, <2>4
<1>10. EntriesInv'
  <2>1. /\ DOMAIN registry' = DOMAIN registry \cup {id.traci} /\ registry'[id.traci] = id
        /\ \A name \in DOMAIN registry : name # id.traci => registry'[name] = registry[name]
    BY <1>1 DEF Announced, RegistryUpdate
  <2>2. CASE n \in Vehicles
    <3>1. id.traci = TraciName[n] /\ TraciName[n] \in DOMAIN registry
      BY <1>3, <1>5, <2>2 DEF IInv, NamesInv, EntriesInv
    <3>2. DOMAIN registry' = DOMAIN registry
      BY <2>1, <3>1
    <3>3. ASSUME NEW m \in Vehicles, phase[m] = Alive
          PROVE  TraciName[m] \in DOMAIN registry' /\ registry'[TraciName[m]] = identity'[m]
      <4>1. m \in Nodes
        BY DEF Nodes
      <4>2. TraciName[m] \in DOMAIN registry /\ registry[TraciName[m]] = identity[m]
        BY <3>3 DEF IInv, EntriesInv
      <4>3. CASE m = n
        BY <1>6, <2>1, <3>1, <4>1, <4>3
      <4>4. CASE m # n
        <5>1. TraciName[m] # TraciName[n]
          BY <1>3, <2>2, <3>3, <4>4 DEF IInv, NamesInv
        <5> QED
          BY <1>6, <2>1, <3>1, <4>1, <4>2, <4>4, <5>1
      <4> QED
        BY <4>3, <4>4
    <3> QED
      BY <1>1, <3>2, <3>3 DEF IInv, EntriesInv
  <2>3. CASE n \in RSUs
    <3>1. id.traci = ""
      BY <1>5, <2>3 DEF IInv, NamesInv
    <3>2. ASSUME NEW m \in Vehicles, phase[m] = Alive
          PROVE  TraciName[m] \in DOMAIN registry' /\ registry'[TraciName[m]] = identity'[m]
      <4>1. m \in Nodes /\ m # n /\ TraciName[m] # ""
        BY <2>3, StationAssumption DEF Nodes
      <4>2. TraciName[m] \in DOMAIN registry /\ registry[TraciName[m]] = identity[m]
        BY <3>2 DEF IInv, EntriesInv
      <4> QED
        BY <1>6, <2>1, <3>1, <4>1, <4>2
    <3>3. \A name \in DOMAIN registry' \ {""} : name \in DOMAIN registry \ {""}
      BY <2>1, <3>1
    <3> QED
      BY <1>1, <3>2, <3>3 DEF IInv, EntriesInv
  <2> QED
    BY <1>2, <2>2, <2>3 DEF Nodes
<1> QED
  BY <1>7, <1>8, <1>9, <1>10 DEF IInv

(* The end of a vehicle.                                                   *)
LEMMA FinishInv ==
    ASSUME IInv, NEW n \in Vehicles, Finish(n)
    PROVE  IInv'
<1>1. /\ phase[n] = Alive /\ phase' = [phase EXCEPT ![n] = Gone]
      /\ registry' = RegistryRemove(registry, identity[n])
      /\ properties' = properties \ Own(n)
      /\ identity' = identity /\ stationType' = stationType
      /\ channel' = channel /\ address' = address
  BY DEF Finish
<1>2. \A m \in Nodes : phase'[m] = IF m = n THEN Gone ELSE phase[m]
  BY <1>1 DEF IInv, TypesInv
<1>3. identity[n].traci = TraciName[n] /\ n \in Nodes
  BY <1>1 DEF IInv, NamesInv, Nodes
<1>4. TypesInv'
  BY <1>1 DEF IInv, TypesInv
<1>5. NamesInv'
  <2>1. \A m \in Nodes : phase'[m] = Alive => phase[m] = Alive
    BY <1>2 DEF Alive, Gone
  <2>2. Vehicles \subseteq Nodes /\ RSUs \subseteq Nodes
    BY DEF Nodes
  <2> QED
    BY <1>1, <2>1, <2>2 DEF IInv, NamesInv
<1>6. AddressInv'
  <2>1. \A i \in Interfaces : Host[i] \in Nodes
    BY StationAssumption
  <2>2. \A i \in properties' : i \in properties /\ Host[i] # n
    BY <1>1 DEF Own, IInv, TypesInv
  <2> QED
    BY <1>1, <1>2, <2>1, <2>2 DEF IInv, AddressInv, Absent, Alive, Gone
<1>7. EntriesInv'
  <2>1. /\ DOMAIN registry' = DOMAIN registry \ {TraciName[n]}
        /\ \A name \in DOMAIN registry' : registry'[name] = registry[name]
    BY <1>1, <1>3 DEF RegistryRemove
  <2>2. ASSUME NEW m \in Vehicles, phase'[m] = Alive
        PROVE  TraciName[m] \in DOMAIN registry' /\ registry'[TraciName[m]] = identity[m]
    <3>1. m \in Nodes /\ m # n /\ phase[m] = Alive
      BY <1>2, <1>3, <2>2 DEF Nodes, Alive, Gone
    <3>2. TraciName[m] # TraciName[n]
      BY <1>1, <3>1 DEF IInv, NamesInv
    <3> QED
      BY <2>1, <3>1, <3>2 DEF IInv, EntriesInv
  <2>3. ASSUME NEW name \in DOMAIN registry' \ {""}
        PROVE  \E m \in Vehicles : phase'[m] = Alive /\ TraciName[m] = name
    <3>1. PICK m \in Vehicles : phase[m] = Alive /\ TraciName[m] = name
      BY <2>1 DEF IInv, EntriesInv
    <3>2. m # n /\ m \in Nodes
      BY <2>1, <3>1 DEF Nodes
    <3> QED
      BY <1>2, <3>1, <3>2
  <2> QED
    BY <1>1, <2>2, <2>3 DEF EntriesInv
<1> QED
  BY <1>4, <1>5, <1>6, <1>7 DEF IInv

(* Packets leave identities and registry alone.                            *)
LEMMA PacketInv ==
    ASSUME IInv,
           UNCHANGED <<phase, identity, stationType, channel, address, properties, registry>>
    PROVE  IInv'
BY DEF IInv, TypesInv, NamesInv, AddressInv, EntriesInv

(* Every step keeps the invariant.                                         *)
LEMMA StepInv == IInv /\ [Next]_vars => IInv'
<1> SUFFICES ASSUME IInv, [Next]_vars
             PROVE  IInv'
  OBVIOUS
<1>1. ASSUME NEW n \in Nodes, Create(n)
      PROVE  IInv'
  BY <1>1, CreateInv
<1>2. ASSUME NEW n \in Vehicles, Finish(n)
      PROVE  IInv'
  BY <1>2, FinishInv
<1>3. ASSUME NEW i \in Interfaces, HandleProperties(i)
      PROVE  IInv'
  BY <1>3, HandlePropertiesInv
<1>4. ASSUME NEW n \in Nodes, NEW aid \in ItsAids, NEW port \in Ports,
             RequestTransmission(n, aid, port)
      PROVE  IInv'
  BY <1>4, PacketInv DEF RequestTransmission, Sent
<1>5. ASSUME NEW i \in Interfaces, NEW port \in Ports, RequestOn(i, port)
      PROVE  IInv'
  BY <1>5, PacketInv DEF RequestOn, Sent
<1>6. ASSUME NEW f \in air, HandleData(f)
      PROVE  IInv'
  BY <1>6, PacketInv DEF HandleData
<1>7. ASSUME NEW f \in air, Lose(f)
      PROVE  IInv'
  BY <1>7, PacketInv DEF Lose
<1>8. CASE UNCHANGED vars
  BY <1>8, PacketInv DEF vars
<1> QED
  BY <1>1, <1>2, <1>3, <1>4, <1>5, <1>6, <1>7, <1>8 DEF Next

-----------------------------------------------------------------------------

(* The inductive invariant holds in every reachable state of Station.      *)
THEOREM Invariance == Spec => []IInv
  BY InitInv, StepInv, PTL DEF Spec

(* The registry is true for any number of stations, radios and names:      *)
(* every living vehicle is found under its name with its own id and the    *)
(* addresses its routers send with, and nobody who is gone is found        *)
(* (IdentityRegistry::receiveSignal, Identity::update, Router).            *)
THEOREM RegistryIsTrue == Spec => []RegistryTrue
<1>1. IInv => RegistryTrue
  <2> SUFFICES ASSUME IInv
               PROVE  RegistryTrue
    OBVIOUS
  <2>1. ASSUME NEW n \in Vehicles, phase[n] = Alive
        PROVE  /\ TraciName[n] \in DOMAIN registry
               /\ registry[TraciName[n]] = identity[n]
               /\ identity[n].application = n
    BY <2>1 DEF IInv, EntriesInv, NamesInv
  <2>2. ASSUME NEW n \in Vehicles, phase[n] = Alive, NEW i \in Own(n), channel[i] # 0
        PROVE  /\ i \in DOMAIN identity[n].geonet
               /\ identity[n].geonet[i] = address[i]
               /\ address[i].type = TypeOf(n)
    BY <2>2 DEF Own, IInv, AddressInv
  <2>3. ASSUME NEW n \in Vehicles, phase[n] = Alive
        PROVE  /\ TraciName[n] \in DOMAIN registry
               /\ registry[TraciName[n]].application = n
               /\ \A i \in Own(n) : channel[i] # 0 =>
                   /\ i \in DOMAIN registry[TraciName[n]].geonet
                   /\ registry[TraciName[n]].geonet[i] = address[i]
                   /\ address[i].type = TypeOf(n)
    BY <2>1, <2>2, <2>3
  <2> QED
    BY <2>3 DEF RegistryTrue, IInv, EntriesInv
<1> QED
  BY Invariance, <1>1, PTL

-----------------------------------------------------------------------------

(* SetToSeq puts every element of a finite set into the sequence once.     *)
LEMMA SetToSeqBijection ==
    ASSUME NEW S, IsFiniteSet(S)
    PROVE  /\ SetToSeq(S) \in [1..Cardinality(S) -> S]
           /\ Cardinality(S) \in Nat
           /\ Len(SetToSeq(S)) = Cardinality(S)
           /\ DOMAIN SetToSeq(S) = 1..Cardinality(S)
           /\ \A x \in S : \E k \in 1..Cardinality(S) : SetToSeq(S)[k] = x
<1> DEFINE n == Cardinality(S)
<1>1. n \in Nat /\ ExistsBijection(1..n, S)
  BY FS_CardinalityType
<1>2. PICK g : g \in Bijection(1..n, S)
  BY <1>1 DEF ExistsBijection
<1>3. g \in [1..n -> S] /\ IsInjective(g)
  BY <1>2 DEF Bijection, Injection
<1>4. SetToSeq(S) \in [1..n -> S] /\ IsInjective(SetToSeq(S))
  BY <1>3 DEF SetToSeq
<1> DEFINE q == SetToSeq(S)
<1>5. q \in Injection(1..n, S)
  BY <1>4 DEF Injection
<1> HIDE DEF q
<1>6. IsFiniteSet(1..n) /\ Cardinality(1..n) = n
  BY <1>1, FS_Interval
<1>7. q \in Surjection(1..n, S)
  BY <1>5, <1>6, FS_Injection
<1>8. \A x \in S : \E k \in 1..n : q[k] = x
  BY <1>7 DEF Surjection
<1>9. Len(q) = n /\ DOMAIN q = 1..n
  BY <1>1, <1>4 DEF q
<1> QED
  BY <1>1, <1>4, <1>8, <1>9 DEF q

(* The channels for which there is an interface.                           *)
Present(channels, table, ch) == {number \in channels : OnChannel(table, ch, number) # {}}

(* Every channel with an interface gets the packet, as a whole and once:   *)
(* there are never more passes than channels.                              *)
LEMMA HandedOver ==
    ASSUME NEW channels, IsFiniteSet(channels), NEW table, NEW ch
    PROVE  /\ Len(HandOver(channels, table, ch)) = Cardinality(Present(channels, table, ch))
           /\ \A k \in DOMAIN HandOver(channels, table, ch) :
                /\ HandOver(channels, table, ch)[k].packet = Whole
                /\ HandOver(channels, table, ch)[k].ifc \in table
                /\ ch[HandOver(channels, table, ch)[k].ifc] \in Present(channels, table, ch)
           /\ \A number \in Present(channels, table, ch) :
                \E k \in DOMAIN HandOver(channels, table, ch) :
                    ch[HandOver(channels, table, ch)[k].ifc] = number
<1> DEFINE present == Present(channels, table, ch)
           q == SetToSeq(present)
           n == Cardinality(present)
           Packet(k) == IF \E earlier \in 1..(k - 1) : ~MoreChannels(channels, earlier)
                        THEN Moved ELSE Whole
           handed == [pass \in 1..Len(q) |->
                        [ifc |-> Select(table, ch, q[pass]), packet |-> Packet(pass)]]
<1>1. HandOver(channels, table, ch) = handed
  BY DEF HandOver, Present
<1>2. /\ IsFiniteSet(present) /\ n <= Cardinality(channels)
      /\ Cardinality(channels) \in Nat
  <2>1. present \in SUBSET channels
    BY DEF Present
  <2> QED
    BY <2>1, FS_Subset, FS_CardinalityType
<1>3. /\ q \in [1..n -> present] /\ n \in Nat /\ Len(q) = n
      /\ \A x \in present : \E k \in 1..n : q[k] = x
  <2> HIDE DEF present
  <2> QED
    BY <1>2, SetToSeqBijection
<1>4. \A number \in present :
        Select(table, ch, number) \in table /\ ch[Select(table, ch, number)] = number
  BY DEF Select, OnChannel, Present
<1> HIDE DEF present
<1>5. ASSUME NEW k \in 1..n
      PROVE  Packet(k) = Whole
  <2> SUFFICES ASSUME NEW earlier \in 1..(k - 1)
               PROVE  Cardinality(channels) > earlier
    BY DEF MoreChannels
  <2> HIDE DEF n
  <2> QED
    BY <1>2, <1>3
<1> HIDE DEF q, n
<1>6. DOMAIN handed = 1..n /\ Len(handed) = n
  BY <1>3
<1>7. \A k \in 1..n : /\ handed[k].ifc = Select(table, ch, q[k])
                      /\ handed[k].packet = Whole
  BY <1>3, <1>5
<1> HIDE DEF handed
<1>8. \A k \in 1..n : /\ handed[k].packet = Whole
                      /\ handed[k].ifc \in table /\ ch[handed[k].ifc] = q[k]
                      /\ q[k] \in present
  <2> SUFFICES ASSUME NEW k \in 1..n
               PROVE  /\ handed[k].packet = Whole
                      /\ handed[k].ifc \in table /\ ch[handed[k].ifc] = q[k]
                      /\ q[k] \in present
    OBVIOUS
  <2>1. q[k] \in present
    BY <1>3
  <2>2. handed[k].packet = Whole /\ handed[k].ifc = Select(table, ch, q[k])
    BY <1>7
  <2> QED
    BY <1>4, <2>1, <2>2
<1>9. \A number \in present : \E k \in 1..n : ch[handed[k].ifc] = number
  BY <1>3, <1>8
<1> QED
  BY <1>1, <1>6, <1>8, <1>9 DEF n, present

(* The listeners that the dispatcher finds under a key.                    *)
Heard(map, key) == {entry[2] : entry \in {e \in map : e[1] = key}}

(* These listeners, and those who tap, are served.                         *)
Served(all, hearing, tapping) ==
    /\ WholeOnceEach(all.got, {all.got[k].service : k \in DOMAIN all.got}, hearing)
    /\ WholeOnceEach(all.tapped, {all.tapped[k].service : k \in DOMAIN all.tapped}, tapping)

(* Every listener gets the packet as a whole and once, also the last one.  *)
LEMMA IndicatedAll ==
    ASSUME NEW heard, NEW tapped, NEW c, NEW port,
           IsFiniteSet(Heard(heard, <<c, port>>)), IsFiniteSet(Heard(tapped, c)),
           NEW all, all = Indicate(heard, tapped, c, port, Whole)
    PROVE  Served(all, Heard(heard, <<c, port>>), Heard(tapped, c))
<1> DEFINE H == Heard(heard, <<c, port>>)
           T == Heard(tapped, c)
           h == SetToSeq(H)
           t == SetToSeq(T)
           Packet(k) == IF \E earlier \in 1..(k - 1) : ~OthersPending(Len(h) - earlier + 1)
                        THEN Moved ELSE Whole
           got == [k \in 1..Len(h) |-> [service |-> h[k], packet |-> Packet(k)]]
           taken == [k \in 1..Len(t) |-> [service |-> t[k], packet |-> Whole]]
<1>1. Indicate(heard, tapped, c, port, Whole) = [tapped |-> taken, got |-> got]
  BY DEF Indicate, Found, Heard
<1>2. /\ h \in [1..Cardinality(H) -> H] /\ Cardinality(H) \in Nat /\ Len(h) = Cardinality(H)
      /\ \A x \in H : \E k \in 1..Cardinality(H) : h[k] = x
  BY SetToSeqBijection
<1>3. /\ t \in [1..Cardinality(T) -> T] /\ Cardinality(T) \in Nat /\ Len(t) = Cardinality(T)
      /\ \A x \in T : \E k \in 1..Cardinality(T) : t[k] = x
  BY SetToSeqBijection
<1> HIDE DEF H, T, h, t
<1>4. ASSUME NEW k \in 1..Len(h)
      PROVE  Packet(k) = Whole
  <2> SUFFICES ASSUME NEW earlier \in 1..(k - 1)
               PROVE  Len(h) - earlier + 1 > 1
    BY DEF OthersPending
  <2> QED
    BY <1>2
<1>5. /\ DOMAIN got = 1..Cardinality(H) /\ Len(got) = Cardinality(H)
      /\ \A k \in 1..Cardinality(H) : got[k] = [service |-> h[k], packet |-> Whole]
  BY <1>2, <1>4
<1>6. /\ DOMAIN taken = 1..Cardinality(T) /\ Len(taken) = Cardinality(T)
      /\ \A k \in 1..Cardinality(T) : taken[k] = [service |-> t[k], packet |-> Whole]
  BY <1>3
<1> HIDE DEF got, taken
<1>7. {got[k].service : k \in DOMAIN got} = H
  BY <1>2, <1>5
<1>8. {taken[k].service : k \in DOMAIN taken} = T
  BY <1>3, <1>6
<1>9. /\ \A k \in DOMAIN got : got[k].packet = Whole
      /\ \A k \in DOMAIN taken : taken[k].packet = Whole
  BY <1>5, <1>6
<1>10. all.got = got /\ all.tapped = taken
  BY <1>1
<1> QED
  BY <1>5, <1>6, <1>7, <1>8, <1>9, <1>10 DEF Served, WholeOnceEach, H, T

(* Channel numbers in the configuration of the policy are known.           *)
KnownChannels == \A app \in PolicyConfig.applications : ParseChannelNumber(app[2]) # 0

(* What the policy answers is what the configuration says.                 *)
LEMMA PolicyFollowed ==
    ASSUME NEW aid
    PROVE  /\ IsFiniteSet(AllChannels(Policy, aid))
           /\ AllChannels(Policy, aid) \subseteq Wanted(aid)
           /\ Wanted(aid) \ {0} \subseteq AllChannels(Policy, aid)
           /\ KnownChannels => 0 \notin AllChannels(Policy, aid)
<1> DEFINE known == {app[1] : app \in PolicyConfig.applications}
           Of(a) == {ParseChannelNumber(app[2]) :
                        app \in {x \in PolicyConfig.applications : x[1] = a}}
<1>1. /\ Policy.default = ParseChannelNumber(PolicyConfig.default)
      /\ DOMAIN Policy.mapping = known
      /\ \A a \in known : Policy.mapping[a] = Of(a)
  BY DEF Policy, ReadPolicy
<1>2. CASE aid \in known
  <2>1. AllChannels(Policy, aid) = Of(aid) /\ Wanted(aid) = Of(aid)
    BY <1>1, <1>2 DEF AllChannels, Wanted
  <2>3. KnownChannels => 0 \notin Of(aid)
    BY DEF KnownChannels
  <2>4. IsFiniteSet(Of(aid))
    <3> DEFINE apps == {x \in PolicyConfig.applications : x[1] = aid}
               reading == [app \in apps |-> ParseChannelNumber(app[2])]
    <3>1. IsFiniteSet(apps)
      BY ConfigurationAssumption, FS_Subset
    <3>2. reading \in Surjection(apps, Of(aid))
      BY DEF Surjection
    <3> HIDE DEF Of, apps, reading
    <3> QED
      BY <3>1, <3>2, FS_Surjection
  <2> QED
    BY <2>1, <2>3, <2>4
<1>3. CASE aid \notin known
  <2>1. /\ AllChannels(Policy, aid) = {ParseChannelNumber(PolicyConfig.default)} \ {0}
        /\ Wanted(aid) = {ParseChannelNumber(PolicyConfig.default)}
    BY <1>1, <1>3 DEF AllChannels, Wanted
  <2>2. IsFiniteSet({ParseChannelNumber(PolicyConfig.default)} \ {0})
    BY FS_Singleton, FS_RemoveElement
  <2> QED
    BY <2>1, <2>2
<1> QED
  BY <1>2, <1>3

-----------------------------------------------------------------------------

(* The dispatcher knows exactly the services that run, interfaces operate  *)
(* on the channel of their radio, and frames on the air are complete and   *)
(* on their way to radios on their channel.                                *)
DeliveryInv ==
    /\ services = [n \in Nodes |-> services[n]]
    /\ listeners = [n \in Nodes |-> UNION {ListenerEntries(s) : s \in Running(n)}]
    /\ taps = [n \in Nodes |-> UNION {TapEntries(s) : s \in Running(n)}]
    /\ \A i \in Interfaces : channel[i] \in {0, RadioChannel[i]}
    /\ \A f \in air :
         /\ f.to \in Interfaces /\ f.packet = Whole /\ f.port \in Ports
         /\ f.channel = RadioChannel[f.to]

(* There are finitely many services, and thus finitely many names.         *)
LEMMA ServiceNamesFinite == IsFiniteSet({s.name : s \in ServiceConfig})
<1> DEFINE T == {s.name : s \in ServiceConfig}
           naming == [s \in ServiceConfig |-> s.name]
<1>1. naming \in Surjection(ServiceConfig, T)
  BY DEF Surjection
<1> HIDE DEF T, naming
<1>2. IsFiniteSet(T)
  BY <1>1, ConfigurationAssumption, FS_Surjection
<1> QED
  BY <1>2 DEF T

(* Under a channel and a port the dispatcher finds the services that listen*)
(* there.                                                                  *)
LEMMA ListenersFound ==
    ASSUME DeliveryInv, NEW n \in Nodes, NEW c, NEW port \in Ports
    PROVE  /\ Heard(listeners[n], <<c, port>>) = {s.name : s \in Hearing(n, c, port)}
           /\ IsFiniteSet(Heard(listeners[n], <<c, port>>))
<1>1. listeners[n] = UNION {ListenerEntries(s) : s \in Running(n)}
  BY DEF DeliveryInv
<1>2. port # NoPort
  BY ConfigurationAssumption
<1>3. ASSUME NEW name \in Heard(listeners[n], <<c, port>>)
      PROVE  \E s \in Hearing(n, c, port) : s.name = name
  <2>1. PICK e \in listeners[n] : e[1] = <<c, port>> /\ e[2] = name
    BY DEF Heard
  <2>2. PICK s \in Running(n) : e \in ListenerEntries(s)
    BY <1>1, <2>1
  <2>3. PICK l \in s.listeners : e = <<<<ListenerChannel(l.channel), l.port>>, s.name>>
    BY <2>2 DEF ListenerEntries
  <2>4. ListenerChannel(l.channel) = c /\ l.port = port /\ s.name = name
    BY <2>1, <2>3
  <2> QED
    BY <2>4 DEF Hearing
<1>4. ASSUME NEW s \in Hearing(n, c, port)
      PROVE  s.name \in Heard(listeners[n], <<c, port>>)
  <2>1. PICK l \in s.listeners : l.port = port /\ ListenerChannel(l.channel) = c
    BY DEF Hearing
  <2>2. <<<<c, port>>, s.name>> \in ListenerEntries(s)
    BY <1>2, <2>1 DEF ListenerEntries
  <2>3. <<<<c, port>>, s.name>> \in listeners[n]
    BY <1>1, <2>2 DEF Hearing
  <2> QED
    BY <2>3 DEF Heard
<1>5. Heard(listeners[n], <<c, port>>) = {s.name : s \in Hearing(n, c, port)}
  BY <1>3, <1>4
<1>6. Heard(listeners[n], <<c, port>>) \in SUBSET {s.name : s \in ServiceConfig}
  BY <1>3 DEF Hearing, Running
<1> QED
  BY <1>5, <1>6, ServiceNamesFinite, FS_Subset

(* Under a channel the dispatcher finds the services that tap it.          *)
LEMMA TapsFound ==
    ASSUME DeliveryInv, NEW n \in Nodes, NEW c
    PROVE  /\ Heard(taps[n], c) = {s.name : s \in Tapping(n, c)}
           /\ IsFiniteSet(Heard(taps[n], c))
<1>1. taps[n] = UNION {TapEntries(s) : s \in Running(n)}
  BY DEF DeliveryInv
<1>2. ASSUME NEW s \in Running(n)
      PROVE  <<c, s.name>> \in TapEntries(s) <=> s \in Tapping(n, c)
  <2>1. TapChannels(s) = {ListenerChannel(l.channel) :
                            l \in {x \in s.listeners : x.port = NoPort /\ x.channel # NoChannel}}
    BY DEF TapChannels
  <2>2. TapChannels(s) = {} <=> ~ \E l \in s.listeners : l.port = NoPort /\ l.channel # NoChannel
    BY <2>1
  <2>3. c \in TapChannels(s) <=>
          \E l \in s.listeners : l.port = NoPort /\ l.channel # NoChannel
                /\ ListenerChannel(l.channel) = c
    BY <2>1
  <2>4. <<c, s.name>> \in TapEntries(s) <=>
          s.promiscuous /\ c \in IF TapChannels(s) = {} THEN {CCH} ELSE TapChannels(s)
    BY DEF TapEntries
  <2> QED
    BY <2>2, <2>3, <2>4 DEF Tapping
<1>3. ASSUME NEW name \in Heard(taps[n], c)
      PROVE  \E s \in Tapping(n, c) : s.name = name
  <2>1. PICK e \in taps[n] : e[1] = c /\ e[2] = name
    BY DEF Heard
  <2>2. PICK s \in Running(n) : e \in TapEntries(s)
    BY <1>1, <2>1
  <2>3. e = <<c, name>> /\ s.name = name
    BY <2>1, <2>2 DEF TapEntries
  <2> QED
    BY <1>2, <2>2, <2>3
<1>4. ASSUME NEW s \in Tapping(n, c)
      PROVE  s.name \in Heard(taps[n], c)
  <2>1. s \in Running(n)
    BY DEF Tapping
  <2>2. <<c, s.name>> \in taps[n]
    BY <1>1, <1>2, <2>1
  <2> QED
    BY <2>2 DEF Heard
<1>5. Heard(taps[n], c) = {s.name : s \in Tapping(n, c)}
  BY <1>3, <1>4
<1>6. Heard(taps[n], c) \in SUBSET {s.name : s \in ServiceConfig}
  BY <1>3 DEF Tapping, Running
<1> QED
  BY <1>5, <1>6, ServiceNamesFinite, FS_Subset

(* In the beginning nobody runs a service and nothing is on the air.       *)
LEMMA InitDelivery == Init => DeliveryInv
<1> SUFFICES ASSUME Init
             PROVE  DeliveryInv
  OBVIOUS
<1>1. \A n \in Nodes : services[n] = {} /\ Running(n) = {}
  BY DEF Init, Running
<1>2. UNION {ListenerEntries(s) : s \in {}} = {} /\ UNION {TapEntries(s) : s \in {}} = {}
  OBVIOUS
<1>3. listeners = [n \in Nodes |-> UNION {ListenerEntries(s) : s \in Running(n)}]
  BY <1>1, <1>2 DEF Init
<1>4. taps = [n \in Nodes |-> UNION {TapEntries(s) : s \in Running(n)}]
  BY <1>1, <1>2 DEF Init
<1> QED
  BY <1>3, <1>4 DEF Init, DeliveryInv

(* A packet that is handed over puts whole frames on the air.              *)
LEMMA SentDelivery ==
    ASSUME DeliveryInv, NEW n, NEW aid, NEW port \in Ports, NEW handed,
           \A k \in DOMAIN handed : handed[k].packet = Whole,
           Sent(n, aid, port, handed)
    PROVE  DeliveryInv'
<1>1. /\ air' = air \cup Frames(handed, port)
      /\ UNCHANGED <<services, listeners, taps, channel>>
  BY DEF Sent
<1>2. ASSUME NEW f \in Frames(handed, port)
      PROVE  /\ f.to \in Interfaces /\ f.packet = Whole /\ f.port \in Ports
             /\ f.channel = RadioChannel[f.to]
  <2>1. PICK h \in {handed[k] : k \in DOMAIN handed}, i \in Interfaces :
          /\ RadioChannel[i] = RadioChannel[h.ifc]
          /\ f = [number |-> frames, from |-> h.ifc, source |-> address[h.ifc],
                  packet |-> h.packet, channel |-> RadioChannel[h.ifc], port |-> port, to |-> i]
    BY DEF Frames
  <2>2. h.packet = Whole
    OBVIOUS
  <2>3. f.to = i /\ f.packet = h.packet /\ f.port = port /\ f.channel = RadioChannel[h.ifc]
    BY <2>1
  <2> QED
    BY <2>1, <2>2, <2>3
<1>3. \A m : Running(m)' = Running(m)
  BY <1>1 DEF Running
<1> QED
  BY <1>1, <1>2, <1>3 DEF DeliveryInv

(* A new station registers the services it runs.                           *)
LEMMA CreateDelivery ==
    ASSUME IInv, DeliveryInv, NEW n \in Nodes, Create(n)
    PROVE  DeliveryInv'
<1>1. PICK chosen \in SUBSET ServiceConfig :
        /\ services' = [services EXCEPT ![n] = {s.name : s \in chosen}]
        /\ listeners' = [listeners EXCEPT ![n] = UNION {ListenerEntries(s) : s \in chosen}]
        /\ taps' = [taps EXCEPT ![n] = UNION {TapEntries(s) : s \in chosen}]
  BY DEF Create, InitializeServices, Runnable
<1>2. channel' = channel /\ air' = air
  BY DEF Create
<1>3. /\ services = [m \in Nodes |-> services[m]]
      /\ listeners = [m \in Nodes |-> UNION {ListenerEntries(s) : s \in Running(m)}]
      /\ taps = [m \in Nodes |-> UNION {TapEntries(s) : s \in Running(m)}]
  BY DEF DeliveryInv
<1>4. \A m \in Nodes : services'[m] = IF m = n THEN {s.name : s \in chosen} ELSE services[m]
  BY <1>1, <1>3
<1>5. Running(n)' = chosen
  <2>1. ASSUME NEW s \in ServiceConfig, s.name \in services'[n]
        PROVE  s \in chosen
    <3>1. s.name \in {t.name : t \in chosen}
      BY <1>4, <2>1
    <3>2. PICK t \in chosen : s.name = t.name
      BY <3>1
    <3>3. t \in ServiceConfig
      BY <1>1
    <3> QED
      BY <3>2, <3>3, ConfigurationAssumption
  <2>2. \A s \in chosen : s.name \in services'[n] /\ s \in ServiceConfig
    BY <1>4
  <2> QED
    BY <2>1, <2>2 DEF Running
<1>6. \A m \in Nodes : m # n => Running(m)' = Running(m)
  BY <1>4 DEF Running
<1>7. listeners' = [m \in Nodes |-> UNION {ListenerEntries(s) : s \in Running(m)'}]
  BY <1>1, <1>3, <1>5, <1>6
<1>8. taps' = [m \in Nodes |-> UNION {TapEntries(s) : s \in Running(m)'}]
  BY <1>1, <1>3, <1>5, <1>6
<1>9. services' = [m \in Nodes |-> services'[m]]
  BY <1>1, <1>3
<1> QED
  BY <1>2, <1>7, <1>8, <1>9 DEF DeliveryInv

(* Frames only vanish, and channels change to those of the radios.         *)
LEMMA QuietDelivery ==
    ASSUME IInv, DeliveryInv, UNCHANGED <<services, listeners, taps>>, air' \subseteq air,
           \/ UNCHANGED channel
           \/ \E i \in Interfaces : channel' = [channel EXCEPT ![i] = RadioChannel[i]]
    PROVE  DeliveryInv'
<1>1. \A n : Running(n)' = Running(n)
  BY DEF Running
<1>2. \A i \in Interfaces : channel'[i] \in {0, RadioChannel[i]}
  BY DEF DeliveryInv, IInv, TypesInv
<1> QED
  BY <1>1, <1>2 DEF DeliveryInv

(* Every step keeps the invariant of the dispatcher and the air.           *)
LEMMA StepDelivery == IInv /\ DeliveryInv /\ [Next]_vars => DeliveryInv'
<1> SUFFICES ASSUME IInv, DeliveryInv, [Next]_vars
             PROVE  DeliveryInv'
  OBVIOUS
<1>1. ASSUME NEW n \in Nodes, Create(n)
      PROVE  DeliveryInv'
  BY <1>1, CreateDelivery
<1>2. ASSUME NEW n \in Vehicles, Finish(n)
      PROVE  DeliveryInv'
  BY <1>2, QuietDelivery DEF Finish
<1>3. ASSUME NEW i \in Interfaces, HandleProperties(i)
      PROVE  DeliveryInv'
  BY <1>3, QuietDelivery DEF HandleProperties
<1>4. ASSUME NEW n \in Nodes, NEW aid \in ItsAids, NEW port \in Ports,
             RequestTransmission(n, aid, port)
      PROVE  DeliveryInv'
  <2> DEFINE handed == HandOver(AllChannels(Policy, aid), Own(n), channel)
  <2>1. Sent(n, aid, port, handed)
    BY <1>4 DEF RequestTransmission
  <2>2. \A k \in DOMAIN handed : handed[k].packet = Whole
    <3> DEFINE channels == AllChannels(Policy, aid)
    <3>1. IsFiniteSet(channels)
      BY PolicyFollowed
    <3> HIDE DEF channels
    <3>2. \A k \in DOMAIN HandOver(channels, Own(n), channel) :
            HandOver(channels, Own(n), channel)[k].packet = Whole
      BY <3>1, HandedOver
    <3> QED
      BY <3>2 DEF channels
  <2> HIDE DEF handed
  <2> QED
    BY <2>1, <2>2, SentDelivery
<1>5. ASSUME NEW i \in Interfaces, NEW port \in Ports, RequestOn(i, port)
      PROVE  DeliveryInv'
  <2> DEFINE handed == <<[ifc |-> i, packet |-> Whole]>>
  <2>1. Sent(Host[i], None, port, handed)
    BY <1>5 DEF RequestOn
  <2>2. \A k \in DOMAIN handed : handed[k].packet = Whole
    OBVIOUS
  <2> HIDE DEF handed
  <2> QED
    BY <2>1, <2>2, SentDelivery
<1>6. ASSUME NEW f \in air, HandleData(f) \/ Lose(f)
      PROVE  DeliveryInv'
  BY <1>6, QuietDelivery DEF HandleData, Lose
<1>7. CASE UNCHANGED vars
  BY <1>7, QuietDelivery DEF vars
<1> QED
  BY <1>1, <1>2, <1>3, <1>4, <1>5, <1>6, <1>7 DEF Next

(* Services, dispatchers, channels and frames in every reachable state.    *)
THEOREM DeliveryInvariance == Spec => [](IInv /\ DeliveryInv)
<1>1. Init => IInv /\ DeliveryInv
  BY InitInv, InitDelivery
<1>2. IInv /\ DeliveryInv /\ [Next]_vars => IInv' /\ DeliveryInv'
  BY StepInv, StepDelivery
<1> QED
  BY <1>1, <1>2, PTL DEF Spec

(* A frame that arrives is indicated to those who listen, and to nobody    *)
(* else.                                                                   *)
LEMMA DataIndicated ==
    ASSUME DeliveryInv, NEW f \in air, HandleData(f)
    PROVE  ListenersServed'
<1> DEFINE n == Host[f.to]
           c == channel[f.to]
           all == Indicate(listeners[n], taps[n], c, f.port, f.packet)
<1>1. /\ f.to \in Interfaces /\ f.packet = Whole /\ f.port \in Ports
      /\ f.channel = RadioChannel[f.to] /\ c \in {0, RadioChannel[f.to]}
  BY DEF DeliveryInv
<1>2. n \in Nodes
  BY <1>1, StationAssumption
<1>3. /\ last' = [event |-> "received", frame |-> f, indicated |-> all]
      /\ services' = services /\ channel' = channel
  BY DEF HandleData
<1>4. last'.frame = f /\ last'.indicated = all
  BY <1>3
<1>5. ASSUME c # 0
      PROVE  Served(all, {s.name : s \in Hearing(n, f.channel, f.port)},
                    {s.name : s \in Tapping(n, f.channel)})
  <2>1. c = f.channel
    BY <1>1, <1>5
  <2>2. /\ Heard(listeners[n], <<c, f.port>>) = {s.name : s \in Hearing(n, f.channel, f.port)}
        /\ IsFiniteSet(Heard(listeners[n], <<c, f.port>>))
    BY <1>1, <1>2, <2>1, ListenersFound
  <2>3. /\ Heard(taps[n], c) = {s.name : s \in Tapping(n, f.channel)}
        /\ IsFiniteSet(Heard(taps[n], c))
    BY <1>2, <2>1, TapsFound
  <2>4. all = Indicate(listeners[n], taps[n], c, f.port, Whole)
    BY <1>1
  <2> HIDE DEF all, c, n
  <2>5. Served(all, Heard(listeners[n], <<c, f.port>>), Heard(taps[n], c))
    BY <2>2, <2>3, <2>4, IndicatedAll
  <2> QED
    BY <2>2, <2>3, <2>5
<1>6. /\ Hearing(n, f.channel, f.port)' = Hearing(n, f.channel, f.port)
      /\ Tapping(n, f.channel)' = Tapping(n, f.channel)
  BY <1>3 DEF Hearing, Tapping, Running
<1> HIDE DEF all
<1> QED
  BY <1>3, <1>4, <1>5, <1>6 DEF ListenersServed, Served

(* Packets reach their listeners, for any number of stations, services,    *)
(* channels and ports and whatever else happens: each service that listens *)
(* or taps gets a received packet once and complete                        *)
(* (TransportDispatcher::indicate, Middleware::requestTransmission).       *)
THEOREM ListenersAreServed == Spec => []ListenersServed
<1>1. Init => ListenersServed
  BY DEF Init, Idle, ListenersServed
<1>2. DeliveryInv /\ ListenersServed /\ [Next]_vars => ListenersServed'
  <2> SUFFICES ASSUME DeliveryInv, ListenersServed, [Next]_vars
               PROVE  ListenersServed'
    OBVIOUS
  <2>1. ASSUME NEW f \in air, HandleData(f)
        PROVE  ListenersServed'
    BY <2>1, DataIndicated
  <2>2. ASSUME NEW f \in air, Lose(f)
        PROVE  last'.event # "received"
    BY <2>2 DEF Lose, Idle
  <2>3. ASSUME NEW n \in Nodes, Create(n) \/ Finish(n)
        PROVE  last'.event # "received"
    BY <2>3 DEF Create, Finish, Idle
  <2>4. ASSUME NEW i \in Interfaces, HandleProperties(i)
        PROVE  last'.event # "received"
    BY <2>4 DEF HandleProperties, Idle
  <2>5. ASSUME NEW n \in Nodes, NEW aid \in ItsAids, NEW port \in Ports,
               RequestTransmission(n, aid, port)
        PROVE  last'.event # "received"
    BY <2>5 DEF RequestTransmission, Sent
  <2>6. ASSUME NEW i \in Interfaces, NEW port \in Ports, RequestOn(i, port)
        PROVE  last'.event # "received"
    BY <2>6 DEF RequestOn, Sent
  <2>7. CASE UNCHANGED vars
    <3>1. last' = last /\ channel' = channel /\ services' = services
      BY <2>7 DEF vars
    <3>2. /\ \A n, c, port : Hearing(n, c, port)' = Hearing(n, c, port)
          /\ \A n, c : Tapping(n, c)' = Tapping(n, c)
      BY <3>1 DEF Hearing, Tapping, Running
    <3> QED
      BY <3>1, <3>2 DEF ListenersServed
  <2>8. CASE last'.event # "received"
    BY <2>8 DEF ListenersServed
  <2> QED
    BY <2>1, <2>2, <2>3, <2>4, <2>5, <2>6, <2>7, <2>8 DEF Next
<1> QED
  BY <1>1, <1>2, DeliveryInvariance, PTL DEF Spec

(* A packet for the policy goes over all channels that are there.          *)
LEMMA PolicySent ==
    ASSUME KnownChannels, DeliveryInv, NEW n \in Nodes, NEW aid, NEW port,
           RequestTransmission(n, aid, port)
    PROVE  ChannelsServed'
<1> DEFINE channels == AllChannels(Policy, aid)
           handed == HandOver(channels, Own(n), channel)
           mine == {i \in Own(n) : channel[i] # 0}
           there == Wanted(aid) \cap {RadioChannel[i] : i \in mine}
<1>1. /\ last' = [event |-> "sent", node |-> n, aid |-> aid, handed |-> handed]
      /\ channel' = channel
  BY DEF RequestTransmission, Sent
<1>2. last'.node = n /\ last'.aid = aid /\ last'.handed = handed
  BY <1>1
<1>3. \A i \in Own(n) : /\ i \in Interfaces /\ RadioChannel[i] # 0
                        /\ channel[i] # 0 => channel[i] = RadioChannel[i]
  BY StationAssumption DEF Own, DeliveryInv
<1>4. /\ IsFiniteSet(channels) /\ 0 \notin channels
      /\ channels \subseteq Wanted(aid) /\ Wanted(aid) \ {0} \subseteq channels
  BY PolicyFollowed
<1> HIDE DEF channels
<1>5. Present(channels, Own(n), channel) = there
  <2>1. ASSUME NEW number \in Present(channels, Own(n), channel)
        PROVE  number \in there
    <3>1. PICK i \in Own(n) : channel[i] = number
      BY DEF Present, OnChannel
    <3>2. number \in channels
      BY DEF Present
    <3> QED
      BY <1>3, <1>4, <3>1, <3>2
  <2>2. ASSUME NEW number \in there
        PROVE  number \in Present(channels, Own(n), channel)
    <3>1. PICK i \in Own(n) : channel[i] # 0 /\ number = RadioChannel[i]
      OBVIOUS
    <3>2. channel[i] = number /\ number # 0
      BY <1>3, <3>1
    <3>3. number \in channels
      BY <1>4, <3>2
    <3> QED
      BY <3>2, <3>3 DEF Present, OnChannel
  <2> QED
    BY <2>1, <2>2
<1> HIDE DEF there
<1>6. /\ Len(handed) = Cardinality(Present(channels, Own(n), channel))
      /\ \A k \in DOMAIN handed :
           /\ handed[k].packet = Whole /\ handed[k].ifc \in Own(n)
           /\ channel[handed[k].ifc] \in Present(channels, Own(n), channel)
      /\ \A number \in Present(channels, Own(n), channel) :
           \E k \in DOMAIN handed : channel[handed[k].ifc] = number
  BY <1>4, HandedOver
<1>7. 0 \notin there
  BY <1>3 DEF there
<1> HIDE DEF handed
<1>8. \A k \in DOMAIN handed : channel[handed[k].ifc] = RadioChannel[handed[k].ifc]
  BY <1>3, <1>5, <1>6, <1>7
<1>9. {RadioChannel[handed[k].ifc] : k \in DOMAIN handed} = there
  BY <1>5, <1>6, <1>8
<1>10. WholeOnceEach(handed, {RadioChannel[handed[k].ifc] : k \in DOMAIN handed}, there)
  BY <1>5, <1>6, <1>9 DEF WholeOnceEach
<1> QED
  BY <1>1, <1>2, <1>10 DEF ChannelsServed, there

(* Packets reach all channels of their application: with a policy that     *)
(* names known channels, a packet is sent complete and exactly once over   *)
(* each channel on which the station has an interface in operation, for any*)
(* number of channels and interfaces (Middleware::requestTransmission).    *)
THEOREM ChannelsAreServed ==
    ASSUME KnownChannels
    PROVE  Spec => []ChannelsServed
<1>1. Init => ChannelsServed
  BY DEF Init, Idle, ChannelsServed
<1>2. DeliveryInv /\ ChannelsServed /\ [Next]_vars => ChannelsServed'
  <2> SUFFICES ASSUME DeliveryInv, ChannelsServed, [Next]_vars
               PROVE  ChannelsServed'
    OBVIOUS
  <2>1. ASSUME NEW n \in Nodes, NEW aid \in ItsAids, NEW port \in Ports,
               RequestTransmission(n, aid, port)
        PROVE  ChannelsServed'
    BY <2>1, PolicySent
  <2>2. ASSUME NEW i \in Interfaces, NEW port \in Ports, RequestOn(i, port)
        PROVE  last'.aid = None
    BY <2>2 DEF RequestOn, Sent
  <2>3. ASSUME NEW f \in air, HandleData(f) \/ Lose(f)
        PROVE  last'.event # "sent"
    BY <2>3 DEF HandleData, Lose, Idle
  <2>4. ASSUME NEW n \in Nodes, Create(n) \/ Finish(n)
        PROVE  last'.event # "sent"
    BY <2>4 DEF Create, Finish, Idle
  <2>5. ASSUME NEW i \in Interfaces, HandleProperties(i)
        PROVE  last'.event # "sent"
    BY <2>5 DEF HandleProperties, Idle
  <2>6. CASE UNCHANGED vars
    BY <2>6 DEF vars, ChannelsServed
  <2>7. CASE last'.event # "sent" \/ last'.aid = None
    BY <2>7 DEF ChannelsServed
  <2> QED
    BY <2>1, <2>2, <2>3, <2>4, <2>5, <2>6, <2>7 DEF Next
<1> QED
  BY <1>1, <1>2, DeliveryInvariance, PTL DEF Spec

=============================================================================
