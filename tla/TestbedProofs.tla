--------------------------- MODULE TestbedProofs ---------------------------
(***************************************************************************)
(* Proofs about Testbed, for any number of layers and packets and any lag. *)
(* The three results rest on one another: what the two threads know about  *)
(* the queue, where the packets are in the future event set, and in which  *)
(* order they are there.                                                   *)
(***************************************************************************)
EXTENDS Testbed, SequenceTheorems, TLAPS

(* The flag says whether the list is empty, and nobody sleeps on it.       *)
QueueInv ==
    /\ mNotified <=> mIndicationList # << >>
    /\ pc = "asleep" => mIndicationList = << >>

(* One layer at most is there, and it is the registered one.               *)
TwinInv ==
    /\ mRegisteredModule = NoLayer => present = {}
    /\ mRegisteredModule # NoLayer => present = {mRegisteredModule}

IsWork(e) == e.kind = "work"

(* Packets and one event of the simulation, which is the last one unless   *)
(* it is due.                                                              *)
OneWork(events) ==
    \E w \in 1 .. Len(events) :
      /\ IsWork(events[w])
      /\ \A n \in 1 .. Len(events) : n # w => ~IsWork(events[n])
      /\ events[w].after > 0 => w = Len(events)

(* Packets are for the registered layer.  Only between the event that      *)
(* deletes it and takeNextEvent they are all stale, and all at the front.  *)
ForTwin(events) ==
    \A n \in 1 .. Len(events) :
      ~IsWork(events[n]) => events[n].to = mRegisteredModule
AllStale == pc = "take" /\ mRegisteredModule = NoLayer /\ IsWork(fes[Len(fes)])

EventsInv ==
    /\ OneWork(fes)
    /\ ForTwin(fes) \/ AllStale
    /\ pc # "take" /\ IsWork(init) =>
         \A n \in 1 .. Len(fes) : IsWork(fes[n]) => fes[n] = init

(* From the radio back to the DUT, packets have increasing numbers.        *)
Ascending(events) ==
    \A m, n \in 1 .. Len(events) :
      m < n /\ ~IsWork(events[m]) /\ ~IsWork(events[n]) => events[m].id < events[n].id
Between(events) ==
    \A n \in 1 .. Len(events) :
      ~IsWork(events[n]) =>
        /\ heard < events[n].id /\ events[n].id <= sent
        /\ \A m \in 1 .. Len(mIndicationList) : events[n].id < mIndicationList[m]
ListInv ==
    /\ \A m, n \in 1 .. Len(mIndicationList) : m < n => mIndicationList[m] < mIndicationList[n]
    /\ \A n \in 1 .. Len(mIndicationList) :
         heard < mIndicationList[n] /\ mIndicationList[n] <= sent
OrderInv == heard <= sent /\ ListInv /\ Ascending(fes) /\ Between(fes)

IInv == TypeOK /\ QueueInv /\ TwinInv /\ EventsInv /\ OrderInv

(* An event that is about to be executed is due, or a packet comes first.  *)
TimeInv ==
    /\ NeverAhead
    /\ pc = "again" /\ IsWork(init) => WaitTime <= 0 \/ ~IsWork(fes[1])

-----------------------------------------------------------------------------

(* The two kinds of events.                                                *)
LEMMA EventShape ==
    ASSUME NEW e \in Events
    PROVE  /\ IsWork(e) => e.after \in Nat
           /\ ~IsWork(e) => /\ e.kind = "packet" /\ e.after = 0
                            /\ e.id \in Nat /\ e.id \in 1 .. MaxPackets /\ e.to \in Layers
BY TimesAssumption DEF Events, IsWork

(* The elements of a concatenation, from either side.                      *)
LEMMA Concatenated ==
    ASSUME NEW S, NEW s \in Seq(S), NEW t \in Seq(S)
    PROVE  /\ s \o t \in Seq(S) /\ Len(s \o t) = Len(s) + Len(t)
           /\ \A m \in 1 .. Len(s) : (s \o t)[m] = s[m]
           /\ \A m \in 1 .. Len(t) : (s \o t)[Len(s) + m] = t[m]
<1> DEFINE u == s \o t
<1>1. /\ u \in Seq(S) /\ Len(u) = Len(s) + Len(t)
      /\ \A i \in 1 .. Len(s) + Len(t) : u[i] = IF i <= Len(s) THEN s[i] ELSE t[i - Len(s)]
  BY ConcatProperties
<1>2. Len(s) \in Nat /\ Len(t) \in Nat
  OBVIOUS
<1> HIDE DEF u
<1>3. \A m \in 1 .. Len(s) : u[m] = s[m]
  BY <1>1, <1>2
<1>4. ASSUME NEW m \in 1 .. Len(t)
      PROVE  u[Len(s) + m] = t[m]
  <2>1. /\ Len(s) + m \in 1 .. Len(s) + Len(t) /\ ~(Len(s) + m <= Len(s))
        /\ (Len(s) + m) - Len(s) = m
    BY <1>2
  <2> QED
    BY <1>1, <2>1
<1> QED
  BY <1>1, <1>3, <1>4 DEF u

(* Inserting events that are due now: after the due ones, before the rest. *)
LEMMA Inserted ==
    ASSUME fes \in Seq(Events), OneWork(fes), NEW events \in Seq(Events)
    PROVE  /\ InsertNow(events) \in Seq(Events)
           /\ Len(InsertNow(events)) = Len(fes) + Len(events)
           /\ \E n \in 0 .. Len(fes) :
                /\ \A m \in 1 .. n : fes[m].after = 0
                /\ \A m \in n + 1 .. Len(fes) : fes[m].after > 0
                /\ \A m \in 1 .. n : InsertNow(events)[m] = fes[m]
                /\ \A m \in 1 .. Len(events) : InsertNow(events)[n + m] = events[m]
                /\ \A m \in n + 1 .. Len(fes) :
                     InsertNow(events)[Len(events) + m] = fes[m]
<1> DEFINE Split(n) == /\ \A m \in 1 .. n : IsNow(fes[m])
                       /\ \A m \in n + 1 .. Len(fes) : IsLater(fes[m])
           n == CHOOSE k \in 0 .. Len(fes) : Split(k)
           early == SubSeq(fes, 1, n)
           late == SubSeq(fes, n + 1, Len(fes))
<1>1. \A m \in 1 .. Len(fes) : fes[m] \in Events
  OBVIOUS
<1>2. \E k \in 0 .. Len(fes) : Split(k)
  <2> PICK w \in 1 .. Len(fes) :
             /\ IsWork(fes[w])
             /\ \A m \in 1 .. Len(fes) : m # w => ~IsWork(fes[m])
             /\ fes[w].after > 0 => w = Len(fes)
    BY DEF OneWork
  <2>1. \A m \in 1 .. Len(fes) : m # w => fes[m].after = 0
    BY <1>1, EventShape
  <2>2. CASE fes[w].after = 0
    <3>1. Split(Len(fes)) /\ Len(fes) \in 0 .. Len(fes)
      BY <2>1, <2>2 DEF IsNow, IsLater
    <3> QED
      BY <3>1
  <2>3. CASE fes[w].after > 0
    <3>1. Split(Len(fes) - 1) /\ Len(fes) - 1 \in 0 .. Len(fes)
      BY <2>1, <2>3 DEF IsNow, IsLater
    <3> QED
      BY <3>1
  <2>4. fes[w].after \in Nat
    BY <1>1, EventShape
  <2> QED
    BY <2>2, <2>3, <2>4
<1>3. n \in 0 .. Len(fes) /\ Split(n)
  BY <1>2
<1>4. InsertNow(events) = early \o (events \o late)
  BY DEF InsertNow
<1> HIDE DEF n
<1>5. /\ early \in Seq(Events) /\ Len(early) = n
      /\ \A m \in 1 .. n : early[m] = fes[m]
  BY <1>1, <1>3, SubSeqProperties
<1>6. /\ late \in Seq(Events) /\ Len(late) = Len(fes) - n
      /\ \A m \in 1 .. Len(fes) - n : late[m] = fes[n + m]
  BY <1>1, <1>3, SubSeqProperties
<1> HIDE DEF early, late
<1>7. /\ events \o late \in Seq(Events)
      /\ Len(events \o late) = Len(events) + (Len(fes) - n)
      /\ \A m \in 1 .. Len(events) : (events \o late)[m] = events[m]
      /\ \A m \in 1 .. Len(fes) - n : (events \o late)[Len(events) + m] = late[m]
  BY <1>6, Concatenated
<1> DEFINE rest == events \o late
<1> HIDE DEF rest
<1>8. /\ early \o rest \in Seq(Events)
      /\ Len(early \o rest) = n + Len(rest)
      /\ \A m \in 1 .. n : (early \o rest)[m] = early[m]
      /\ \A m \in 1 .. Len(rest) : (early \o rest)[n + m] = rest[m]
  <2>1. early \in Seq(Events) /\ rest \in Seq(Events)
    BY <1>5, <1>7 DEF rest
  <2>2. /\ early \o rest \in Seq(Events)
        /\ Len(early \o rest) = Len(early) + Len(rest)
        /\ \A m \in 1 .. Len(early) : (early \o rest)[m] = early[m]
        /\ \A m \in 1 .. Len(rest) : (early \o rest)[Len(early) + m] = rest[m]
    BY <2>1, Concatenated
  <2> QED
    BY <1>5, <2>2
<1>9. \A m \in n + 1 .. Len(fes) : (early \o rest)[Len(events) + m] = fes[m]
  <2> SUFFICES ASSUME NEW m \in n + 1 .. Len(fes)
               PROVE  (early \o rest)[Len(events) + m] = fes[m]
    OBVIOUS
  <2>1. m - n \in 1 .. Len(fes) - n /\ Len(events) + (m - n) \in 1 .. Len(rest)
    BY <1>3, <1>7 DEF rest
  <2>2. (early \o rest)[n + (Len(events) + (m - n))] = late[m - n]
    BY <1>7, <1>8, <2>1 DEF rest
  <2>3. n + (Len(events) + (m - n)) = Len(events) + m /\ n + (m - n) = m
    BY <1>3
  <2> QED
    BY <1>6, <2>1, <2>2, <2>3
<1>10. \A m \in 1 .. Len(events) : (early \o rest)[n + m] = events[m]
  BY <1>3, <1>7, <1>8 DEF rest
<1>11. Len(early \o rest) = Len(fes) + Len(events)
  BY <1>3, <1>7, <1>8 DEF rest
<1>12. InsertNow(events) = early \o rest
  BY <1>4 DEF rest
<1> DEFINE all == InsertNow(events)
<1>13. /\ all \in Seq(Events) /\ Len(all) = Len(fes) + Len(events)
       /\ \A m \in 1 .. n : fes[m].after = 0 /\ all[m] = fes[m]
       /\ \A m \in n + 1 .. Len(fes) : fes[m].after > 0 /\ all[Len(events) + m] = fes[m]
       /\ \A m \in 1 .. Len(events) : all[n + m] = events[m]
  BY <1>3, <1>5, <1>8, <1>9, <1>10, <1>11, <1>12 DEF IsNow, IsLater
<1> HIDE DEF all
<1> QED
  BY <1>3, <1>13 DEF all

(* What is left of the event set without the stale events at the front.    *)
LEMMA Fresh ==
    ASSUME TypeOK, TwinInv, EventsInv
    PROVE  /\ ForTwin(fes) => NonStale = fes
           /\ ~ForTwin(fes) => NonStale = <<fes[Len(fes)]>>
           /\ fes # << >>
<1> DEFINE First(n) == ~IsStale(fes[n]) /\ \A m \in 1 .. n - 1 : IsStale(fes[m])
           n == CHOOSE k \in 1 .. Len(fes) : First(k)
<1>1. /\ fes \in Seq(Events) /\ \A m \in 1 .. Len(fes) : fes[m] \in Events
      /\ Len(fes) \in Nat /\ 1 \in 1 .. Len(fes) /\ fes # << >>
  BY DEF TypeOK, EventsInv, OneWork
<1>2. NonStale = SubSeq(fes, n, Len(fes))
  BY DEF NonStale
<1>3. ASSUME ForTwin(fes)
      PROVE  NonStale = fes
  <2>1. ~IsStale(fes[1])
    BY <1>1, <1>3, EventShape, LayersAssumption DEF ForTwin, IsStale, TwinInv, IsWork
  <2>2. First(1)
    BY <2>1
  <2>3. \A k \in 1 .. Len(fes) : First(k) => k = 1
    BY <1>1, <2>1
  <2>4. n = 1
    BY <1>1, <2>2, <2>3
  <2> QED
    BY <1>1, <1>2, <2>4, SubSeqFull
<1>4. ASSUME ~ForTwin(fes)
      PROVE  NonStale = <<fes[Len(fes)]>>
  <2>1. AllStale
    BY <1>4 DEF EventsInv
  <2>2. \A m \in 1 .. Len(fes) : IsStale(fes[m]) <=> m # Len(fes)
    BY <1>1, <2>1, EventShape DEF AllStale, EventsInv, OneWork, IsStale, TwinInv, IsWork
  <2>3. First(Len(fes)) /\ Len(fes) \in 1 .. Len(fes)
    BY <1>1, <2>2
  <2>4. \A k \in 1 .. Len(fes) : First(k) => k = Len(fes)
    BY <1>1, <2>2
  <2>5. n = Len(fes)
    BY <2>3, <2>4
  <2> HIDE DEF n
  <2>6. Len(NonStale) = 1 /\ NonStale \in Seq(Events) /\ NonStale[1] = fes[Len(fes)]
    BY <1>1, <1>2, <2>5, SubSeqProperties
  <2> QED
    BY <2>6
<1> QED
  BY <1>1, <1>3, <1>4

-----------------------------------------------------------------------------

(* The initial states.                                                     *)
LEMMA InitInv == Init => IInv
<1> SUFFICES ASSUME Init
             PROVE  IInv
  OBVIOUS
<1> PICK gap \in Gaps : fes = <<Work(gap)>> /\ init = Work(gap)
  BY DEF Init
<1>1. Work(gap) \in Events /\ IsWork(Work(gap))
  BY TimesAssumption DEF Work, Events, IsWork
<1>2. Len(fes) = 1 /\ fes[1] = Work(gap) /\ fes \in Seq(Events)
  BY <1>1
<1>3. TypeOK
  <2>1. /\ fes \in Seq(Events) /\ init \in Events
        /\ mIndicationList \in Seq(1 .. MaxPackets)
    BY <1>1, <1>2 DEF Init
  <2>2. /\ attempt \in 0 .. ConnectTimeout /\ sent \in 0 .. MaxPackets
        /\ heard \in 0 .. MaxPackets /\ lead \in Int /\ lead >= -MaxLag
    BY TimesAssumption DEF Init
  <2> QED
    BY <2>1, <2>2 DEF Init, TypeOK
<1>4. QueueInv /\ TwinInv
  BY DEF Init, QueueInv, TwinInv
<1>5. EventsInv
  BY <1>1, <1>2 DEF Init, EventsInv, OneWork, ForTwin
<1>6. OrderInv
  BY <1>1, <1>2 DEF Init, OrderInv, ListInv, Ascending, Between
<1> QED
  BY <1>3, <1>4, <1>5, <1>6 DEF IInv

(* The packets that the list becomes.                                      *)
LEMMA NewPackets ==
    ASSUME IInv, mRegisteredModule # NoLayer,
           NEW new, new = [n \in DOMAIN mIndicationList |-> Packet(mIndicationList[n])]
    PROVE  /\ new \in Seq(Events) /\ Len(new) = Len(mIndicationList)
           /\ \A m \in 1 .. Len(new) :
                /\ ~IsWork(new[m]) /\ new[m].after = 0
                /\ new[m].to = mRegisteredModule /\ new[m].id = mIndicationList[m]
<1>1. /\ mIndicationList \in Seq(1 .. MaxPackets) /\ mRegisteredModule \in Layers
      /\ DOMAIN mIndicationList = 1 .. Len(mIndicationList)
      /\ Len(mIndicationList) \in Nat
  BY DEF IInv, TypeOK
<1>2. \A m \in 1 .. Len(mIndicationList) : Packet(mIndicationList[m]) \in Events
  <2> SUFFICES ASSUME NEW m \in 1 .. Len(mIndicationList)
               PROVE  Packet(mIndicationList[m]) \in Events
    OBVIOUS
  <2>1. mIndicationList[m] \in 1 .. MaxPackets
    BY <1>1, ElementOfSeq
  <2> QED
    BY <1>1, <2>1 DEF Packet, Events
<1>3. new \in Seq(Events) /\ Len(new) = Len(mIndicationList)
  BY <1>1, <1>2
<1>4. \A m \in 1 .. Len(new) : new[m] = Packet(mIndicationList[m])
  BY <1>1, <1>3
<1> QED
  BY <1>3, <1>4 DEF Packet, IsWork

(* Handing the list over keeps the order of all packets.                   *)
LEMMA HandOverInv ==
    ASSUME IInv, HandOver, UNCHANGED <<usrpVars, sent, otaVars, lead, init, heard>>,
           pc # "take", pc' \in {"wait", "again"}
    PROVE  IInv'
<1> DEFINE new == [n \in DOMAIN mIndicationList |-> Packet(mIndicationList[n])]
<1>1. mIndicationList' = << >> /\ mNotified' = FALSE
  BY DEF HandOver
<1>2. UNCHANGED <<phase, attempt, mConnectionOk, sent, mRegisteredModule, present,
                  joined, mGpsdTimer, lead, init, heard>>
  BY DEF usrpVars, otaVars
<1>3. QueueInv' /\ TwinInv'
  BY <1>1, <1>2 DEF IInv, QueueInv, TwinInv
<1>4. ListInv' /\ heard' <= sent'
  BY <1>1, <1>2 DEF IInv, OrderInv, ListInv
<1>5. fes' \in Seq(Events) => TypeOK'
  <2>1. mIndicationList' \in Seq(1 .. MaxPackets)
    BY <1>1
  <2> QED
    BY <1>1, <1>2, <2>1 DEF IInv, TypeOK
<1>6. CASE mRegisteredModule = NoLayer
  <2>1. fes' = fes
    BY <1>6 DEF HandOver
  <2>2. TypeOK'
    BY <1>5, <2>1 DEF IInv, TypeOK
  <2>3. EventsInv'
    BY <1>2, <2>1 DEF IInv, EventsInv, ForTwin, AllStale
  <2>4. OrderInv'
    BY <1>1, <1>2, <1>4, <2>1 DEF IInv, OrderInv, Ascending, Between
  <2> QED
    BY <1>3, <2>2, <2>3, <2>4 DEF IInv
<1>7. CASE mRegisteredModule # NoLayer
  <2> DEFINE q == InsertNow(new)
  <2>1. fes' = q
    BY <1>7 DEF HandOver
  <2>2. /\ new \in Seq(Events) /\ Len(new) = Len(mIndicationList) /\ Len(new) \in Nat
        /\ \A m \in 1 .. Len(new) :
             /\ ~IsWork(new[m]) /\ new[m].after = 0
             /\ new[m].to = mRegisteredModule /\ new[m].id = mIndicationList[m]
    BY <1>7, NewPackets
  <2> HIDE DEF new
  <2>3. fes \in Seq(Events) /\ OneWork(fes) /\ Len(fes) \in Nat
    BY DEF IInv, TypeOK, EventsInv
  <2>4. q \in Seq(Events) /\ Len(q) = Len(fes) + Len(new)
    BY <2>2, <2>3, Inserted
  <2>5. PICK n \in 0 .. Len(fes) :
          /\ \A m \in 1 .. n : fes[m].after = 0
          /\ \A m \in n + 1 .. Len(fes) : fes[m].after > 0
          /\ \A m \in 1 .. n : q[m] = fes[m]
          /\ \A m \in 1 .. Len(new) : q[n + m] = new[m]
          /\ \A m \in n + 1 .. Len(fes) : q[Len(new) + m] = fes[m]
    BY <2>2, <2>3, Inserted
  <2> HIDE DEF q
  <2>6. \A i \in 1 .. Len(q) :
          \/ i \in 1 .. n /\ q[i] = fes[i]
          \/ \E m \in 1 .. Len(new) : i = n + m /\ q[i] = new[m]
          \/ \E m \in n + 1 .. Len(fes) : i = Len(new) + m /\ q[i] = fes[m]
    <3> SUFFICES ASSUME NEW i \in 1 .. Len(fes) + Len(new)
                 PROVE  \/ i \in 1 .. n /\ q[i] = fes[i]
                        \/ \E m \in 1 .. Len(new) : i = n + m /\ q[i] = new[m]
                        \/ \E m \in n + 1 .. Len(fes) : i = Len(new) + m /\ q[i] = fes[m]
      BY <2>4
    <3>1. Len(new) \in Nat /\ Len(fes) \in Nat
      BY <2>2, <2>3
    <3>2. CASE i <= n
      BY <2>5, <3>1, <3>2
    <3>3. CASE i > n /\ i <= n + Len(new)
      <4>1. i - n \in 1 .. Len(new) /\ i = n + (i - n)
        BY <3>1, <3>3
      <4> QED
        BY <2>5, <4>1
    <3>4. CASE i > n + Len(new)
      <4>1. i - Len(new) \in n + 1 .. Len(fes) /\ i = Len(new) + (i - Len(new))
        BY <3>1, <3>4
      <4> QED
        BY <2>5, <4>1
    <3> QED
      BY <3>1, <3>2, <3>3, <3>4
  <2>7. \A m \in n + 1 .. Len(fes) : IsWork(fes[m])
    <3> SUFFICES ASSUME NEW m \in n + 1 .. Len(fes)
                 PROVE  IsWork(fes[m])
      OBVIOUS
    <3>1. fes[m] \in Events /\ fes[m].after > 0
      BY <2>3, <2>5
    <3> QED
      BY <3>1, EventShape
  <2>8. OneWork(q)
    <3> PICK w \in 1 .. Len(fes) :
               /\ IsWork(fes[w])
               /\ \A m \in 1 .. Len(fes) : m # w => ~IsWork(fes[m])
               /\ fes[w].after > 0 => w = Len(fes)
      BY <2>3 DEF OneWork
    <3>1. CASE w <= n
      <4>1. w \in 1 .. Len(q) /\ q[w] = fes[w] /\ fes[w].after = 0
        BY <2>2, <2>4, <2>5, <3>1
      <4>2. ASSUME NEW i \in 1 .. Len(q), i # w
            PROVE  ~IsWork(q[i])
        <5>0. Len(fes) \in Nat /\ n \in 0 .. Len(fes) /\ n + 1 \in Nat
          BY <2>3
        <5>1. CASE i \in 1 .. n /\ q[i] = fes[i]
          <6>1. i \in 1 .. Len(fes)
            BY <5>0, <5>1
          <6> QED
            BY <4>2, <5>1, <6>1
        <5>2. CASE \E m \in 1 .. Len(new) : i = n + m /\ q[i] = new[m]
          BY <2>2, <5>2
        <5>3. \A m \in n + 1 .. Len(fes) : m \in 1 .. Len(fes) /\ m # w
          BY <3>1, <5>0
        <5> QED
          BY <2>6, <2>7, <5>1, <5>2, <5>3
      <4> QED
        BY <4>1, <4>2 DEF OneWork
    <3>2. CASE w > n
      <4> DEFINE v == Len(new) + w
      <4>1. w \in n + 1 .. Len(fes) /\ w = Len(fes)
        BY <2>3, <2>5, <3>2
      <4>2. v \in 1 .. Len(q) /\ q[v] = fes[w] /\ v = Len(q)
        BY <2>2, <2>3, <2>4, <2>5, <4>1
      <4>3. \A i \in 1 .. Len(q) : i # v => ~IsWork(q[i])
        <5>1. \A m \in 1 .. n : ~IsWork(fes[m])
          BY <2>3, <3>2
        <5>2. \A m \in n + 1 .. Len(fes) : m = w
          BY <2>3, <2>7
        <5> QED
          BY <2>2, <2>6, <5>1, <5>2
      <4> HIDE DEF v
      <4> QED
        BY <4>2, <4>3 DEF OneWork
    <3> QED
      BY <3>1, <3>2
  <2>9. ForTwin(fes)
    BY DEF IInv, EventsInv, AllStale
  <2>10. \A i \in 1 .. Len(q) : ~IsWork(q[i]) => q[i].to = mRegisteredModule
    BY <2>2, <2>3, <2>6, <2>7, <2>9 DEF ForTwin
  <2>11. IsWork(init) => \A i \in 1 .. Len(q) : IsWork(q[i]) => q[i] = init
    <3> SUFFICES ASSUME IsWork(init), NEW i \in 1 .. Len(q), IsWork(q[i])
                 PROVE  q[i] = init
      OBVIOUS
    <3>1. \A m \in 1 .. Len(fes) : IsWork(fes[m]) => fes[m] = init
      BY DEF IInv, EventsInv
    <3>2. \E m \in 1 .. Len(fes) : q[i] = fes[m]
      <4>1. ~ \E m \in 1 .. Len(new) : i = n + m /\ q[i] = new[m]
        BY <2>2
      <4>2. /\ \A m \in 1 .. n : m \in 1 .. Len(fes)
            /\ \A m \in n + 1 .. Len(fes) : m \in 1 .. Len(fes)
        BY <2>3
      <4> QED
        BY <2>6, <4>1, <4>2
    <3> QED
      BY <3>1, <3>2
  <2>12. EventsInv'
    BY <1>2, <2>1, <2>8, <2>10, <2>11 DEF EventsInv, ForTwin
  <2>13. \A i \in 1 .. Len(q) : ~IsWork(q[i]) =>
           \/ i \in 1 .. n /\ i \in 1 .. Len(fes) /\ q[i] = fes[i]
           \/ \E m \in 1 .. Len(mIndicationList) : i = n + m /\ q[i].id = mIndicationList[m]
    <3> SUFFICES ASSUME NEW i \in 1 .. Len(q), ~IsWork(q[i])
                 PROVE  \/ i \in 1 .. n /\ i \in 1 .. Len(fes) /\ q[i] = fes[i]
                        \/ \E m \in 1 .. Len(mIndicationList) :
                             i = n + m /\ q[i].id = mIndicationList[m]
      OBVIOUS
    <3>1. ~\E m \in n + 1 .. Len(fes) : i = Len(new) + m /\ q[i] = fes[m]
      BY <2>7
    <3>2. 1 .. n \subseteq 1 .. Len(fes)
      BY <2>3
    <3> QED
      BY <2>2, <2>6, <3>1, <3>2
  <2>14. Ascending(q)
    BY <2>2, <2>3, <2>13 DEF IInv, OrderInv, ListInv, Ascending, Between
  <2>15. \A i \in 1 .. Len(q) : ~IsWork(q[i]) => heard < q[i].id /\ q[i].id <= sent
    BY <1>1, <1>2, <2>2, <2>3, <2>13 DEF IInv, OrderInv, ListInv, Between
  <2>16. OrderInv'
    <3>1. Between(fes)' /\ Ascending(fes)'
      BY <1>1, <1>2, <2>1, <2>14, <2>15 DEF Ascending, Between
    <3> QED
      BY <1>4, <3>1 DEF OrderInv
  <2> QED
    BY <1>3, <1>5, <2>1, <2>4, <2>12, <2>16 DEF IInv
<1> QED
  BY <1>6, <1>7

(* A packet of the DUT goes to the end of the list.                        *)
LEMMA TriggerInv == ASSUME IInv, Trigger PROVE IInv'
<1> DEFINE list == mIndicationList
<1>1. /\ sent < MaxPackets /\ sent' = sent + 1
      /\ list' = Append(list, sent') /\ mNotified' = TRUE
      /\ pc' = IF pc = "asleep" THEN "wait" ELSE pc
      /\ UNCHANGED <<phase, attempt, mConnectionOk, mRegisteredModule, present, joined,
                     mGpsdTimer, fes, lead, init, heard>>
  BY DEF Trigger, usrpVars, otaVars
<1>2. /\ sent \in Nat /\ heard \in Nat /\ MaxPackets \in Nat
      /\ list \in Seq(1 .. MaxPackets) /\ Len(list) \in Nat
  BY TimesAssumption DEF IInv, TypeOK
<1>3. /\ sent' \in 1 .. MaxPackets /\ list' \in Seq(1 .. MaxPackets)
      /\ Len(list') = Len(list) + 1 /\ list'[Len(list) + 1] = sent'
      /\ \A n \in 1 .. Len(list) : list'[n] = list[n]
  BY <1>1, <1>2
<1>4. TypeOK'
  <2>1. sent' \in 0 .. MaxPackets
    BY <1>3
  <2> QED
    BY <1>1, <1>3, <2>1 DEF IInv, TypeOK
<1>5. QueueInv' /\ TwinInv'
  BY <1>1, <1>2, <1>3 DEF IInv, QueueInv, TwinInv
<1>6. EventsInv'
  BY <1>1 DEF IInv, EventsInv, ForTwin, AllStale
<1>7. \A n \in 1 .. Len(list') : n \in 1 .. Len(list) \/ n = Len(list) + 1
  BY <1>2, <1>3
<1>8. ListInv' /\ heard' <= sent'
  <2>1. \A n \in 1 .. Len(list) : list[n] \in Nat /\ heard < list[n] /\ list[n] <= sent
    BY <1>2 DEF IInv, OrderInv, ListInv
  <2>2. \A m, n \in 1 .. Len(list) : m < n => list[m] < list[n]
    BY DEF IInv, OrderInv, ListInv
  <2>3. heard <= sent
    BY DEF IInv, OrderInv
  <2> HIDE DEF list
  <2>4. /\ \A n \in 1 .. Len(list') : heard < list'[n] /\ list'[n] <= sent'
        /\ \A m, n \in 1 .. Len(list') : m < n => list'[m] < list'[n]
    BY <1>1, <1>2, <1>3, <1>7, <2>1, <2>2, <2>3
  <2> QED
    BY <1>1, <1>2, <2>3, <2>4 DEF ListInv, list
<1>9. Ascending(fes)'
  BY <1>1 DEF IInv, OrderInv, Ascending
<1>10. Between(fes)'
  <2> SUFFICES ASSUME NEW n \in 1 .. Len(fes), ~IsWork(fes[n])
               PROVE  /\ heard < fes[n].id /\ fes[n].id <= sent'
                      /\ \A m \in 1 .. Len(list') : fes[n].id < list'[m]
    BY <1>1 DEF Between
  <2>1. fes[n] \in Events
    BY DEF IInv, TypeOK
  <2>2. fes[n].id \in Nat
    BY <2>1, EventShape
  <2>3. /\ heard < fes[n].id /\ fes[n].id <= sent
        /\ \A m \in 1 .. Len(list) : fes[n].id < list[m]
    BY DEF IInv, OrderInv, Between
  <2> HIDE DEF list
  <2> QED
    BY <1>1, <1>2, <1>3, <1>7, <2>2, <2>3
<1> QED
  BY <1>4, <1>5, <1>6, <1>8, <1>9, <1>10 DEF IInv, OrderInv

(* Stale events are deleted and the first of the others is looked at.      *)
LEMMA LookInv ==
    ASSUME IInv, fes' = NonStale, init' = Head(fes'), pc' = "timing",
           UNCHANGED <<usrpVars, sent, queueVars, otaVars, lead, heard>>
    PROVE  IInv'
<1>1. UNCHANGED <<phase, attempt, mConnectionOk, sent, mIndicationList, mNotified,
                  mRegisteredModule, present, joined, mGpsdTimer, lead, heard>>
  BY DEF usrpVars, queueVars, otaVars
<1>2. /\ fes \in Seq(Events) /\ OneWork(fes) /\ Len(fes) \in Nat /\ fes # << >>
      /\ \A n \in 1 .. Len(fes) : fes[n] \in Events
  BY Fresh DEF IInv, TypeOK, EventsInv
<1>3. /\ fes' \in Seq(Events) /\ fes' # << >> /\ OneWork(fes') /\ ForTwin(fes')
      /\ Ascending(fes') /\ Between(fes')
  <2>1. CASE ForTwin(fes)
    BY <1>2, <2>1, Fresh DEF IInv, OrderInv
  <2>2. CASE ~ForTwin(fes)
    <3>1. fes' = <<fes[Len(fes)]>> /\ IsWork(fes[Len(fes)]) /\ Len(fes) \in 1 .. Len(fes)
      BY <1>2, <2>2, Fresh DEF IInv, EventsInv, AllStale
    <3>2. fes' \in Seq(Events) /\ Len(fes') = 1 /\ IsWork(fes'[1])
      BY <1>2, <3>1
    <3> QED
      BY <3>2 DEF OneWork, ForTwin, Ascending, Between
  <2> QED
    BY <2>1, <2>2
<1>4. init' \in Events /\ init' = fes'[1] /\ 1 \in 1 .. Len(fes')
  BY <1>3
<1>5. TypeOK'
  BY <1>1, <1>3, <1>4 DEF IInv, TypeOK
<1>6. QueueInv' /\ TwinInv'
  BY <1>1 DEF IInv, QueueInv, TwinInv
<1>7. IsWork(init') => \A n \in 1 .. Len(fes') : IsWork(fes'[n]) => fes'[n] = init'
  BY <1>3, <1>4 DEF OneWork
<1>8. EventsInv'
  BY <1>1, <1>3, <1>7 DEF EventsInv, ForTwin, OneWork
<1>9. OrderInv'
  BY <1>1, <1>3 DEF IInv, OrderInv, ListInv, Ascending, Between
<1> QED
  BY <1>5, <1>6, <1>8, <1>9 DEF IInv

(* Steps that leave queue, event set and registration alone.               *)
LEMMA CalmInv ==
    ASSUME IInv, TypeOK', (pc' = "take") <=> (pc = "take"),
           pc' = "asleep" => mIndicationList = << >>,
           UNCHANGED <<sent, mIndicationList, mNotified, mRegisteredModule, present,
                       fes, init, heard>>
    PROVE  IInv'
<1>1. QueueInv' /\ TwinInv'
  BY DEF IInv, QueueInv, TwinInv
<1>2. EventsInv'
  BY DEF IInv, EventsInv, ForTwin, AllStale
<1>3. OrderInv'
  BY DEF IInv, OrderInv, ListInv, Ascending, Between
<1> QED
  BY <1>1, <1>2, <1>3 DEF IInv

(* The first event of the set is a packet, which the twin's radio gets.    *)
LEMMA ExecutePacketInv == ASSUME IInv, ExecutePacket PROVE IInv'
<1>1. /\ pc = "again" /\ ForTwin(fes) /\ NonStale = fes /\ fes # << >>
      /\ Head(fes) = init /\ init.kind = "packet"
      /\ fes' = Tail(fes) /\ heard' = init.id /\ pc' = "take"
  BY Fresh DEF ExecutePacket, IInv, EventsInv, AllStale
<1>2. UNCHANGED <<phase, attempt, mConnectionOk, sent, mIndicationList, mNotified,
                  mRegisteredModule, present, joined, mGpsdTimer, lead, init>>
  BY DEF ExecutePacket, usrpVars, queueVars, otaVars
<1>3. /\ fes \in Seq(Events) /\ Len(fes) \in Nat /\ 1 \in 1 .. Len(fes)
      /\ init = fes[1] /\ ~IsWork(fes[1]) /\ fes[1] \in Events
  BY <1>1 DEF IInv, TypeOK, IsWork
<1>4. /\ fes' \in Seq(Events) /\ Len(fes') = Len(fes) - 1
      /\ \A n \in 1 .. Len(fes') : n + 1 \in 1 .. Len(fes) /\ fes'[n] = fes[n + 1]
  BY <1>1, <1>3
<1>5. TypeOK'
  <2>1. heard' \in 0 .. MaxPackets
    <3>1. init.id \in 1 .. MaxPackets
      BY <1>3, EventShape
    <3> QED
      BY <1>1, <3>1, TimesAssumption
  <2> QED
    BY <1>1, <1>2, <1>4, <2>1 DEF IInv, TypeOK
<1>6. QueueInv' /\ TwinInv'
  BY <1>1, <1>2 DEF IInv, QueueInv, TwinInv
<1>7. OneWork(fes')
  <2> PICK w \in 1 .. Len(fes) :
             /\ IsWork(fes[w])
             /\ \A m \in 1 .. Len(fes) : m # w => ~IsWork(fes[m])
             /\ fes[w].after > 0 => w = Len(fes)
    BY DEF IInv, EventsInv, OneWork
  <2> DEFINE v == w - 1
  <2>1. v \in 1 .. Len(fes') /\ fes'[v] = fes[w] /\ (w = Len(fes) <=> v = Len(fes'))
    <3>1. w # 1
      BY <1>3
    <3>2. v \in 1 .. Len(fes') /\ v + 1 = w
      BY <1>3, <1>4, <3>1
    <3> QED
      BY <1>3, <1>4, <3>2
  <2>2. \A n \in 1 .. Len(fes') : n # v => ~IsWork(fes'[n])
    BY <1>3, <1>4
  <2> HIDE DEF v
  <2> QED
    BY <2>1, <2>2 DEF OneWork
<1>8. EventsInv'
  <2>1. ForTwin(fes)'
    BY <1>1, <1>2, <1>4 DEF ForTwin
  <2>2. pc' = "take"
    BY <1>1
  <2> QED
    BY <1>7, <2>1, <2>2 DEF EventsInv, OneWork
<1>9. /\ \A n \in 1 .. Len(fes) : ~IsWork(fes[n]) =>
           /\ fes[n].id <= sent
           /\ n # 1 => fes[1].id < fes[n].id
           /\ \A m \in 1 .. Len(mIndicationList) : fes[n].id < mIndicationList[m]
      /\ fes[1].id <= sent
  BY <1>3 DEF IInv, OrderInv, Ascending, Between
<1>10. Ascending(fes)'
  BY <1>3, <1>4 DEF IInv, OrderInv, Ascending
<1>11. Between(fes)'
  BY <1>1, <1>2, <1>3, <1>4, <1>9 DEF Between
<1>12. ListInv' /\ heard' <= sent'
  BY <1>1, <1>2, <1>3, <1>9 DEF IInv, OrderInv, ListInv
<1> QED
  BY <1>5, <1>6, <1>8, <1>10, <1>11, <1>12 DEF IInv, OrderInv

(* The event set after an event of the simulation.                         *)
LEMMA Worked ==
    ASSUME IInv, ExecuteWork
    PROVE  /\ pc = "again" /\ ForTwin(fes) /\ NonStale = fes /\ fes # << >>
           /\ init = fes[1] /\ IsWork(fes[1])
           /\ fes' \in Seq(Events) /\ Len(fes') = Len(fes)
           /\ Len(fes') \in 1 .. Len(fes') /\ IsWork(fes'[Len(fes')])
           /\ \A n \in 1 .. Len(fes') : n # Len(fes') =>
                /\ n + 1 \in 1 .. Len(fes) /\ fes'[n] = fes[n + 1] /\ ~IsWork(fes'[n])
<1>1. /\ pc = "again" /\ ForTwin(fes) /\ NonStale = fes /\ fes # << >>
      /\ Head(fes) = init /\ IsWork(init)
  BY Fresh DEF ExecuteWork, IInv, EventsInv, AllStale, IsWork
<1>2. PICK gap \in Gaps : fes' = Append(Tail(fes), Work(gap))
  BY <1>1 DEF ExecuteWork
<1>3. fes \in Seq(Events) /\ Len(fes) \in Nat /\ 1 \in 1 .. Len(fes) /\ init = fes[1]
  BY <1>1 DEF IInv, TypeOK
<1>4. Work(gap) \in Events /\ IsWork(Work(gap))
  BY TimesAssumption DEF Work, Events, IsWork
<1>5. \A n \in 1 .. Len(fes) : n # 1 => ~IsWork(fes[n])
  BY <1>1, <1>3 DEF IInv, EventsInv, OneWork
<1>6. /\ Tail(fes) \in Seq(Events) /\ Len(Tail(fes)) = Len(fes) - 1
      /\ \A n \in 1 .. Len(fes) - 1 : n + 1 \in 1 .. Len(fes) /\ Tail(fes)[n] = fes[n + 1]
  BY <1>1, <1>3
<1> DEFINE rest == Tail(fes)
<1> HIDE DEF rest
<1>7. /\ fes' \in Seq(Events) /\ Len(fes') = Len(rest) + 1
      /\ fes'[Len(rest) + 1] = Work(gap)
      /\ \A n \in 1 .. Len(rest) : fes'[n] = rest[n]
  BY <1>2, <1>4, <1>6 DEF rest
<1>8. Len(fes') = Len(fes) /\ fes'[Len(fes)] = Work(gap)
  BY <1>3, <1>6, <1>7 DEF rest
<1>9. \A n \in 1 .. Len(fes) - 1 :
        n + 1 \in 1 .. Len(fes) /\ fes'[n] = fes[n + 1] /\ ~IsWork(fes'[n])
  BY <1>3, <1>5, <1>6, <1>7 DEF rest
<1> QED
  BY <1>1, <1>3, <1>4, <1>7, <1>8, <1>9

(* An event of the simulation, which may create or delete the twin.        *)
LEMMA ExecuteWorkInv == ASSUME IInv, ExecuteWork PROVE IInv'
<1>1. /\ pc = "again" /\ ForTwin(fes) /\ NonStale = fes /\ fes # << >>
      /\ init = fes[1] /\ IsWork(fes[1])
      /\ fes' \in Seq(Events) /\ Len(fes') = Len(fes)
      /\ Len(fes') \in 1 .. Len(fes') /\ IsWork(fes'[Len(fes')])
      /\ \A n \in 1 .. Len(fes') : n # Len(fes') =>
           /\ n + 1 \in 1 .. Len(fes) /\ fes'[n] = fes[n + 1] /\ ~IsWork(fes'[n])
  BY Worked
<1>2. /\ lead' = lead + init.after /\ pc' = "take"
      /\ UNCHANGED <<attempt, mConnectionOk, sent, mIndicationList, mNotified, init, heard>>
  BY DEF ExecuteWork, queueVars
<1>3. /\ fes \in Seq(Events) /\ Len(fes) \in Nat /\ 1 \in 1 .. Len(fes)
      /\ \A n \in 1 .. Len(fes) : fes[n] \in Events
      /\ lead \in Int /\ init.after \in Nat /\ MaxLag \in Nat /\ lead >= -MaxLag
  <2>1. fes \in Seq(Events) /\ init \in Events /\ lead \in Int /\ lead >= -MaxLag
    BY DEF IInv, TypeOK
  <2>2. IsWork(init)
    BY <1>1
  <2> QED
    BY <1>1, <2>1, <2>2, EventShape, TimesAssumption
<1> DEFINE Moved ==
             /\ phase' \in {"connecting", "running", "error"}
             /\ mRegisteredModule' \in Layers \cup {NoLayer}
             /\ present' \subseteq joined' /\ joined' \subseteq Layers
             /\ mGpsdTimer' \in {"none", "idle", "scheduled", "deleted"}
             /\ TwinInv'
             /\ ForTwin(fes)' \/ AllStale'
<1>4. Moved
  <2>1. CASE UNCHANGED <<otaVars, phase>>
    <3>1. UNCHANGED <<mRegisteredModule, present, joined, mGpsdTimer, phase>>
      BY <2>1 DEF otaVars
    <3>2. \A n \in 1 .. Len(fes') : ~IsWork(fes'[n]) => fes'[n].to = mRegisteredModule
      BY <1>1 DEF ForTwin
    <3> QED
      BY <3>1, <3>2 DEF IInv, TypeOK, TwinInv, ForTwin
  <2>2. ASSUME NEW l \in Layers, registerModule(l)
        PROVE  Moved
    <3>1. mRegisteredModule = NoLayer
      BY <2>2 DEF registerModule, IInv, TwinInv
    <3>2. /\ present = {} /\ joined' = joined \cup {l} /\ present' = present \cup {l}
          /\ mRegisteredModule' = l
          /\ mGpsdTimer' = IF mGpsdTimer = "idle" THEN "scheduled" ELSE mGpsdTimer
          /\ phase' \in IF mGpsdTimer = "deleted" THEN {"running", "error"} ELSE {phase}
      BY <2>2, <3>1 DEF registerModule
    <3>3. \A n \in 1 .. Len(fes) : IsWork(fes[n])
      BY <1>1, <1>3, <3>1, EventShape, LayersAssumption DEF ForTwin
    <3>4. ForTwin(fes)'
      BY <1>1, <3>3 DEF ForTwin
    <3> QED
      BY <3>2, <3>4, LayersAssumption DEF IInv, TypeOK, TwinInv
  <2>3. ASSUME NEW l \in Layers, unregisterModule(l)
        PROVE  Moved
    <3>1. /\ l \in present /\ present' = present \ {l} /\ mRegisteredModule' = NoLayer
          /\ mGpsdTimer' = IF mGpsdTimer = "none" THEN "none" ELSE "deleted"
          /\ UNCHANGED <<joined, phase>>
      BY <2>3 DEF unregisterModule
    <3>2. present' = {}
      BY <3>1 DEF IInv, TwinInv
    <3>3. AllStale'
      BY <1>1, <1>2, <3>1 DEF AllStale
    <3> QED
      BY <3>1, <3>2, <3>3 DEF IInv, TypeOK, TwinInv
  <2> QED
    BY <2>1, <2>2, <2>3 DEF ExecuteWork
<1>5. TypeOK'
  <2>1. lead' \in Int /\ lead' >= -MaxLag
    BY <1>2, <1>3
  <2> QED
    BY <1>1, <1>2, <1>4, <2>1 DEF IInv, TypeOK
<1>6. QueueInv'
  BY <1>1, <1>2 DEF IInv, QueueInv
<1>7. EventsInv'
  <2>1. OneWork(fes)'
    BY <1>1 DEF OneWork
  <2> QED
    BY <1>2, <1>4, <2>1 DEF EventsInv
<1>8. Ascending(fes)'
  <2> SUFFICES ASSUME NEW m \in 1 .. Len(fes'), NEW n \in 1 .. Len(fes'), m < n,
                      ~IsWork(fes'[m]), ~IsWork(fes'[n])
               PROVE  fes'[m].id < fes'[n].id
    BY DEF Ascending
  <2>1. m # Len(fes') /\ n # Len(fes')
    BY <1>1
  <2>2. /\ m + 1 \in 1 .. Len(fes) /\ n + 1 \in 1 .. Len(fes) /\ m + 1 < n + 1
        /\ fes'[m] = fes[m + 1] /\ fes'[n] = fes[n + 1]
    BY <1>1, <2>1
  <2> QED
    BY <2>2 DEF IInv, OrderInv, Ascending
<1>9. Between(fes)'
  BY <1>1, <1>2, <1>3 DEF IInv, OrderInv, Between
<1>10. ListInv' /\ heard' <= sent'
  BY <1>2 DEF IInv, OrderInv, ListInv
<1> QED
  BY <1>4, <1>5, <1>6, <1>7, <1>8, <1>9, <1>10 DEF IInv, OrderInv

-----------------------------------------------------------------------------

(* The invariant, for every step of either thread.                         *)
LEMMA StepInv == IInv /\ [Next]_vars => IInv'
<1> SUFFICES ASSUME IInv, [Next]_vars
             PROVE  IInv'
  OBVIOUS
<1> USE DEF usrpVars, queueVars, otaVars, schedVars
<1>1. CASE Answer
  <2>1. TypeOK'
    BY <1>1 DEF Answer, IInv, TypeOK
  <2> QED
    BY <1>1, <2>1, CalmInv DEF Answer, IInv, QueueInv
<1>2. CASE Poll
  <2>1. TypeOK'
    <3>1. attempt' \in 0 .. ConnectTimeout
      BY <1>2, TimesAssumption DEF Poll, IInv, TypeOK
    <3> QED
      BY <1>2, <3>1 DEF Poll, IInv, TypeOK
  <2> QED
    BY <1>2, <2>1, CalmInv DEF Poll, IInv, QueueInv
<1>3. CASE Trigger
  BY <1>3, TriggerInv
<1>4. CASE TakeNextEvent
  BY <1>4, LookInv DEF TakeNextEvent
<1>5. CASE DoTiming
  <2>1. CASE HandOver /\ pc' = "wait"
    BY <1>5, <2>1, HandOverInv DEF DoTiming
  <2>2. CASE pc' = "again" /\ UNCHANGED <<fes, queueVars>>
    <3>1. TypeOK'
      BY <1>5, <2>2 DEF DoTiming, IInv, TypeOK
    <3> QED
      BY <1>5, <2>2, <3>1, CalmInv DEF DoTiming
  <2> QED
    BY <1>5, <2>1, <2>2 DEF DoTiming
<1>6. CASE WaitFor
  <2>1. CASE HandOver /\ pc' = "again"
    BY <1>6, <2>1, HandOverInv DEF WaitFor
  <2>2. CASE ~mNotified /\ pc' \in {"again", "asleep"} /\ UNCHANGED <<fes, queueVars>>
    <3>1. TypeOK'
      BY <1>6, <2>2 DEF WaitFor, IInv, TypeOK
    <3>2. mIndicationList = << >>
      BY <2>2 DEF IInv, QueueInv
    <3> QED
      BY <1>6, <2>2, <3>1, <3>2, CalmInv DEF WaitFor
  <2> QED
    BY <1>6, <2>1, <2>2 DEF WaitFor
<1>7. CASE Timeout
  <2>1. TypeOK'
    BY <1>7 DEF Timeout, IInv, TypeOK
  <2> QED
    BY <1>7, <2>1, CalmInv DEF Timeout
<1>8. CASE LookAgain
  BY <1>8, LookInv DEF LookAgain
<1>9. CASE ExecutePacket
  BY <1>9, ExecutePacketInv
<1>10. CASE ExecuteWork
  BY <1>10, ExecuteWorkInv
<1>11. CASE ExecutionResumed
  <2>1. TypeOK'
    <3>1. lead' \in Int /\ lead' >= -MaxLag
      BY <1>11, TimesAssumption DEF ExecutionResumed
    <3> QED
      BY <1>11, <3>1 DEF ExecutionResumed, IInv, TypeOK
  <2> QED
    BY <1>11, <2>1, CalmInv DEF ExecutionResumed
<1>12. CASE Tick
  <2>1. TypeOK'
    <3>1. lead' \in Int /\ lead' >= -MaxLag
      BY <1>12, TimesAssumption DEF Tick, IInv, TypeOK
    <3> QED
      BY <1>12, <3>1 DEF Tick, IInv, TypeOK
  <2> QED
    BY <1>12, <2>1, CalmInv DEF Tick, IInv, QueueInv
<1>13. CASE UNCHANGED vars
  <2>1. TypeOK'
    BY <1>13 DEF vars, IInv, TypeOK
  <2> QED
    BY <1>13, <2>1, CalmInv DEF vars, IInv, QueueInv
<1> QED
  BY <1>1, <1>2, <1>3, <1>4, <1>5, <1>6, <1>7, <1>8, <1>9, <1>10, <1>11, <1>12, <1>13
     DEF Next, Scheduler, Stopped

(* The invariant holds in every state of the testbed.                      *)
THEOREM Invariance == Spec => []IInv
BY InitInv, StepInv, PTL DEF Spec

(* Variables of both threads keep their types: numbers of packets within   *)
(* what was sent, a lag within its bound, a queue of packets.              *)
THEOREM TypeCorrect == Spec => []TypeOK
<1>1. IInv => TypeOK
  BY DEF IInv
<1> QED
  BY <1>1, Invariance, PTL

(* No wake-up is lost: whatever the order of trigger, flush, wait and      *)
(* timeout, the scheduler never sleeps while the queue holds a packet.     *)
THEOREM NoLostWakeUp == Spec => []NoSleepOnPackets
<1>1. IInv => NoSleepOnPackets
  BY DEF IInv, QueueInv, NoSleepOnPackets
<1> QED
  BY <1>1, Invariance, PTL

-----------------------------------------------------------------------------

(* The assumption of OnTimeWithTwin: the DUT only talks to a twin.         *)
Answered == mIndicationList # << >> => mRegisteredModule # NoLayer

(* Packets that end a wait are executed before the event waited for.       *)
LEMMA EarlyPackets ==
    ASSUME IInv, Answered, mNotified, HandOver, pc # "take", IsWork(init), init.after > 0
    PROVE  ~IsWork(fes'[1])
<1> DEFINE new == [n \in DOMAIN mIndicationList |-> Packet(mIndicationList[n])]
<1>1. mRegisteredModule # NoLayer /\ mIndicationList # << >>
  BY DEF IInv, QueueInv, Answered
<1>2. fes' = InsertNow(new)
  BY <1>1 DEF HandOver
<1>3. /\ new \in Seq(Events) /\ Len(new) = Len(mIndicationList) /\ Len(new) >= 1
      /\ \A m \in 1 .. Len(new) : ~IsWork(new[m])
  <2>1. Len(mIndicationList) >= 1
    BY <1>1 DEF IInv, TypeOK
  <2> QED
    BY <1>1, <2>1, NewPackets
<1> HIDE DEF new
<1>4. fes \in Seq(Events) /\ OneWork(fes) /\ Len(fes) \in Nat
  BY DEF IInv, TypeOK, EventsInv
<1>5. PICK n \in 0 .. Len(fes) :
        /\ \A m \in 1 .. n : fes[m].after = 0
        /\ \A m \in 1 .. n : fes'[m] = fes[m]
        /\ \A m \in 1 .. Len(new) : fes'[n + m] = new[m]
  BY <1>2, <1>3, <1>4, Inserted
<1>6. CASE n = 0
  BY <1>3, <1>5, <1>6
<1>7. CASE n > 0
  <2>1. fes[1].after = 0 /\ fes'[1] = fes[1] /\ 1 \in 1 .. Len(fes)
    BY <1>4, <1>5, <1>7
  <2>2. ~IsWork(fes[1])
    BY <2>1 DEF IInv, EventsInv
  <2> QED
    BY <2>1, <2>2
<1> QED
  BY <1>5, <1>6, <1>7

(* A step of a simulation that is not ahead does not get ahead.            *)
LEMMA TimeStep ==
    ASSUME IInv, Answered, TimeInv, [Next]_vars
    PROVE  TimeInv'
<1> USE DEF usrpVars, queueVars, otaVars, schedVars
<1>1. lead \in Int /\ lead <= 0 /\ init \in Events
  BY DEF IInv, TypeOK, TimeInv, NeverAhead
<1>2. IsWork(init) => init.after \in Nat
  BY <1>1, EventShape
<1>3. CASE pc' # "again" /\ lead' <= 0
  BY <1>3 DEF TimeInv, NeverAhead
<1>4. CASE WaitFor
  <2>1. UNCHANGED <<lead, init>>
    BY <1>4 DEF WaitFor
  <2>2. CASE mNotified /\ HandOver
    <3>1. pc # "take"
      BY <1>4 DEF WaitFor
    <3>2. CASE IsWork(init) /\ init.after > 0
      BY <1>1, <2>1, <2>2, <3>1, <3>2, EarlyPackets DEF TimeInv, NeverAhead
    <3>3. CASE IsWork(init) /\ init.after = 0
      BY <1>1, <2>1, <3>3 DEF TimeInv, NeverAhead, WaitTime
    <3>4. CASE ~IsWork(init)
      BY <1>1, <2>1, <3>4 DEF TimeInv, NeverAhead
    <3> QED
      BY <1>2, <3>2, <3>3, <3>4
  <2>3. CASE WaitTime <= 0
    BY <1>1, <2>1, <2>3 DEF TimeInv, NeverAhead, WaitTime
  <2>4. CASE pc' = "asleep"
    BY <1>1, <2>1, <2>4 DEF TimeInv, NeverAhead
  <2> QED
    BY <1>4, <2>2, <2>3, <2>4 DEF WaitFor
<1>5. CASE DoTiming
  <2>1. UNCHANGED <<lead, init>> /\ (pc' = "again" => WaitTime < 0)
    BY <1>5 DEF DoTiming
  <2>2. IsWork(init) => WaitTime \in Int
    BY <1>1, <1>2 DEF WaitTime
  <2> QED
    BY <1>1, <2>1, <2>2 DEF TimeInv, NeverAhead, WaitTime
<1>6. CASE ExecuteWork
  <2>1. /\ pc = "again" /\ init = fes[1] /\ IsWork(fes[1])
        /\ lead' = lead + init.after /\ pc' = "take"
    BY <1>6, Worked DEF ExecuteWork
  <2>2. WaitTime <= 0
    BY <2>1 DEF TimeInv
  <2>3. lead' <= 0 /\ pc' # "again"
    BY <2>1, <2>2 DEF WaitTime
  <2> QED
    BY <1>3, <2>3
<1>7. CASE Tick
  <2>1. lead' \in Int /\ lead' <= lead /\ UNCHANGED <<pc, init, fes>>
    BY <1>1, <1>7, TimesAssumption DEF Tick
  <2> QED
    BY <1>1, <1>2, <2>1 DEF TimeInv, NeverAhead, WaitTime
<1>8. CASE Trigger
  <2>1. UNCHANGED <<lead, init, fes>> /\ (pc' = "again" => pc = "again")
    BY <1>8 DEF Trigger
  <2> QED
    BY <2>1 DEF TimeInv, NeverAhead, WaitTime
<1>9. CASE UNCHANGED <<pc, lead, init, fes>>
  BY <1>9 DEF TimeInv, NeverAhead, WaitTime
<1>10. CASE TakeNextEvent \/ Timeout \/ LookAgain \/ ExecutePacket
  <2>1. pc' # "again" /\ lead' = lead
    BY <1>10 DEF TakeNextEvent, Timeout, LookAgain, ExecutePacket
  <2> QED
    BY <1>1, <1>3, <2>1
<1>11. CASE ExecutionResumed
  <2>1. pc' # "again" /\ lead' = 0
    BY <1>11 DEF ExecutionResumed
  <2> QED
    BY <1>3, <2>1
<1> QED
  BY <1>4, <1>5, <1>6, <1>7, <1>8, <1>9, <1>10, <1>11
     DEF Next, Scheduler, Answer, Poll, Stopped, vars

(* As long as every packet of the DUT finds a twin, the simulation never   *)
(* overtakes the wall clock, although each packet ends a wait early.       *)
THEOREM OnTime == Spec => OnTimeWithTwin
<1>1. Init => TimeInv
  BY DEF Init, TimeInv, NeverAhead
<1>2. IInv /\ Answered /\ TimeInv /\ [Next]_vars => TimeInv'
  BY TimeStep
<1>3. TimeInv => NeverAhead
  BY DEF TimeInv
<1>4. Spec /\ []Answered => []NeverAhead
  BY <1>1, <1>2, <1>3, Invariance, PTL DEF Spec
<1> QED
  BY <1>4, PTL DEF OnTimeWithTwin, Answered

-----------------------------------------------------------------------------

(* Packets in an event set and packets in the list.                        *)
Ids(events) == {events[n].id : n \in {m \in 1 .. Len(events) : ~IsWork(events[m])}}
Listed == {mIndicationList[n] : n \in 1 .. Len(mIndicationList)}

(* What is underway: without a twin, only what is in the list.             *)
LEMMA UnderwayIs ==
    IInv => Underway = IF mRegisteredModule # NoLayer THEN Ids(fes) \cup Listed ELSE Listed
<1> SUFFICES ASSUME IInv
             PROVE  Underway = IF mRegisteredModule # NoLayer THEN Ids(fes) \cup Listed ELSE Listed
  OBVIOUS
<1>1. /\ DOMAIN fes = 1 .. Len(fes) /\ DOMAIN mIndicationList = 1 .. Len(mIndicationList)
      /\ \A n \in 1 .. Len(fes) : fes[n] \in Events
  BY DEF IInv, TypeOK
<1>2. \A n \in 1 .. Len(fes) :
        IsForTwin(fes[n]) <=> ~IsWork(fes[n]) /\ mRegisteredModule # NoLayer
  <2> SUFFICES ASSUME NEW n \in 1 .. Len(fes)
               PROVE  IsForTwin(fes[n]) <=> ~IsWork(fes[n]) /\ mRegisteredModule # NoLayer
    OBVIOUS
  <2>1. ~IsWork(fes[n]) <=> fes[n].kind = "packet"
    BY <1>1, EventShape DEF IsWork
  <2>2. CASE mRegisteredModule = NoLayer
    BY <2>2 DEF IInv, TwinInv, IsForTwin
  <2>3. CASE mRegisteredModule # NoLayer
    BY <2>1, <2>3 DEF IInv, TwinInv, EventsInv, ForTwin, AllStale, IsForTwin
  <2> QED
    BY <2>2, <2>3
<1>3. Handed = IF mRegisteredModule # NoLayer THEN Ids(fes) ELSE {}
  BY <1>1, <1>2 DEF Handed, Ids
<1> QED
  BY <1>1, <1>3 DEF Underway, Listed

(* ... before and after a step.                                            *)
LEMMA UnderwayStep ==
    ASSUME IInv, [Next]_vars
    PROVE  /\ IInv'
           /\ mRegisteredModule # NoLayer => Underway = Ids(fes) \cup Listed
           /\ mRegisteredModule = NoLayer => Underway = Listed
           /\ mRegisteredModule' # NoLayer => Underway' = Ids(fes') \cup Listed'
           /\ mRegisteredModule' = NoLayer => Underway' = Listed'
<1>1. IInv'
  BY StepInv
<1>2. (IInv => Underway = IF mRegisteredModule # NoLayer THEN Ids(fes) \cup Listed ELSE Listed)'
  BY UnderwayIs, PTL
<1>3. Ids(fes)' = Ids(fes')
  BY DEF Ids
<1> QED
  BY <1>1, <1>2, <1>3, UnderwayIs

(* A packet is as much underway in the event set as in the list.           *)
LEMMA HandOverKeeps ==
    ASSUME IInv, HandOver, mRegisteredModule # NoLayer
    PROVE  Ids(fes') = Ids(fes) \cup Listed
<1> DEFINE new == [n \in DOMAIN mIndicationList |-> Packet(mIndicationList[n])]
<1>1. fes' = InsertNow(new)
  BY DEF HandOver
<1>2. /\ new \in Seq(Events) /\ Len(new) = Len(mIndicationList) /\ Len(new) \in Nat
      /\ \A m \in 1 .. Len(new) : ~IsWork(new[m]) /\ new[m].id = mIndicationList[m]
  BY NewPackets
<1> HIDE DEF new
<1>3. fes \in Seq(Events) /\ OneWork(fes) /\ Len(fes) \in Nat
  BY DEF IInv, TypeOK, EventsInv
<1>4. Len(fes') = Len(fes) + Len(new)
  BY <1>1, <1>2, <1>3, Inserted
<1>5. PICK n \in 0 .. Len(fes) :
        /\ \A m \in 1 .. n : fes'[m] = fes[m]
        /\ \A m \in 1 .. Len(new) : fes'[n + m] = new[m]
        /\ \A m \in n + 1 .. Len(fes) : fes'[Len(new) + m] = fes[m]
  BY <1>1, <1>2, <1>3, Inserted
<1>6. ASSUME NEW p \in Ids(fes')
      PROVE  p \in Ids(fes) \cup Listed
  <2>1. PICK i \in 1 .. Len(fes') : ~IsWork(fes'[i]) /\ p = fes'[i].id
    BY <1>6 DEF Ids
  <2>2. CASE i <= n
    BY <1>3, <1>5, <2>1, <2>2 DEF Ids
  <2>3. CASE i > n /\ i <= n + Len(new)
    <3>1. i - n \in 1 .. Len(new) /\ i = n + (i - n)
      BY <1>2, <2>3
    <3>2. p = mIndicationList[i - n]
      BY <1>2, <1>5, <2>1, <3>1
    <3> QED
      BY <1>2, <3>1, <3>2 DEF Listed
  <2>4. CASE i > n + Len(new)
    <3>1. i - Len(new) \in n + 1 .. Len(fes) /\ i = Len(new) + (i - Len(new))
          /\ i - Len(new) \in 1 .. Len(fes)
      BY <1>2, <1>3, <1>4, <2>4
    <3>2. fes'[i] = fes[i - Len(new)]
      BY <1>5, <3>1
    <3> QED
      BY <2>1, <3>1, <3>2 DEF Ids
  <2> QED
    BY <1>2, <2>2, <2>3, <2>4
<1>7. ASSUME NEW p \in Ids(fes)
      PROVE  p \in Ids(fes')
  <2>1. PICK m \in 1 .. Len(fes) : ~IsWork(fes[m]) /\ p = fes[m].id
    BY <1>7 DEF Ids
  <2>2. \E i \in 1 .. Len(fes') : fes'[i] = fes[m]
    <3>1. CASE m <= n
      <4>1. m \in 1 .. Len(fes') /\ fes'[m] = fes[m]
        BY <1>2, <1>3, <1>4, <1>5, <3>1
      <4> QED
        BY <4>1
    <3>2. CASE m > n
      <4>1. Len(new) + m \in 1 .. Len(fes') /\ fes'[Len(new) + m] = fes[m]
        BY <1>2, <1>3, <1>4, <1>5, <3>2
      <4> QED
        BY <4>1
    <3> QED
      BY <3>1, <3>2
  <2> QED
    BY <2>1, <2>2 DEF Ids
<1>8. ASSUME NEW p \in Listed
      PROVE  p \in Ids(fes')
  <2>1. PICK m \in 1 .. Len(new) : p = new[m].id /\ ~IsWork(new[m])
    BY <1>2, <1>8 DEF Listed
  <2>2. n + m \in 1 .. Len(fes') /\ fes'[n + m] = new[m]
    BY <1>2, <1>3, <1>4, <1>5
  <2> QED
    BY <2>1, <2>2 DEF Ids
<1> QED
  BY <1>6, <1>7, <1>8

(* An event of the simulation leaves the packets in the event set.         *)
LEMMA WorkKeeps ==
    ASSUME IInv, ExecuteWork
    PROVE  Ids(fes') = Ids(fes)
<1>1. /\ IsWork(fes[1]) /\ Len(fes') = Len(fes) /\ Len(fes) \in Nat
      /\ IsWork(fes'[Len(fes')])
      /\ \A n \in 1 .. Len(fes') : n # Len(fes') =>
           n + 1 \in 1 .. Len(fes) /\ fes'[n] = fes[n + 1]
  BY Worked
<1>2. ASSUME NEW p \in Ids(fes')
      PROVE  p \in Ids(fes)
  BY <1>1, <1>2 DEF Ids
<1>3. ASSUME NEW p \in Ids(fes)
      PROVE  p \in Ids(fes')
  <2>1. PICK m \in 1 .. Len(fes) : ~IsWork(fes[m]) /\ p = fes[m].id
    BY <1>3 DEF Ids
  <2>2. m # 1
    BY <1>1, <2>1
  <2>3. m - 1 \in 1 .. Len(fes') /\ m - 1 # Len(fes') /\ (m - 1) + 1 = m
    BY <1>1, <2>2
  <2>4. fes'[m - 1] = fes[m]
    BY <1>1, <2>3
  <2> QED
    BY <2>1, <2>3, <2>4 DEF Ids
<1> QED
  BY <1>2, <1>3

(* A step of either thread is a step of the link or none.                  *)
LEMMA LinkStep ==
    ASSUME IInv, [Next]_vars
    PROVE  Link!Next \/ UNCHANGED Link!vars
<1> USE DEF usrpVars, queueVars, otaVars, schedVars
<1>0. /\ IInv'
      /\ mRegisteredModule # NoLayer => Underway = Ids(fes) \cup Listed
      /\ mRegisteredModule = NoLayer => Underway = Listed
      /\ mRegisteredModule' # NoLayer => Underway' = Ids(fes') \cup Listed'
      /\ mRegisteredModule' = NoLayer => Underway' = Listed'
  BY UnderwayStep
<1>1. CASE UNCHANGED <<fes, mIndicationList, mRegisteredModule, sent, heard>>
  <2>1. Underway' = Underway
    <3>1. Ids(fes') = Ids(fes)
      BY <1>1
    <3>2. Listed' = Listed
      BY <1>1 DEF Listed
    <3>3. mRegisteredModule' = mRegisteredModule
      BY <1>1
    <3> QED
      BY <1>0, <3>1, <3>2, <3>3
  <2> QED
    BY <1>1, <2>1 DEF Link!vars
<1>2. CASE Trigger
  <2>1. /\ sent' = sent + 1 /\ mIndicationList' = Append(mIndicationList, sent')
        /\ UNCHANGED <<fes, mRegisteredModule, heard>>
    BY <1>2 DEF Trigger
  <2>2. Listed' = Listed \cup {sent'}
    <3>1. mIndicationList \in Seq(1 .. MaxPackets) /\ sent' \in 1 .. MaxPackets
      BY <1>2, <2>1, TimesAssumption DEF Trigger, IInv, TypeOK
    <3>2. /\ Len(mIndicationList) \in Nat
          /\ Len(mIndicationList') = Len(mIndicationList) + 1
          /\ mIndicationList'[Len(mIndicationList) + 1] = sent'
          /\ \A n \in 1 .. Len(mIndicationList) : mIndicationList'[n] = mIndicationList[n]
      BY <2>1, <3>1
    <3> QED
      BY <3>2 DEF Listed
  <2>3. Underway' = Underway \cup {sent'}
    BY <1>0, <2>1, <2>2
  <2> QED
    BY <2>1, <2>3 DEF Link!Next, Link!Send
<1>3. CASE HandOver /\ UNCHANGED <<mRegisteredModule, sent, heard>>
  <2>1. mIndicationList' = << >> /\ Listed' = {}
    BY <1>3 DEF HandOver, Listed
  <2>2. CASE mRegisteredModule # NoLayer
    <3>1. Underway' = Underway
      BY <1>0, <1>3, <2>1, <2>2, HandOverKeeps
    <3> QED
      BY <1>3, <3>1 DEF Link!vars
  <2>3. CASE mRegisteredModule = NoLayer
    BY <1>0, <1>3, <2>1, <2>3 DEF Link!Next, Link!Lose
  <2> QED
    BY <2>2, <2>3
<1>4. CASE fes' = NonStale /\ UNCHANGED <<mIndicationList, mRegisteredModule, sent, heard>>
  <2>1. mRegisteredModule # NoLayer => fes' = fes
    BY <1>4, Fresh DEF IInv, EventsInv, AllStale
  <2>2. Underway' = Underway
    BY <1>0, <1>4, <2>1 DEF Listed
  <2> QED
    BY <1>4, <2>2 DEF Link!vars
<1>5. CASE ExecutePacket
  <2>1. /\ ForTwin(fes) /\ fes # << >> /\ init = Head(fes) /\ init.kind = "packet"
        /\ fes' = Tail(fes) /\ heard' = init.id
        /\ UNCHANGED <<mIndicationList, mRegisteredModule, sent>>
    BY <1>5, Fresh DEF ExecutePacket, IInv, EventsInv, AllStale
  <2>2. /\ fes \in Seq(Events) /\ Len(fes) \in Nat /\ 1 \in 1 .. Len(fes)
        /\ init = fes[1] /\ ~IsWork(fes[1]) /\ \A n \in 1 .. Len(fes) : fes[n] \in Events
        /\ Len(fes') = Len(fes) - 1
        /\ \A n \in 1 .. Len(fes) - 1 : n + 1 \in 1 .. Len(fes) /\ fes'[n] = fes[n + 1]
    BY <2>1 DEF IInv, TypeOK, IsWork
  <2>3. mRegisteredModule # NoLayer
    BY <2>1, <2>2, EventShape, LayersAssumption DEF ForTwin
  <2>4. Ids(fes') \cup {heard'} = Ids(fes)
    <3>1. ASSUME NEW m \in 1 .. Len(fes), m # 1
          PROVE  m - 1 \in 1 .. Len(fes') /\ fes'[m - 1] = fes[m]
      BY <2>2, <3>1
    <3> QED
      BY <2>1, <2>2, <3>1 DEF Ids
  <2>5. /\ \A p \in Ids(fes') : heard' < p /\ p \in Nat
        /\ \A p \in Listed : heard' < p /\ p \in Nat
        /\ heard < heard' /\ heard' \in Nat /\ heard \in Nat
    <3>1. \A n \in 1 .. Len(fes') : ~IsWork(fes'[n]) => heard' < fes'[n].id /\ fes'[n].id \in Nat
      BY <2>1, <2>2, EventShape DEF IInv, OrderInv, Ascending
    <3>2. \A m \in 1 .. Len(mIndicationList) : heard' < mIndicationList[m] /\ mIndicationList[m] \in Nat
      <4>1. \A m \in 1 .. Len(mIndicationList) : mIndicationList[m] \in 1 .. MaxPackets
        BY ElementOfSeq DEF IInv, TypeOK
      <4>2. \A m \in 1 .. Len(mIndicationList) : heard' < mIndicationList[m]
        BY <2>1, <2>2 DEF IInv, OrderInv, Between
      <4> QED
        BY <4>1, <4>2
    <3>3. heard < heard' /\ heard' \in Nat /\ heard \in Nat
      BY <2>1, <2>2, EventShape DEF IInv, TypeOK, OrderInv, Between
    <3> QED
      BY <3>1, <3>2, <3>3 DEF Ids, Listed
  <2>6. Listed' = Listed
    BY <2>1 DEF Listed
  <2>7. Underway = Underway' \cup {heard'} /\ Underway' = Ids(fes') \cup Listed
    BY <1>0, <2>1, <2>3, <2>4, <2>6
  <2>8. /\ heard' \in Underway /\ heard' > heard
        /\ \A p \in Underway : heard' <= p
        /\ Underway' = Underway \ {heard'}
    BY <2>5, <2>7
  <2> QED
    BY <2>1, <2>3, <2>8 DEF Link!Next, Link!Hear
<1>6. CASE ExecuteWork
  <2>1. Ids(fes') = Ids(fes) /\ Listed' = Listed /\ UNCHANGED <<sent, heard>>
    BY <1>6, WorkKeeps DEF ExecuteWork, Listed
  <2>2. CASE UNCHANGED <<otaVars, phase>>
    BY <1>0, <2>1, <2>2 DEF Link!vars
  <2>3. ASSUME NEW l \in Layers, registerModule(l)
        PROVE  Link!Next
    <3>1. mRegisteredModule = NoLayer /\ mRegisteredModule' = l /\ l # NoLayer
      BY <2>3, LayersAssumption DEF registerModule, IInv, TwinInv
    <3>2. Ids(fes) = {}
      <4>1. ForTwin(fes) /\ \A n \in 1 .. Len(fes) : fes[n] \in Events
        BY <1>6, Worked DEF IInv, TypeOK
      <4> QED
        BY <3>1, <4>1, EventShape, LayersAssumption DEF ForTwin, Ids
    <3> QED
      BY <1>0, <2>1, <3>1, <3>2 DEF Link!Next, Link!Join
  <2>4. ASSUME NEW l \in Layers, unregisterModule(l)
        PROVE  Link!Next
    <3>1. mRegisteredModule # NoLayer /\ mRegisteredModule' = NoLayer
      BY <2>4 DEF unregisterModule, IInv, TwinInv
    <3>2. Underway = Ids(fes) \cup Listed /\ Underway' = Listed
      BY <1>0, <2>1, <3>1
    <3>3. \A p \in Listed, q \in Ids(fes) : q < p
      BY DEF IInv, OrderInv, Between, Listed, Ids
    <3> QED
      BY <2>1, <3>1, <3>2, <3>3 DEF Link!Next, Link!Leave
  <2> QED
    BY <1>6, <2>2, <2>3, <2>4 DEF ExecuteWork
<1> QED
  BY <1>1, <1>2, <1>3, <1>4, <1>5, <1>6
     DEF Next, Scheduler, Answer, Poll, TakeNextEvent, DoTiming, WaitFor, Timeout,
         LookAgain, ExecutionResumed, Tick, Stopped, vars

(* Through two threads, the queue, early wake-ups, stale events and twins  *)
(* that come and go, packets reach the twin in order and at most once, and *)
(* only a missing or leaving twin loses any: the testbed implements        *)
(* DutLink.                                                                *)
THEOREM Refinement == Spec => LinkKept
<1>1. Init => Link!Init
  BY DEF Init, Link!Init, Underway, Handed, IsForTwin, Work
<1>2. IInv /\ [Next]_vars => [Link!Next]_(Link!vars)
  BY LinkStep
<1> QED
  BY <1>1, <1>2, Invariance, PTL DEF Spec, LinkKept, Link!Spec

=============================================================================
