-------------------------- MODULE DenServiceProofs --------------------------
(***************************************************************************)
(* Proofs about DenService, for any stations, use cases, foreign messages  *)
(* and times.  The memory and the history of received messages differ once *)
(* messages expire, so the invariant relates them message by message.      *)
(***************************************************************************)
EXTENDS DenService, FiniteSetTheorems, SequenceTheorems, TLAPS

(* One message per action in the history; what the memory holds comes from *)
(* others and is not newer than what the history knows about the action.   *)
HistoryInv ==
    \A s \in Stations :
      /\ \A d, e \in newest[s] : SameAction(d, e) => d = e
      /\ \A m \in mMemory[s] :
           /\ m.station # s
           /\ \E d \in newest[s] : SameAction(d, m) /\ m.referenceTime <= d.referenceTime

IInv == TypeOK /\ HistoryInv /\ NewestWarningKept

-----------------------------------------------------------------------------

(* Times of a message are numbers.                                         *)
LEMMA MessageShape ==
    ASSUME NEW d \in Denms
    PROVE  d.referenceTime \in Nat /\ DenmExpiry(d) \in Nat
BY DenMemoryAssumption DEF Denms, DenmExpiry

(* Sequence numbers stay in their range.                                   *)
LEMMA SequenceRange ==
    ASSUME NEW n \in Nat
    PROVE  n % SequenceModulus \in 0..(SequenceModulus - 1)
BY DenServiceAssumption

(* Messages that a station makes: its own, of the cause of the use case.   *)
LEMMA MessageMade ==
    ASSUME TypeOK, NEW s \in Stations, NEW n \in Nat
    PROVE  /\ \A u \in UseCases :
                /\ Message(s, n, u) \in Denms /\ Message(s, n, u).station = s
                /\ Message(s, n, u).cause = "DangerousEndOfQueue" => u = EndOfQueue
                /\ Message(s, n, u).cause = "TrafficCondition" => u = Ahead
           /\ ImpactMessage(s, n, "response") \in Denms
           /\ ImpactMessage(s, n, "response").station = s
           /\ ImpactMessage(s, n, "response").cause = "CollisionRisk"
<1> DEFINE skeleton == createMessageSkeleton(s, n)
<1>1. ActionSequence(s, n) \in 0..(SequenceModulus - 1)
  <2>1. mSequenceNumber[s] + n \in Nat
    BY DEF TypeOK
  <2> QED
    BY <2>1, SequenceRange DEF ActionSequence
<1>2. TaiFor(updated) \in Nat
  BY TimerAssumption DEF TypeOK, TaiFor
<1>3. /\ validityDuration[EndOfQueue] \in Nat /\ validityDuration[Ahead] \in Nat
      /\ validityDuration[Impact] \in Nat
  BY DenServiceAssumption DEF UseCases, TrafficJam
<1>4. /\ EndOfQueueMessage(s, n) \in Denms /\ EndOfQueueMessage(s, n).station = s
      /\ EndOfQueueMessage(s, n).cause = "DangerousEndOfQueue"
  BY <1>1, <1>2, <1>3 DEF EndOfQueueMessage, createMessageSkeleton, Denms, Causes, Indications
<1>5. /\ AheadMessage(s, n) \in Denms /\ AheadMessage(s, n).station = s
      /\ AheadMessage(s, n).cause = "TrafficCondition"
  BY <1>1, <1>2, <1>3 DEF AheadMessage, createMessageSkeleton, Denms, Causes, Indications
<1>6. \A i \in {"request", "response"} :
        /\ ImpactMessage(s, n, i) \in Denms /\ ImpactMessage(s, n, i).station = s
        /\ ImpactMessage(s, n, i).cause = "CollisionRisk"
  BY <1>1, <1>2, <1>3 DEF ImpactMessage, createMessageSkeleton, Denms, Causes, Indications
<1>7. EndOfQueue # Ahead /\ EndOfQueue # Impact /\ Ahead # Impact
  BY DEF EndOfQueue, Ahead, Impact
<1>8. /\ Message(s, n, EndOfQueue) = EndOfQueueMessage(s, n)
      /\ Message(s, n, Ahead) = AheadMessage(s, n)
      /\ Message(s, n, Impact) = ImpactMessage(s, n, "request")
  BY <1>7 DEF Message
<1> QED
  BY <1>4, <1>5, <1>6, <1>8 DEF UseCases, TrafficJam

(* The radio only holds messages that were sent.                           *)
LEMMA AiredWithin ==
    ASSUME NEW messages
    PROVE  Aired(messages) \subseteq air \cup messages /\ air \subseteq Aired(messages)
BY DEF Aired

(* Capacities are numbers.                                                 *)
LEMMA CapacityNat ==
    ASSUME NEW u \in TrafficJam
    PROVE  SampleCapacity(sampleDuration[u], sampleInterval[u]) \in Nat
<1>1. sampleDuration[u] \in Nat /\ sampleInterval[u] \in Nat \ {0}
  BY DenServiceAssumption
<1> QED
  BY <1>1 DEF SampleCapacity

(* A sampler never holds more samples than its capacity.                   *)
LEMMA FedWithin ==
    ASSUME TypeOK, NEW s \in Stations, NEW u \in TrafficJam
    PROVE  /\ Fed(s, u) \in Seq(Samples)
           /\ Len(Fed(s, u)) <= SampleCapacity(sampleDuration[u], sampleInterval[u])
<1> DEFINE buffer == mVelocitySampler[s][u]
           capacity == SampleCapacity(sampleDuration[u], sampleInterval[u])
           sample == [value |-> speed[s], timestamp |-> updated]
           longer == <<sample>> \o buffer
           limit == IF Len(longer) > capacity THEN capacity ELSE Len(longer)
<1>1. buffer \in Seq(Samples) /\ Len(buffer) <= capacity /\ sample \in Samples
  <2>1. buffer \in Seq(Samples) /\ Len(buffer) <= capacity
    BY DEF TypeOK
  <2>2. speed[s] \in Speeds /\ updated \in 0..MaxTime
    BY DenServiceAssumption DEF TypeOK
  <2> QED
    BY <2>1, <2>2 DEF Samples
<1>2. capacity \in Nat
  BY CapacityNat
<1> HIDE DEF buffer, capacity, sample
<1>3. longer \in Seq(Samples) /\ Len(longer) \in Nat
  BY <1>1
<1> HIDE DEF longer
<1>4. limit \in Nat /\ limit <= capacity /\ limit <= Len(longer)
  BY <1>2, <1>3
<1>5. SubSeq(longer, 1, limit) \in Seq(Samples) /\ Len(SubSeq(longer, 1, limit)) = limit
  <2> HIDE DEF limit
  <2>1. \A i \in 1..limit : longer[i] \in Samples
    BY <1>3, <1>4
  <2> QED
    BY <1>4, <2>1, SubSeqProperties
<1>6. Fed(s, u) = IF SampleOffset(buffer, sampleInterval[u], sample.timestamp) >= 0
                    THEN SubSeq(longer, 1, limit) ELSE buffer
  BY DEF Fed, FeedSample, PushSample, buffer, capacity, sample, longer
<1> QED
  BY <1>1, <1>4, <1>5, <1>6 DEF capacity

(* Steps without a new message for the station.                            *)
LEMMA MemoryStays ==
    ASSUME IInv, TypeOK', UNCHANGED <<mMemory, newest>>, now' >= now
    PROVE  IInv'
<1>1. HistoryInv'
  BY DEF IInv, HistoryInv
<1>2. NewestWarningKept'
  <2> SUFFICES ASSUME NEW s \in Stations, NEW d \in newest[s], DenmExpiry(d) >= TaiFor(now')
               PROVE  d \in mMemory[s]
    BY DEF NewestWarningKept
  <2>1. now \in Nat /\ now' \in Nat /\ Timebase \in Nat
    BY TimerAssumption DEF IInv, TypeOK
  <2>2. d \in Denms
    BY DEF IInv, TypeOK
  <2>3. DenmExpiry(d) >= TaiFor(now)
    BY <2>1, <2>2, MessageShape DEF TaiFor
  <2> QED
    BY <2>3 DEF IInv, NewestWarningKept
<1> QED
  BY <1>1, <1>2 DEF IInv

(* The initial states.                                                     *)
LEMMA InitInv == Init => IInv
<1> SUFFICES ASSUME Init
             PROVE  IInv
  OBVIOUS
<1>1. TypeOK
  <2>1. /\ UpdateInterval \in Nat \ {0} /\ MaxTime \in Nat /\ SequenceModulus \in Nat \ {0}
        /\ \A u \in TrafficJam : SampleCapacity(sampleDuration[u], sampleInterval[u]) \in Nat
    BY DenServiceAssumption, CapacityNat
  <2>2. nextUpdate \in [Stations -> now..(MaxTime + 2 * UpdateInterval)]
    BY <2>1 DEF Init
  <2>3. mVelocitySampler \in [Stations -> [TrafficJam -> Seq(Samples)]]
    BY DEF Init
  <2> QED
    BY <2>1, <2>2, <2>3 DEF Init, TypeOK
<1> QED
  BY <1>1 DEF IInv, Init, HistoryInv, NewestWarningKept

(* A message that is received, and the answer it may provoke.              *)
LEMMA IndicateInv ==
    ASSUME IInv, NEW s \in Stations, NEW denm \in air, indicate(s, denm)
    PROVE  IInv'
<1> DEFINE memory == mMemory[s]
           known == newest[s]
           found == {d \in memory : SameAction(d, denm)}
           older == {d \in known : SameAction(d, denm) /\ d.referenceTime < denm.referenceTime}
           fresh == \A d \in found : d.referenceTime < denm.referenceTime
           unknown == ~\E d \in known \ older : SameAction(d, denm)
<1>1. /\ denm.station # s
      /\ mMemory' = [mMemory EXCEPT ![s] = receivedDenm(memory, denm)]
      /\ newest' = [newest EXCEPT ![s] =
                      IF ~unknown THEN known ELSE (known \ older) \cup {denm}]
      /\ UNCHANGED <<now, speed, updated, cams, nextUpdate, mVelocitySampler,
                     mDetectionBlockingSince, mPendingRequest>>
  BY DEF indicate, Heeds
<1>2. /\ mMemory \in [Stations -> SUBSET Denms] /\ newest \in [Stations -> SUBSET Denms]
      /\ denm \in Denms /\ now \in Nat /\ air \subseteq Denms
      /\ \A d, e \in memory : SameAction(d, e) => d = e
      /\ \A d, e \in known : SameAction(d, e) => d = e
      /\ \A m \in memory :
           /\ m.station # s
           /\ \E d \in known : SameAction(d, m) /\ m.referenceTime <= d.referenceTime
      /\ \A d \in known : DenmExpiry(d) >= TaiFor(now) => d \in memory
  BY DEF IInv, TypeOK, HistoryInv, NewestWarningKept
<1>3. /\ mMemory'[s] = IF fresh THEN (memory \ found) \cup {denm} ELSE memory
      /\ newest'[s] = IF unknown THEN (known \ older) \cup {denm} ELSE known
      /\ \A t \in Stations \ {s} : mMemory'[t] = mMemory[t] /\ newest'[t] = newest[t]
  <2>1. receivedDenm(memory, denm) = IF fresh THEN (memory \ found) \cup {denm} ELSE memory
    BY DEF receivedDenm
  <2> HIDE DEF memory, known, fresh, unknown, found, older
  <2> QED
    BY <1>1, <1>2, <2>1
<1>4. /\ memory \subseteq Denms /\ known \subseteq Denms
      /\ \A d \in Denms : d.referenceTime \in Nat
  BY <1>2, MessageShape
<1> DEFINE memory2 == mMemory'[s]
           known2 == newest'[s]
<1>5. memory2 \subseteq Denms /\ known2 \subseteq Denms
  BY <1>2, <1>3, <1>4
<1>6. unknown => fresh
  <2> SUFFICES ASSUME unknown, NEW m \in found
               PROVE  m.referenceTime < denm.referenceTime
    OBVIOUS
  <2>1. PICK d \in known : SameAction(d, m) /\ m.referenceTime <= d.referenceTime
    BY <1>2
  <2>2. SameAction(d, denm)
    BY <2>1 DEF SameAction
  <2>3. d \in older
    BY <2>2
  <2> QED
    BY <1>2, <1>4, <2>1, <2>3
<1>7. /\ \A d, e \in memory2 : SameAction(d, e) => d = e
      /\ \A d, e \in known2 : SameAction(d, e) => d = e
  <2>1. \A d, e \in memory2 : SameAction(d, e) => d = e
    BY <1>2, <1>3 DEF SameAction
  <2>2. \A d \in known2 : SameAction(d, denm) /\ unknown => d = denm
    BY <1>3
  <2>3. \A d, e \in known2 : SameAction(d, e) => d = e
    BY <1>2, <1>3, <2>2 DEF SameAction
  <2> QED
    BY <2>1, <2>3
<1>8. ASSUME NEW m \in memory2
      PROVE  /\ m.station # s
             /\ \E d \in known2 : SameAction(d, m) /\ m.referenceTime <= d.referenceTime
  <2>1. CASE m = denm
    <3>1. SameAction(denm, denm) /\ denm.referenceTime <= denm.referenceTime
      BY <1>2, <1>4 DEF SameAction
    <3>2. CASE unknown
      BY <1>1, <1>3, <2>1, <3>1, <3>2
    <3>3. CASE ~unknown
      <4>1. PICK d \in known \ older : SameAction(d, denm)
        BY <3>3
      <4>2. denm.referenceTime <= d.referenceTime
        BY <1>2, <1>4, <4>1
      <4> QED
        BY <1>1, <1>3, <2>1, <3>3, <4>1, <4>2
    <3> QED
      BY <3>2, <3>3
  <2>2. CASE m # denm
    <3>1. m \in memory
      BY <1>3, <2>2
    <3>2. PICK d \in known : SameAction(d, m) /\ m.referenceTime <= d.referenceTime
      BY <1>2, <3>1
    <3>3. CASE d \in known2
      BY <1>2, <3>1, <3>2, <3>3
    <3>4. CASE d \notin known2
      <4>1. unknown /\ d \in older /\ denm \in known2
        BY <1>3, <3>2, <3>4
      <4>2. SameAction(denm, m) /\ m.referenceTime <= denm.referenceTime
        BY <1>2, <1>4, <3>1, <3>2, <4>1 DEF SameAction
      <4> QED
        BY <1>2, <3>1, <4>1, <4>2
    <3> QED
      BY <3>3, <3>4
  <2> QED
    BY <2>1, <2>2
<1>9. ASSUME NEW d \in known2, DenmExpiry(d) >= TaiFor(now)
      PROVE  d \in memory2
  <2>1. CASE d = denm /\ unknown
    BY <1>3, <1>6, <2>1
  <2>2. CASE ~(d = denm /\ unknown)
    <3>1. d \in known /\ d \in memory
      BY <1>2, <1>3, <1>9, <2>2
    <3>2. CASE SameAction(d, denm) /\ fresh
      <4>1. d \in older
        BY <3>1, <3>2
      <4>2. unknown
        BY <1>2, <4>1 DEF SameAction
      <4> QED
        BY <1>3, <2>2, <4>1, <4>2
    <3>3. CASE ~(SameAction(d, denm) /\ fresh)
      BY <1>3, <3>1, <3>3
    <3> QED
      BY <3>2, <3>3
  <2> QED
    BY <2>1, <2>2
<1>10. HistoryInv'
  <2> HIDE DEF memory, known, fresh, unknown, found, older
  <2> SUFFICES ASSUME NEW t \in Stations
               PROVE  /\ \A d, e \in newest'[t] : SameAction(d, e) => d = e
                      /\ \A m \in mMemory'[t] :
                           /\ m.station # t
                           /\ \E d \in newest'[t] : SameAction(d, m)
                                                    /\ m.referenceTime <= d.referenceTime
    BY DEF HistoryInv
  <2>1. CASE t = s
    BY <1>7, <1>8, <2>1
  <2>2. CASE t # s
    BY <1>3, <2>2 DEF IInv, HistoryInv
  <2> QED
    BY <2>1, <2>2
<1>11. NewestWarningKept'
  <2> HIDE DEF memory, known, fresh, unknown, found, older
  <2> QED
    BY <1>1, <1>3, <1>9 DEF IInv, NewestWarningKept
<1>12. air' \subseteq Denms /\ mSequenceNumber' \in [Stations -> 0..(SequenceModulus - 1)]
  <2>1. CASE UNCHANGED <<mSequenceNumber, air>>
    BY <2>1 DEF IInv, TypeOK
  <2>2. CASE /\ mSequenceNumber' = [mSequenceNumber EXCEPT ![s] = ActionSequence(s, 1)]
             /\ air' = Aired({ImpactMessage(s, 1, "response")})
    <3>1. ImpactMessage(s, 1, "response") \in Denms
      BY MessageMade DEF IInv
    <3>2. ActionSequence(s, 1) \in 0..(SequenceModulus - 1)
      <4>1. mSequenceNumber[s] + 1 \in Nat
        BY DEF IInv, TypeOK
      <4> QED
        BY <4>1, SequenceRange DEF ActionSequence
    <3> QED
      BY <1>2, <2>2, <3>1, <3>2, AiredWithin DEF IInv, TypeOK
  <2> QED
    BY <2>1, <2>2 DEF indicate
<1>13. TypeOK'
  <2>1. /\ mMemory' \in [Stations -> SUBSET Denms]
        /\ newest' \in [Stations -> SUBSET Denms]
    <3> HIDE DEF memory, known, fresh, unknown, found, older
    <3>1. /\ DOMAIN mMemory' = Stations /\ DOMAIN newest' = Stations
          /\ mMemory' = [t \in Stations |-> mMemory'[t]]
          /\ newest' = [t \in Stations |-> newest'[t]]
      BY <1>1, <1>2
    <3>2. \A t \in Stations : mMemory'[t] \in SUBSET Denms /\ newest'[t] \in SUBSET Denms
      BY <1>2, <1>3, <1>5
    <3> QED
      BY <3>1, <3>2
  <2>2. \A t \in Stations : \A d, e \in mMemory'[t] : SameAction(d, e) => d = e
    <3> HIDE DEF memory, known, fresh, unknown, found, older
    <3> QED
      BY <1>3, <1>7 DEF IInv, TypeOK
  <2> HIDE DEF memory, known, fresh, unknown, found, older
  <2> QED
    BY <1>1, <1>12, <2>1, <2>2 DEF IInv, TypeOK
<1> QED
  BY <1>10, <1>11, <1>13 DEF IInv

(* Use cases that send, and how many of them come first.                   *)
Sending(s) == {j \in 1..Len(mUseCases(s)) : Sends(s, mUseCases(s)[j], MemoryChecked(s))}
Messages(s) ==
    {Message(s, Cardinality({k \in Sending(s) : k <= j}), mUseCases(s)[j]) : j \in Sending(s)}

(* A use case that sends is one the station runs.                          *)
LEMMA SenderRuns ==
    ASSUME NEW s \in Stations, NEW j \in Sending(s)
    PROVE  Runs(s, mUseCases(s)[j])
<1>1. UseCaseConfig[s] \in Seq(UseCases)
  BY DenServiceAssumption
<1>2. j \in 1..Len(mUseCases(s))
  BY DEF Sending
<1>3. mUseCases(s) = [i \in 1..Len(UseCaseConfig[s]) |->
                        UseCaseConfig[s][(Len(UseCaseConfig[s]) - i) + 1]]
  BY DEF mUseCases, Reverse
<1>4. Len(mUseCases(s)) = Len(UseCaseConfig[s]) /\ Len(UseCaseConfig[s]) \in Nat
  BY <1>1, <1>3
<1>5. (Len(UseCaseConfig[s]) - j) + 1 \in 1..Len(UseCaseConfig[s])
  BY <1>2, <1>4
<1>6. mUseCases(s)[j] = UseCaseConfig[s][(Len(UseCaseConfig[s]) - j) + 1]
  BY <1>2, <1>3, <1>4
<1> QED
  BY <1>1, <1>5, <1>6 DEF Runs, Range

(* What the use cases send when they are checked.                          *)
LEMMA TriggerSends ==
    ASSUME TypeOK, NEW s \in Stations
    PROVE  /\ Messages(s) \subseteq Denms /\ Cardinality(Sending(s)) \in Nat
           /\ \A d \in Messages(s) :
                /\ d.station = s
                /\ d.cause = "DangerousEndOfQueue" => Sends(s, EndOfQueue, MemoryChecked(s))
                /\ d.cause = "TrafficCondition" =>
                     Runs(s, Ahead) /\ Sends(s, Ahead, MemoryChecked(s))
<1> DEFINE list == mUseCases(s)
<1>1. /\ UseCaseConfig[s] \in Seq(UseCases) /\ Len(UseCaseConfig[s]) \in Nat
  BY DenServiceAssumption
<1>2. list \in Seq(UseCases) /\ Len(list) = Len(UseCaseConfig[s])
  BY <1>1 DEF mUseCases, Reverse
<1>3. IsFiniteSet(1..Len(list))
  BY <1>1, <1>2, FS_Interval
<1>4. \A T \in SUBSET Sending(s) : Cardinality(T) \in Nat
  <2> SUFFICES ASSUME NEW T \in SUBSET Sending(s)
               PROVE  Cardinality(T) \in Nat
    OBVIOUS
  <2>1. T \subseteq 1..Len(list)
    BY DEF Sending
  <2>2. IsFiniteSet(T)
    BY <1>3, <2>1, FS_Subset
  <2> QED
    BY <2>2, FS_CardinalityType
<1>5. ASSUME NEW j \in Sending(s)
      PROVE  /\ list[j] \in UseCases /\ Sends(s, list[j], MemoryChecked(s))
             /\ Cardinality({k \in Sending(s) : k <= j}) \in Nat
  <2>1. j \in 1..Len(list) /\ Sends(s, list[j], MemoryChecked(s))
    BY DEF Sending
  <2>2. {k \in Sending(s) : k <= j} \in SUBSET Sending(s)
    OBVIOUS
  <2> QED
    BY <1>2, <1>4, <2>1, <2>2
<1>6. ASSUME NEW d \in Messages(s)
      PROVE  /\ d \in Denms /\ d.station = s
             /\ d.cause = "DangerousEndOfQueue" => Sends(s, EndOfQueue, MemoryChecked(s))
             /\ d.cause = "TrafficCondition" =>
                  Runs(s, Ahead) /\ Sends(s, Ahead, MemoryChecked(s))
  <2>1. PICK j \in Sending(s) : d = Message(s, Cardinality({k \in Sending(s) : k <= j}), list[j])
    BY DEF Messages
  <2> DEFINE n == Cardinality({k \in Sending(s) : k <= j})
             u == list[j]
  <2>2. /\ u \in UseCases /\ Sends(s, u, MemoryChecked(s)) /\ Runs(s, u)
        /\ n \in Nat /\ d = Message(s, n, u)
    BY <1>5, <2>1, SenderRuns
  <2> HIDE DEF n, u
  <2> QED
    BY <2>2, MessageMade
<1> QED
  BY <1>4, <1>6

(* The service's period: expired messages go, and use cases are checked.   *)
LEMMA TriggerInv ==
    ASSUME IInv, NEW s \in Stations, trigger(s)
    PROVE  IInv'
<1>1. /\ nextUpdate[s] = now
      /\ nextUpdate' = [nextUpdate EXCEPT ![s] = now + UpdateInterval]
      /\ mMemory' = [mMemory EXCEPT ![s] = dropDenms(mMemory[s], TaiFor(now))]
      /\ mVelocitySampler' = [mVelocitySampler EXCEPT ![s] =
           [u \in TrafficJam |-> IF Runs(s, u) THEN Fed(s, u) ELSE mVelocitySampler[s][u]]]
      /\ mSequenceNumber' = [mSequenceNumber EXCEPT ![s] =
           ActionSequence(s, Cardinality(Sending(s)))]
      /\ air' = Aired(Messages(s))
      /\ UNCHANGED <<now, speed, updated, cams, newest>>
  BY DEF trigger, Sending, Messages
<1>2. /\ mDetectionBlockingSince' \in [Stations -> [TrafficJam -> 0..MaxTime \cup {Unset}]]
      /\ mPendingRequest' \in [Stations -> BOOLEAN]
  <2>1. mPendingRequest' \in [Stations -> BOOLEAN]
    BY DEF trigger, IInv, TypeOK
  <2>2. \E S : mDetectionBlockingSince' = [mDetectionBlockingSince EXCEPT ![s] =
          [u \in TrafficJam |-> IF u \in S THEN now
              ELSE IF isDetectionBlocked(s, u) THEN mDetectionBlockingSince[s][u] ELSE Unset]]
    BY DEF trigger
  <2>3. now \in 0..MaxTime
    BY DEF IInv, TypeOK
  <2> QED
    BY <2>1, <2>2, <2>3 DEF IInv, TypeOK
<1>3. dropDenms(mMemory[s], TaiFor(now)) = {d \in mMemory[s] : DenmExpiry(d) >= TaiFor(now)}
  BY DEF dropDenms
<1>4. /\ mMemory' \in [Stations -> SUBSET Denms]
      /\ mMemory'[s] = {d \in mMemory[s] : DenmExpiry(d) >= TaiFor(now)}
      /\ \A t \in Stations : mMemory'[t] \subseteq mMemory[t] /\ (t # s => mMemory'[t] = mMemory[t])
  BY <1>1, <1>3 DEF IInv, TypeOK
<1>5. HistoryInv'
  BY <1>1, <1>4 DEF IInv, HistoryInv
<1>6. NewestWarningKept'
  BY <1>1, <1>4 DEF IInv, NewestWarningKept
<1>7. air' \subseteq Denms
  BY <1>1, TriggerSends, AiredWithin DEF IInv, TypeOK
<1>8. mSequenceNumber' \in [Stations -> 0..(SequenceModulus - 1)]
  <2>1. mSequenceNumber[s] \in Nat /\ Cardinality(Sending(s)) \in Nat
    BY TriggerSends DEF IInv, TypeOK
  <2>2. ActionSequence(s, Cardinality(Sending(s))) \in 0..(SequenceModulus - 1)
    <3>1. mSequenceNumber[s] + Cardinality(Sending(s)) \in Nat
      BY <2>1
    <3> QED
      BY <3>1, SequenceRange DEF ActionSequence
  <2> QED
    BY <1>1, <2>2 DEF IInv, TypeOK
<1>9. nextUpdate' \in [Stations -> now'..(MaxTime + 2 * UpdateInterval)]
  <2>1. now + UpdateInterval \in now..(MaxTime + 2 * UpdateInterval)
    BY DenServiceAssumption DEF IInv, TypeOK
  <2> QED
    BY <1>1, <2>1 DEF IInv, TypeOK
<1>10. /\ mVelocitySampler' \in [Stations -> [TrafficJam -> Seq(Samples)]]
       /\ \A t \in Stations, u \in TrafficJam :
            Len(mVelocitySampler'[t][u]) <= SampleCapacity(sampleDuration[u], sampleInterval[u])
  <2> DEFINE new == [u \in TrafficJam |-> IF Runs(s, u) THEN Fed(s, u) ELSE mVelocitySampler[s][u]]
  <2>1. \A u \in TrafficJam :
          /\ new[u] \in Seq(Samples)
          /\ Len(new[u]) <= SampleCapacity(sampleDuration[u], sampleInterval[u])
    BY FedWithin DEF IInv, TypeOK
  <2>2. new \in [TrafficJam -> Seq(Samples)]
    BY <2>1
  <2> HIDE DEF new
  <2>3. mVelocitySampler' = [mVelocitySampler EXCEPT ![s] = new]
    BY <1>1 DEF new
  <2> QED
    BY <2>1, <2>2, <2>3 DEF IInv, TypeOK
<1>11. TypeOK'
  BY <1>1, <1>2, <1>4, <1>7, <1>8, <1>9, <1>10 DEF IInv, TypeOK
<1> QED
  BY <1>5, <1>6, <1>11 DEF IInv

(* Every step keeps the invariant.                                         *)
LEMMA StepInv == IInv /\ [Next]_vars => IInv'
<1> SUFFICES ASSUME IInv, [Next]_vars
             PROVE  IInv'
  OBVIOUS
<1> USE DEF denVars
<1>0. now \in Nat /\ MaxTime \in Nat /\ UpdateInterval \in Nat
  BY DenServiceAssumption DEF IInv, TypeOK
<1>1. CASE Tick
  <2>1. /\ now' = now + 1 /\ now < MaxTime /\ \A s \in Stations : nextUpdate[s] > now
        /\ UNCHANGED <<speed, updated, cams, nextUpdate, denVars, air>>
    BY <1>1 DEF Tick
  <2>2. nextUpdate' \in [Stations -> now'..(MaxTime + 2 * UpdateInterval)]
    <3>1. \A s \in Stations : nextUpdate[s] \in now'..(MaxTime + 2 * UpdateInterval)
      BY <1>0, <2>1 DEF IInv, TypeOK
    <3> QED
      BY <2>1, <3>1 DEF IInv, TypeOK
  <2>3. now' \in 0..MaxTime /\ updated' \in 0..now'
    BY <1>0, <2>1 DEF IInv, TypeOK
  <2>4. TypeOK'
    BY <2>1, <2>2, <2>3 DEF IInv, TypeOK
  <2> QED
    BY <1>0, <2>1, <2>4, MemoryStays
<1>2. CASE Move
  <2>1. TypeOK'
    BY <1>0, <1>2 DEF Move, IInv, TypeOK
  <2> QED
    BY <1>0, <1>2, <2>1, MemoryStays DEF Move
<1>3. ASSUME NEW d \in air, Vanish(d)
      PROVE  IInv'
  <2>1. TypeOK'
    BY <1>3 DEF Vanish, IInv, TypeOK
  <2> QED
    BY <1>0, <1>3, <2>1, MemoryStays DEF Vanish
<1>4. ASSUME NEW d \in air, NEW s \in Stations, indicate(s, d)
      PROVE  IInv'
  BY <1>4, IndicateInv
<1>5. ASSUME NEW f \in Foreign, NEW a \in ForeignActions, ForeignSend(f, a)
      PROVE  IInv'
  <2>1. PICK v \in ForeignValidities \cup {Unset}, c \in ForeignCauses :
          /\ air' = Aired({[station |-> f, sequence |-> a,
                            detectionTime |-> TaiFor(now), referenceTime |-> TaiFor(now),
                            validity |-> v, cause |-> c, indication |-> Unset]})
          /\ UNCHANGED <<now, speed, updated, cams, nextUpdate, denVars>>
    BY <1>5 DEF ForeignSend
  <2>2. [station |-> f, sequence |-> a,
         detectionTime |-> TaiFor(now), referenceTime |-> TaiFor(now),
         validity |-> v, cause |-> c, indication |-> Unset] \in Denms
    <3>1. TaiFor(now) \in Nat
      BY <1>0, TimerAssumption DEF TaiFor
    <3> QED
      BY <3>1, DenServiceAssumption DEF Denms, Indications
  <2>3. air' \subseteq Denms
    BY <2>1, <2>2, AiredWithin DEF IInv, TypeOK
  <2>4. TypeOK'
    BY <2>1, <2>3 DEF IInv, TypeOK
  <2> QED
    BY <1>0, <2>1, <2>4, MemoryStays
<1>6. ASSUME NEW s \in Stations, trigger(s)
      PROVE  IInv'
  BY <1>6, TriggerInv
<1>7. ASSUME NEW s \in Stations, receiveSignal(s)
      PROVE  IInv'
  <2>1. TypeOK'
    BY <1>7 DEF receiveSignal, IInv, TypeOK
  <2> QED
    BY <1>0, <1>7, <2>1, MemoryStays DEF receiveSignal
<1>8. CASE UNCHANGED vars
  <2>1. TypeOK'
    BY <1>8 DEF vars, IInv, TypeOK
  <2> QED
    BY <1>0, <1>8, <2>1, MemoryStays DEF vars
<1> QED
  BY <1>1, <1>2, <1>3, <1>4, <1>5, <1>6, <1>7, <1>8 DEF Next

(* The invariant holds in every state.                                     *)
THEOREM Invariance == Spec => []IInv
BY InitInv, StepInv, PTL DEF Spec

(* Variables keep their types: sequence numbers stay within their range,   *)
(* at most one message per action is stored (Memory::received), and no     *)
(* buffer of speed samples outgrows its capacity (IntervalSampler).        *)
THEOREM TypeCorrect == Spec => []TypeOK
<1>1. IInv => TypeOK
  BY DEF IInv
<1> QED
  BY <1>1, Invariance, PTL

(* Whatever copies of whatever messages arrive in whatever order, before   *)
(* or after others expired: while the newest message ever received about   *)
(* an action is valid, the memory holds it.                                *)
THEOREM NewestIsKept == Spec => []NewestWarningKept
<1>1. IInv => NewestWarningKept
  BY DEF IInv
<1> QED
  BY <1>1, Invariance, PTL

-----------------------------------------------------------------------------

(* What the memory counts when it is checked is what the grounds are.      *)
LEMMA CountedGrounds ==
    ASSUME IInv, NEW s \in Stations, NEW cause
    PROVE  countDenms(MemoryChecked(s), cause) = Cardinality(Grounds(s, cause))
<1>1. {d \in MemoryChecked(s) : d.cause = cause} = Grounds(s, cause)
  BY DEF IInv, HistoryInv, MemoryChecked, dropDenms, Grounds
<1> QED
  BY <1>1 DEF countDenms

(* A set of natural numbers has a least element: induction over positions. *)
LEMMA LeastNumber ==
    ASSUME NEW T \in SUBSET Nat, T # {}
    PROVE  \E m \in T : \A k \in T : m <= k
<1> DEFINE R == OpToRel(<, Nat)
<1>1. IsWellFoundedOn(R, Nat)
  BY NatLessThanWellFounded
<1> HIDE DEF R
<1>2. PICK m \in T : \A k \in T : ~ (<<k, m>> \in R)
  BY <1>1, WFMin
<1>3. \A k \in T : ~ (k < m)
  BY <1>2 DEF R, OpToRel
<1> QED
  BY <1>3

(* Samples that are all zero add up to zero: by the least position at which*)
(* the sum would be another.                                               *)
LEMMA ZeroSum ==
    ASSUME NEW q, Len(q) \in Nat, \A k \in 1..Len(q) : q[k].value = 0
    PROVE  SampleSum(q) = 0
<1> DEFINE n == Len(q)
           F(f) == [k \in 0..n |-> IF k = 0 THEN 0 ELSE f[k - 1] + q[k].value]
           sum == CHOOSE f : f = F(f)
           zero == [k \in 0..n |-> 0]
<1>1. zero = F(zero)
  OBVIOUS
<1>2. sum = F(sum)
  <2> HIDE DEF F, zero
  <2> QED
    BY <1>1
<1>3. SampleSum(q) = sum[n]
  BY DEF SampleSum
<1> HIDE DEF sum
<1> DEFINE T == {k \in 0..n : sum[k] # 0}
<1>4. T = {}
  <2> SUFFICES ASSUME T # {}
               PROVE  FALSE
    OBVIOUS
  <2>1. T \in SUBSET Nat
    OBVIOUS
  <2> HIDE DEF T
  <2>2. PICK m \in T : \A k \in T : m <= k
    BY <2>1, LeastNumber
  <2>3. m \in 0..n /\ sum[m] # 0 /\ \A k \in 0..n : k < m => sum[k] = 0
    BY <2>2 DEF T
  <2>4. m # 0
    BY <1>2, <2>3
  <2> QED
    BY <1>2, <2>3, <2>4
<1> QED
  BY <1>3, <1>4

(* Whoever has been standing has a low average speed of zero in any window:*)
(* the average is no reason to warn.                                       *)
LEMMA StandingSum ==
    ASSUME NEW buffer \in Seq(Samples), \A k \in 1..Len(buffer) : buffer[k].value = 0, NEW limit
    PROVE  SampleSum(SamplesAfter(buffer, limit)) = 0
<1> DEFINE P == {k \in 1..Len(buffer) : buffer[k].timestamp > limit}
           m == Cardinality(P)
           range == SubSeq(buffer, 1, m)
<1>0. Len(buffer) \in Nat
  OBVIOUS
<1>1. IsFiniteSet(1..Len(buffer)) /\ Cardinality(1..Len(buffer)) = Len(buffer)
  <2>1. 1 \in Int /\ Len(buffer) \in Int
    BY <1>0
  <2>2. /\ IsFiniteSet(1..Len(buffer))
        /\ Cardinality(1..Len(buffer)) = IF 1 > Len(buffer) THEN 0 ELSE Len(buffer) - 1 + 1
    BY <2>1, FS_Interval
  <2> QED
    BY <1>0, <2>2
<1>2. m \in Nat /\ m <= Len(buffer)
  <2>1. P \in SUBSET (1..Len(buffer))
    OBVIOUS
  <2> HIDE DEF P
  <2> QED
    BY <1>0, <1>1, <2>1, FS_Subset, FS_CardinalityType
<1>3. SamplesAfter(buffer, limit) = range
  BY DEF SamplesAfter
<1> HIDE DEF m
<1>4. Len(range) = m /\ \A k \in 1..m : range[k] = buffer[k]
  BY <1>0, <1>2
<1> HIDE DEF range
<1> QED
  BY <1>0, <1>2, <1>3, <1>4, ZeroSum

(* Only the service itself puts a warning of its station on the air, when  *)
(* its use cases are checked.                                              *)
LEMMA WarningsTriggered ==
    ASSUME IInv, Next, NEW d \in air', d \notin air, d.station \in Stations,
           d.cause \in {"DangerousEndOfQueue", "TrafficCondition"}
    PROVE  trigger(d.station) /\ d \in Messages(d.station)
<1>1. ASSUME NEW s \in Stations, trigger(s)
      PROVE  trigger(d.station) /\ d \in Messages(d.station)
  <2>1. air' = Aired(Messages(s))
    BY <1>1 DEF trigger, Sending, Messages
  <2>2. d \in Messages(s)
    BY <2>1, AiredWithin
  <2>3. d.station = s
    BY <2>2, TriggerSends DEF IInv
  <2> QED
    BY <1>1, <2>2, <2>3
<1>2. ASSUME NEW s \in Stations, NEW e \in air, indicate(s, e)
      PROVE  FALSE
  <2>1. d \in air \cup {ImpactMessage(s, 1, "response")}
    BY <1>2, AiredWithin DEF indicate
  <2>2. ImpactMessage(s, 1, "response").cause = "CollisionRisk"
    BY MessageMade DEF IInv
  <2> QED
    BY <2>1, <2>2
<1>3. ASSUME NEW f \in Foreign, NEW a \in ForeignActions, ForeignSend(f, a)
      PROVE  FALSE
  <2>1. PICK v, c :
          air' = Aired({[station |-> f, sequence |-> a,
                         detectionTime |-> TaiFor(now), referenceTime |-> TaiFor(now),
                         validity |-> v, cause |-> c, indication |-> Unset]})
    BY <1>3 DEF ForeignSend
  <2>2. d.station = f
    BY <2>1, AiredWithin
  <2> QED
    BY <2>2, DenServiceAssumption
<1>4. CASE \/ Tick \/ Move
           \/ \E e \in air : Vanish(e)
           \/ \E s \in Stations : receiveSignal(s)
  BY <1>4 DEF Tick, Move, Vanish, receiveSignal
<1> QED
  BY <1>1, <1>2, <1>3, <1>4 DEF Next

(* A warning of the end of a queue rests on warnings of others.            *)
LEMMA QueueGrounds ==
    ASSUME IInv, NEW s \in Stations, NEW d \in Messages(s), d.cause = "DangerousEndOfQueue"
    PROVE  QueueGrounded(s)
<1>1. Sends(s, EndOfQueue, MemoryChecked(s))
  BY TriggerSends DEF IInv
<1>2. \/ countDenms(MemoryChecked(s), "DangerousEndOfQueue") >= 1
      \/ countDenms(MemoryChecked(s), "TrafficCondition") >= JamQuorum
  BY <1>1 DEF Sends, checkEndOfQueue, EndOfQueue, Ahead, Impact
<1>3. Cardinality(Grounds(s, "DangerousEndOfQueue")) >= 1
        => Grounds(s, "DangerousEndOfQueue") # {}
  BY FS_EmptySet
<1> QED
  BY <1>2, <1>3, CountedGrounds DEF QueueGrounded

(* A warning of a jam ahead rests on the own low speed, or, of a station   *)
(* that has been standing, on warnings or messages of others.              *)
LEMMA JamGrounds ==
    ASSUME IInv, NEW s \in Stations, trigger(s),
           NEW d \in Messages(s), d.cause = "TrafficCondition"
    PROVE  JamGrounded(s)
<1> DEFINE buffer == Fed(s, Ahead)
<1>1. Runs(s, Ahead) /\ Sends(s, Ahead, MemoryChecked(s))
  BY TriggerSends DEF IInv
<1>2. mVelocitySampler'[s][Ahead] = buffer
  <2>1. mVelocitySampler' = [mVelocitySampler EXCEPT ![s] =
          [u \in TrafficJam |-> IF Runs(s, u) THEN Fed(s, u) ELSE mVelocitySampler[s][u]]]
    BY DEF trigger
  <2>2. Ahead \in TrafficJam
    BY DEF TrafficJam
  <2> QED
    BY <1>1, <2>1, <2>2 DEF IInv, TypeOK
<1>3. buffer \in Seq(Samples)
  BY FedWithin DEF IInv, TrafficJam
<1> HIDE DEF buffer
<1>4. checkAhead(buffer, MemoryChecked(s))
  BY <1>1 DEF Sends, EndOfQueue, Ahead, Impact, buffer
<1>5. CASE checkLowAverageEgoVelocity(buffer)
  <2>1. SampleSum(SamplesAfter(buffer, now - averageWindow)) > 0
    BY <1>5 DEF checkLowAverageEgoVelocity
  <2>2. ~ \A k \in 1..Len(buffer) : buffer[k].value = 0
    BY <1>3, <2>1, StandingSum
  <2>3. DOMAIN buffer = 1..Len(buffer)
    BY <1>3
  <2> QED
    BY <1>2, <2>2, <2>3 DEF JamGrounded
<1>6. CASE countDenms(MemoryChecked(s), "TrafficCondition") >= 1
  <2>1. Cardinality(Grounds(s, "TrafficCondition")) >= 1
    BY <1>6, CountedGrounds
  <2>2. Grounds(s, "TrafficCondition") # {}
    BY <2>1, FS_EmptySet
  <2> QED
    BY <2>2 DEF JamGrounded
<1>7. CASE checkSlowVehiclesAheadByV2X
  BY <1>7 DEF checkSlowVehiclesAheadByV2X, JamGrounded
<1> QED
  BY <1>4, <1>5, <1>6, <1>7 DEF checkAhead

(* A station passes a warning on only on grounds that still hold and that  *)
(* come from others, for any number of stations, messages and samples: for *)
(* the end of a queue others have warned of it or of a jam, and a station  *)
(* that has been standing warns of a jam only if others tell of it         *)
(* (Memory::drop before check, checkConditions, station ID in indicate).   *)
THEOREM WarningsAreGrounded == Spec => WarningsGrounded
<1>1. IInv /\ [Next]_vars => [QueueWarnings /\ JamWarnings]_vars
  <2> SUFFICES ASSUME IInv, Next
               PROVE  QueueWarnings /\ JamWarnings
    OBVIOUS
  <2>1. QueueWarnings
    BY WarningsTriggered, QueueGrounds DEF QueueWarnings, NewWarnings
  <2>2. JamWarnings
    BY WarningsTriggered, JamGrounds DEF JamWarnings, NewWarnings
  <2> QED
    BY <2>1, <2>2
<1> QED
  BY <1>1, Invariance, PTL DEF Spec, WarningsGrounded

=============================================================================
