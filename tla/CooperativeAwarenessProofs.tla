--------------------- MODULE CooperativeAwarenessProofs ---------------------
(***************************************************************************)
(* Proofs about CooperativeAwareness for any number of stations, any       *)
(* vehicle dynamics, delays, intervals and length of the run.              *)
(***************************************************************************)
EXTENDS CooperativeAwareness, TLAPS

(* A multiple of a natural number is zero, or at least as large.           *)
LEMMA Multiple ==
    ASSUME NEW m \in Nat, NEW k \in Int
    PROVE  /\ k = 0 => m * k = 0
           /\ k = 1 => m * k = m
           /\ k >= 2 => m * k >= 2 * m
           /\ k <= -1 => m * k <= -m
OBVIOUS

(* Division with remainder.                                                *)
LEMMA Remainder ==
    ASSUME NEW t \in Nat
    PROVE  /\ t % Modulus \in 0..(Modulus - 1)
           /\ t \div Modulus \in Int
           /\ t = Modulus * (t \div Modulus) + (t % Modulus)
BY TimerAssumption

(* HalfRange is the largest distance that is less than half the range.     *)
LEMMA Half == HalfRange \in Nat /\ Modulus = 2 * (HalfRange + 1)
BY TimerAssumption DEF HalfRange

(* Upper bits of two times less than one range apart differ by at most one *)
(* carry.                                                                  *)
LEMMA OneCarry ==
    ASSUME NEW a \in Nat, NEW b \in Nat, a <= b, b - a < Modulus
    PROVE  (b - (b % Modulus)) - (a - (a % Modulus)) \in {0, Modulus}
<1> DEFINE k == (b \div Modulus) - (a \div Modulus)
<1>1. Modulus \in Nat
  BY TimerAssumption
<1>2. /\ a % Modulus \in 0..(Modulus - 1) /\ b % Modulus \in 0..(Modulus - 1)
      /\ a \div Modulus \in Int /\ b \div Modulus \in Int /\ k \in Int
      /\ a = Modulus * (a \div Modulus) + (a % Modulus)
      /\ b = Modulus * (b \div Modulus) + (b % Modulus)
  BY Remainder
<1>3. Modulus * k = Modulus * (b \div Modulus) - Modulus * (a \div Modulus)
  BY <1>1, <1>2
<1>4. /\ Modulus * k \in Int
      /\ (b - (b % Modulus)) - (a - (a % Modulus)) = Modulus * k
  BY <1>1, <1>2, <1>3
<1>5. Modulus * k < 2 * Modulus /\ Modulus * k > -Modulus
  BY <1>1, <1>2, <1>4
<1> HIDE DEF k
<1>6. k = 0 \/ k = 1
  BY <1>1, <1>2, <1>5, Multiple
<1> QED
  BY <1>1, <1>2, <1>4, <1>6, Multiple

(* Timer::reconstructMilliseconds of a time stamp less than one range old  *)
(* gives the true time, or one range more; it gives the true time if the   *)
(* time stamp is not older than HalfRange.                                 *)
LEMMA Reconstructed ==
    ASSUME NEW time \in Nat, NEW generated \in Nat,
           generated <= time, time - generated < Modulus
    PROVE  LET tai == reconstructMilliseconds(time, GenerationDeltaTime(generated))
           IN  \/ tai = TaiFor(generated)
               \/ tai = TaiFor(generated) + Modulus /\ time - generated > HalfRange
<1> DEFINE a == TaiFor(generated)
           b == TaiFor(time)
           rec == WithMsbOf(b, a % Modulus)
<1>1. a \in Nat /\ b \in Nat /\ a <= b /\ b - a = time - generated /\ b - a < Modulus
  BY TimerAssumption DEF TaiFor
<1>2. Modulus \in Nat /\ HalfRange \in Nat /\ Modulus = 2 * (HalfRange + 1)
  BY TimerAssumption, Half
<1>3. a % Modulus \in Nat /\ b % Modulus \in Nat
  BY <1>1, Remainder, TimerAssumption
<1> HIDE DEF a, b
<1>4. rec = a \/ rec = a + Modulus
  <2>1. (b - (b % Modulus)) - (a - (a % Modulus)) \in {0, Modulus}
    BY <1>1, OneCarry
  <2> QED
    BY <1>1, <1>2, <1>3, <2>1 DEF WithMsbOf
<1> HIDE DEF rec
<1>5. reconstructMilliseconds(time, GenerationDeltaTime(generated)) =
        IF b > rec + HalfRange THEN rec + Modulus
        ELSE IF b + HalfRange < rec THEN rec - Modulus
        ELSE rec
  BY DEF reconstructMilliseconds, GenerationDeltaTime, a, b, rec
<1>6. \/ reconstructMilliseconds(time, GenerationDeltaTime(generated)) = a
      \/ /\ reconstructMilliseconds(time, GenerationDeltaTime(generated)) = a + Modulus
         /\ b - a > HalfRange
  BY <1>1, <1>2, <1>4, <1>5
<1> QED
  BY <1>1, <1>6 DEF a

-----------------------------------------------------------------------------

(* A CAM on the air carries the time stamp of its generation, which is not *)
(* later than the data its sender has now.                                 *)
Genuine(cam) ==
    /\ cam.generated <= updated[cam.station]
    /\ cam.generationDeltaTime = GenerationDeltaTime(cam.generated)

AirInv ==
    \A c \in Channels, r \in Receivers :
        \A i \in 1..Len(inFlight[c][r]) : Genuine(inFlight[c][r][i])

(* A station's first update comes after time zero, and so does its first   *)
(* CAM, which has the low frequency container.  Later CAMs have it when    *)
(* LowFrequencyInterval is over.                                           *)
StartInv ==
    /\ \A x \in Stations : nextUpdate[x] >= UpdateInterval
    /\ \A s \in Senders :
         \/ /\ mLastCamTimestamp[s] = 0 /\ lastContainer[s] = 0
            /\ mLastLowCamTimestamp[s] = -LowFrequencyInterval
         \/ /\ mLastLowCamTimestamp[s] > 0 /\ lastContainer[s] = mLastLowCamTimestamp[s]
            /\ mLastCamTimestamp[s] - mLastLowCamTimestamp[s] < LowFrequencyInterval

IInv == TypeOK /\ AirInv /\ StartInv /\ MapTruthful

(* The next trigger comes before a station has been silent for too long.   *)
PaceInv ==
    \A s \in Senders :
        /\ mGenCam[s] <= MaxInterval
        /\ nextUpdate[s] - mLastCamTimestamp[s] <= MaxInterval + UpdateInterval

(* CAMs of one station are on the air in the order of their generation,    *)
(* and none is older than the newest one received.                         *)
InOrder(queue, known) ==
    \A i \in 1..Len(queue) :
        /\ known[queue[i].station] # NoEntry => known[queue[i].station] <= queue[i].generated
        /\ \A j \in i..Len(queue) :
             queue[j].station = queue[i].station => queue[i].generated <= queue[j].generated

OrderInv ==
    /\ \A r \in Receivers, s \in Senders :
         newest[r][s] # NoEntry => newest[r][s] <= updated[s]
    /\ \A c \in Channels, r \in Receivers : InOrder(inFlight[c][r], newest[r])

-----------------------------------------------------------------------------

(* The expiry updateAwareness computes for a CAM: if it is plausible it is *)
(* the true one, and as long as the true one is not over it is plausible.  *)
LEMMA ExpiryTrue ==
    ASSUME now \in Nat, NEW cam, cam.generated \in Nat, cam.generated <= now,
           now - cam.generated <= MaxAge,
           cam.generationDeltaTime = GenerationDeltaTime(cam.generated)
    PROVE  /\ Expiry(cam) \in Nat
           /\ InBounds(Expiry(cam)) => Expiry(cam) = cam.generated + Lifetime
           /\ cam.generated + Lifetime >= now =>
                InBounds(Expiry(cam)) /\ Expiry(cam) = cam.generated + Lifetime
<1> DEFINE g == cam.generated
           tai == reconstructMilliseconds(now, GenerationDeltaTime(g))
<1>1. /\ Timebase \in Nat /\ Modulus \in Nat /\ Lifetime \in Nat /\ MaxAge \in Nat
      /\ HalfRange \in Nat /\ Modulus = 2 * (HalfRange + 1)
      /\ Lifetime <= HalfRange /\ MaxAge + Lifetime < Modulus
  BY TimerAssumption, AwarenessAssumption, AgeAssumption, Half
<1>2. now - g < Modulus
  BY <1>1
<1>3. \/ tai = TaiFor(g)
      \/ tai = TaiFor(g) + Modulus /\ now - g > HalfRange
  BY <1>2, Reconstructed
<1>4. Expiry(cam) = SimTimeFor(tai) + Lifetime
  BY DEF Expiry
<1> HIDE DEF tai
<1>5. \/ Expiry(cam) = g + Lifetime
      \/ Expiry(cam) = g + Modulus + Lifetime /\ now - g > HalfRange
  BY <1>1, <1>3, <1>4 DEF TaiFor, SimTimeFor
<1> QED
  BY <1>1, <1>5 DEF InBounds

(* Time stamps fit.                                                        *)
LEMMA Stamped ==
    ASSUME NEW time \in Nat
    PROVE  GenerationDeltaTime(time) \in Timestamps
BY Remainder, TimerAssumption DEF GenerationDeltaTime, TaiFor, Timestamps

(* Nothing is on the air and nothing known at the start.                   *)
LEMMA InitInv ==
    ASSUME Init
    PROVE  IInv
<1> USE DEF Init, CaInit
<1>1. TypeOK
  <2>1. now \in 0..MaxTime /\ 0 \in 0..now
    BY AwarenessAssumption
  <2>2. CaTypeOK
    <3>1. mLastLowCamTimestamp \in [Senders -> -LowFrequencyInterval..now]
      BY <2>1, CaServiceAssumption DEF LowCamAtStart
    <3> QED
      BY <2>1, <3>1, CaServiceAssumption DEF CaTypeOK
  <2>3. nextUpdate \in [Stations -> now..(MaxTime + 2 * UpdateInterval)]
    BY AwarenessAssumption
  <2>4. /\ inFlight \in [Channels -> [Receivers -> Seq(Cams)]]
        /\ mCaMessages \in [Receivers -> [Senders -> Entries \cup {NoEntry}]]
        /\ newest \in [Receivers -> [Senders -> 0..MaxTime \cup {NoEntry}]]
    OBVIOUS
  <2> QED
    BY <2>1, <2>2, <2>3, <2>4 DEF TypeOK
<1>2. AirInv /\ MapTruthful
  BY DEF AirInv, MapTruthful
<1>3. StartInv
  BY AwarenessAssumption, CaServiceAssumption DEF StartInv, LowCamAtStart
<1> QED
  BY <1>1, <1>2, <1>3 DEF IInv

(* Time passes, vehicles move, throttles change, or nothing happens.       *)
LEMMA SurroundingsInv ==
    ASSUME IInv,
           \/ Tick \/ UNCHANGED vars
           \/ \E s \in Senders : Move(s)
           \/ \E c \in Channels \cup {CCH} : Throttle(c)
    PROVE  IInv'
<1> USE DEF IInv
<1>1. UNCHANGED <<caVars, nextUpdate, inFlight, mCaMessages, newest>>
  BY DEF Tick, Move, Throttle, vars
<1>2. /\ now \in Nat /\ now' \in 0..MaxTime /\ now <= now'
      /\ \A x \in Stations : nextUpdate[x] >= now'
  <2>1. CASE Tick
    BY <2>1, AwarenessAssumption DEF Tick, TypeOK
  <2>2. CASE now' = now
    BY <2>2, AwarenessAssumption DEF TypeOK
  <2> QED
    BY <2>1, <2>2 DEF Move, Throttle, vars
<1>3. /\ updated' \in [Senders -> 0..now']
      /\ \A s \in Senders : updated[s] <= updated'[s]
      /\ dynamics' \in [Senders -> Dynamics]
      /\ trcDelay' \in [Channels \cup {CCH} -> DccDelays]
  <2>1. CASE Tick \/ UNCHANGED vars
    BY <1>2, <2>1 DEF Tick, vars, TypeOK, CaTypeOK
  <2>2. CASE \E s \in Senders : Move(s)
    BY <1>2, <2>2 DEF Move, TypeOK, CaTypeOK
  <2>3. CASE \E c \in Channels \cup {CCH} : Throttle(c)
    BY <1>2, <2>3 DEF Throttle, TypeOK, CaTypeOK
  <2> QED
    BY <2>1, <2>2, <2>3
<1>4. CaTypeOK'
  BY <1>1, <1>2, <1>3, CaServiceAssumption DEF CaTypeOK, TypeOK, caVars
<1>5. TypeOK'
  <2>1. nextUpdate' \in [Stations -> now'..(MaxTime + 2 * UpdateInterval)]
    BY <1>1, <1>2, AwarenessAssumption DEF TypeOK
  <2> QED
    BY <1>1, <1>2, <1>4, <2>1 DEF TypeOK
<1>6. AirInv'
  <2> SUFFICES ASSUME NEW c \in Channels, NEW r \in Receivers, NEW i \in 1..Len(inFlight[c][r])
               PROVE  Genuine(inFlight[c][r][i])'
    BY <1>1 DEF AirInv
  <2> DEFINE cam == inFlight[c][r][i]
  <2>1. cam \in Cams /\ Genuine(cam)
    BY DEF TypeOK, AirInv
  <2>2. cam.station \in Senders /\ cam.generated \in Nat
    BY <2>1 DEF Cams
  <2>3. cam.generated <= updated[cam.station] /\ updated \in [Senders -> 0..now]
    BY <2>1 DEF Genuine, TypeOK, CaTypeOK
  <2> HIDE DEF cam
  <2>4. cam.generated <= updated'[cam.station]
    BY <1>2, <1>3, <2>2, <2>3
  <2> QED
    BY <1>1, <2>1, <2>4 DEF Genuine, cam
<1>7. StartInv' /\ MapTruthful'
  BY <1>1 DEF StartInv, MapTruthful, caVars
<1> QED
  BY <1>5, <1>6, <1>7

(* A sender's update, with or without a CAM.                               *)
LEMMA TriggerInv ==
    ASSUME IInv, NEW s \in Senders, trigger(s)
    PROVE  IInv'
<1> USE DEF IInv
<1>1. /\ UNCHANGED <<now, dynamics, updated, trcDelay, mCaMessages, newest>>
      /\ nextUpdate[s] = now
      /\ nextUpdate' = [nextUpdate EXCEPT ![s] = now + UpdateInterval]
  BY DEF trigger, ScheduleUpdate
<1>2. /\ now \in Nat /\ now \in 0..MaxTime /\ now > 0 /\ s \in Stations
      /\ updated \in [Senders -> 0..now]
  BY <1>1, AwarenessAssumption DEF TypeOK, CaTypeOK, StartInv, Stations
<1>3. CASE ~CamDue(s)
  <2>1. UNCHANGED <<caVars, inFlight>>
    BY <1>3 DEF trigger
  <2>2. CaTypeOK'
    BY <1>1, <2>1 DEF TypeOK, CaTypeOK, caVars
  <2>3. TypeOK'
    BY <1>1, <1>2, <2>1, <2>2, AwarenessAssumption DEF TypeOK
  <2>4. AirInv' /\ MapTruthful'
    BY <1>1, <2>1 DEF AirInv, Genuine, MapTruthful
  <2>5. StartInv'
    BY <1>1, <1>2, <2>1, AwarenessAssumption DEF StartInv, TypeOK, caVars
  <2> QED
    BY <2>3, <2>4, <2>5
<1>4. CASE CamDue(s)
  <2>1. /\ GenerateCam(s) /\ requestTransmission(Cam(s))
    BY <1>4 DEF trigger
  <2>2. /\ mLastCamDynamics' = [mLastCamDynamics EXCEPT ![s] = dynamics[s]]
        /\ mLastCamTimestamp' = [mLastCamTimestamp EXCEPT ![s] = now]
        /\ mLastLowCamTimestamp' =
             [mLastLowCamTimestamp EXCEPT ![s] =
                IF now - mLastLowCamTimestamp[s] >= LowFrequencyInterval
                  THEN now ELSE mLastLowCamTimestamp[s]]
        /\ lastContainer' =
             [lastContainer EXCEPT ![s] =
                IF now - mLastLowCamTimestamp[s] >= LowFrequencyInterval
                  THEN now ELSE lastContainer[s]]
    BY <2>1 DEF GenerateCam, sendCam, LowFrequencyDue, requestTransmission, Cam
  <2>3. /\ mGenCam' \in [Senders -> Nat]
        /\ mGenCamLowDynamicsCounter' \in [Senders -> Nat]
    <3>1. T_elapsed(s) \in Nat
      BY <1>2 DEF T_elapsed, TypeOK, CaTypeOK
    <3>2. CASE FixedRate
      BY <2>1, <3>2 DEF GenerateCam, TypeOK, CaTypeOK
    <3>3. CASE ~FixedRate /\ checkDelta(s)
      <4>1. AdaptToDynamics(s)
        BY <2>1, <3>3 DEF GenerateCam
      <4>2. AtMost(T_elapsed(s), MaxInterval) \in Nat
        BY <3>1, CaServiceAssumption DEF AtMost
      <4> QED
        BY <4>1, <4>2 DEF AdaptToDynamics, TypeOK, CaTypeOK
    <3>4. CASE ~FixedRate /\ ~checkDelta(s)
      <4>1. CountLowDynamics(s)
        BY <2>1, <3>4 DEF GenerateCam
      <4> QED
        BY <4>1, CaServiceAssumption DEF CountLowDynamics, TypeOK, CaTypeOK
    <3> QED
      BY <3>2, <3>3, <3>4
  <2>4. CaTypeOK'
    <3>1. mLastLowCamTimestamp' \in [Senders -> -LowFrequencyInterval..now']
      BY <1>1, <1>2, <2>2, CaServiceAssumption DEF TypeOK, CaTypeOK
    <3>2. /\ mLastCamDynamics' \in [Senders -> Dynamics]
          /\ mLastCamTimestamp' \in [Senders -> 0..now']
          /\ lastContainer' \in [Senders -> 0..now']
      BY <1>1, <1>2, <2>2 DEF TypeOK, CaTypeOK
    <3> QED
      BY <1>1, <2>3, <3>1, <3>2 DEF TypeOK, CaTypeOK
  <2>5. Cam(s) \in Cams /\ Genuine(Cam(s))
    <3>1. updated[s] \in 0..MaxTime /\ updated[s] \in Nat
      BY <1>2, AwarenessAssumption
    <3> QED
      BY <3>1, Stamped DEF Cam, Cams, Genuine, LowFrequencyDue
  <2>6. ASSUME NEW c \in Channels, NEW r \in Receivers
        PROVE  \/ inFlight'[c][r] = inFlight[c][r]
               \/ inFlight'[c][r] = Append(inFlight[c][r], Cam(s))
    BY <2>1 DEF requestTransmission
  <2>7. inFlight' \in [Channels -> [Receivers -> Seq(Cams)]]
    BY <2>1, <2>5 DEF requestTransmission, TypeOK
  <2>8. TypeOK'
    BY <1>1, <1>2, <2>4, <2>7, AwarenessAssumption DEF TypeOK
  <2>9. AirInv'
    <3> SUFFICES ASSUME NEW c \in Channels, NEW r \in Receivers,
                        NEW i \in 1..Len(inFlight'[c][r])
                 PROVE  Genuine(inFlight'[c][r][i])
      BY <1>1 DEF AirInv, Genuine
    <3> DEFINE q == inFlight[c][r]
    <3>1. q \in Seq(Cams) /\ \A k \in 1..Len(q) : Genuine(q[k])
      BY DEF TypeOK, AirInv
    <3>2. inFlight'[c][r] = q \/ inFlight'[c][r] = Append(q, Cam(s))
      BY <2>6
    <3> HIDE DEF q
    <3> QED
      BY <2>5, <3>1, <3>2
  <2>10. StartInv'
    <3>1. \A x \in Stations : nextUpdate'[x] >= UpdateInterval
      BY <1>1, <1>2, AwarenessAssumption DEF StartInv, TypeOK
    <3>2. ASSUME NEW t \in Senders, t # s
          PROVE  /\ mLastCamTimestamp'[t] = mLastCamTimestamp[t]
                 /\ mLastLowCamTimestamp'[t] = mLastLowCamTimestamp[t]
                 /\ lastContainer'[t] = lastContainer[t]
      BY <2>2, <3>2 DEF TypeOK, CaTypeOK
    <3>3. /\ mLastLowCamTimestamp'[s] =
               IF now - mLastLowCamTimestamp[s] >= LowFrequencyInterval
                 THEN now ELSE mLastLowCamTimestamp[s]
          /\ lastContainer'[s] =
               IF now - mLastLowCamTimestamp[s] >= LowFrequencyInterval
                 THEN now ELSE lastContainer[s]
          /\ mLastCamTimestamp'[s] = now
      BY <2>2 DEF TypeOK, CaTypeOK
    <3>4. /\ LowFrequencyInterval \in Nat /\ LowFrequencyInterval > 0
          /\ mLastLowCamTimestamp[s] \in Int
      BY CaServiceAssumption DEF TypeOK, CaTypeOK
    <3>5. \/ mLastLowCamTimestamp[s] > 0 /\ lastContainer[s] = mLastLowCamTimestamp[s]
          \/ mLastLowCamTimestamp[s] = -LowFrequencyInterval
      BY DEF StartInv
    <3>6. /\ mLastLowCamTimestamp'[s] > 0 /\ lastContainer'[s] = mLastLowCamTimestamp'[s]
          /\ mLastCamTimestamp'[s] - mLastLowCamTimestamp'[s] < LowFrequencyInterval
      BY <1>2, <3>3, <3>4, <3>5
    <3> QED
      BY <3>1, <3>2, <3>6 DEF StartInv
  <2>11. MapTruthful'
    BY <1>1 DEF MapTruthful
  <2> QED
    BY <2>8, <2>9, <2>10, <2>11
<1> QED
  BY <1>3, <1>4

(* A receiver's update.                                                    *)
LEMMA DropExpiredInv ==
    ASSUME IInv, NEW r \in Receivers, dropExpired(r)
    PROVE  IInv'
<1> USE DEF IInv
<1>1. /\ UNCHANGED <<now, dynamics, updated, trcDelay, caVars, inFlight, newest>>
      /\ nextUpdate[r] = now
      /\ nextUpdate' = [nextUpdate EXCEPT ![r] = now + UpdateInterval]
  BY DEF dropExpired, ScheduleUpdate
<1>2. /\ mCaMessages' \in [Receivers -> [Senders -> Entries \cup {NoEntry}]]
      /\ \A q \in Receivers, s \in Senders : mCaMessages'[q][s] \in {mCaMessages[q][s], NoEntry}
  BY DEF dropExpired, TypeOK
<1>3. r \in Stations /\ now \in 0..MaxTime
  BY DEF Stations, TypeOK
<1>4. TypeOK'
  <2>1. CaTypeOK'
    BY <1>1 DEF TypeOK, CaTypeOK, caVars
  <2>2. nextUpdate' \in [Stations -> now'..(MaxTime + 2 * UpdateInterval)]
    BY <1>1, <1>3, AwarenessAssumption DEF TypeOK
  <2> QED
    BY <1>1, <1>2, <2>1, <2>2 DEF TypeOK
<1>5. AirInv'
  BY <1>1 DEF AirInv, Genuine
<1>6. StartInv'
  BY <1>1, <1>3, AwarenessAssumption DEF StartInv, TypeOK, caVars
<1>7. MapTruthful'
  BY <1>2 DEF MapTruthful
<1> QED
  BY <1>4, <1>5, <1>6, <1>7

(* The first CAM of a channel leaves the air, received or lost.            *)
LEMMA TakenFromAir ==
    ASSUME IInv, NEW r \in Receivers, NEW c \in Channels, inFlight[c][r] # << >>,
           inFlight' = [inFlight EXCEPT ![c][r] = Tail(inFlight[c][r])], updated' = updated
    PROVE  /\ inFlight' \in [Channels -> [Receivers -> Seq(Cams)]]
           /\ AirInv'
<1> DEFINE q == inFlight[c][r]
<1>1. inFlight \in [Channels -> [Receivers -> Seq(Cams)]]
  BY DEF IInv, TypeOK
<1>2. q \in Seq(Cams) /\ q # << >> /\ \A k \in 1..Len(q) : Genuine(q[k])
  BY <1>1 DEF IInv, AirInv
<1>3. /\ inFlight'[c][r] = Tail(q)
      /\ \A d \in Channels, t \in Receivers :
           d # c \/ t # r => inFlight'[d][t] = inFlight[d][t]
  BY <1>1
<1> HIDE DEF q
<1>4. Tail(q) \in Seq(Cams) /\ \A k \in 1..Len(Tail(q)) : Genuine(Tail(q)[k])
  BY <1>2
<1>5. inFlight' \in [Channels -> [Receivers -> Seq(Cams)]]
  BY <1>1, <1>4 DEF q
<1>6. \A d \in Channels, t \in Receivers :
        \A i \in 1..Len(inFlight'[d][t]) : Genuine(inFlight'[d][t][i])
  BY <1>3, <1>4 DEF IInv, AirInv
<1>7. AirInv'
  BY <1>6 DEF AirInv, Genuine
<1> QED
  BY <1>5, <1>7

(* A CAM is received.                                                      *)
LEMMA IndicateInv ==
    ASSUME IInv, NEW r \in Receivers, NEW c \in Channels, indicate(r, c)
    PROVE  IInv'
<1> DEFINE cam == Head(inFlight[c][r])
           s == cam.station
<1> USE DEF IInv
<1>1. /\ UNCHANGED <<now, dynamics, updated, trcDelay, caVars, nextUpdate>>
      /\ inFlight[c][r] # << >>
      /\ now - cam.generated <= MaxAge
      /\ inFlight' = [inFlight EXCEPT ![c][r] = Tail(inFlight[c][r])]
      /\ mCaMessages' = [mCaMessages EXCEPT ![r][s] = NewEntry(mCaMessages[r][s], cam)]
      /\ newest' = [newest EXCEPT ![r][s] =
           IF newest[r][s] = NoEntry THEN cam.generated ELSE AtLeast(newest[r][s], cam.generated)]
  BY DEF indicate
<1>2. cam \in Cams /\ Genuine(cam)
  <2>1. inFlight[c][r] \in Seq(Cams) /\ 1 \in 1..Len(inFlight[c][r])
    BY <1>1 DEF TypeOK
  <2> QED
    BY <1>1, <2>1 DEF AirInv
<1>3. /\ s \in Senders /\ cam.generated \in 0..MaxTime /\ cam.generated \in Nat
      /\ now \in Nat /\ cam.generated <= now
      /\ cam.generationDeltaTime = GenerationDeltaTime(cam.generated)
  BY <1>2, AwarenessAssumption DEF Cams, Genuine, TypeOK, CaTypeOK
<1> HIDE DEF cam, s
<1>4. /\ Expiry(cam) \in Nat
      /\ InBounds(Expiry(cam)) => Expiry(cam) = cam.generated + Lifetime
  BY <1>1, <1>3, ExpiryTrue
<1>5. inFlight' \in [Channels -> [Receivers -> Seq(Cams)]] /\ AirInv'
  BY <1>1, TakenFromAir
<1>6. ASSUME NEW old \in Entries \cup {NoEntry},
             old # NoEntry => old.expiry = old.generated + Lifetime
      PROVE  /\ NewEntry(old, cam) \in Entries \cup {NoEntry}
             /\ NewEntry(old, cam) # NoEntry =>
                  NewEntry(old, cam).expiry = NewEntry(old, cam).generated + Lifetime
  BY <1>3, <1>4, <1>6 DEF NewEntry, Entries
<1>7. /\ mCaMessages' \in [Receivers -> [Senders -> Entries \cup {NoEntry}]]
      /\ MapTruthful'
  <2>1. /\ mCaMessages \in [Receivers -> [Senders -> Entries \cup {NoEntry}]]
        /\ mCaMessages[r][s] \in Entries \cup {NoEntry}
        /\ mCaMessages[r][s] # NoEntry =>
             mCaMessages[r][s].expiry = mCaMessages[r][s].generated + Lifetime
    BY <1>3 DEF TypeOK, MapTruthful
  <2> DEFINE new == NewEntry(mCaMessages[r][s], cam)
  <2>2. /\ new \in Entries \cup {NoEntry}
        /\ new # NoEntry => new.expiry = new.generated + Lifetime
    BY <1>6, <2>1
  <2>3. mCaMessages' = [mCaMessages EXCEPT ![r][s] = new]
    BY <1>1
  <2> HIDE DEF new
  <2> QED
    BY <1>3, <2>1, <2>2, <2>3 DEF MapTruthful
<1>8. newest' \in [Receivers -> [Senders -> 0..MaxTime \cup {NoEntry}]]
  BY <1>1, <1>3 DEF TypeOK, AtLeast
<1>9. TypeOK'
  <2>1. CaTypeOK'
    BY <1>1 DEF TypeOK, CaTypeOK, caVars
  <2> QED
    BY <1>1, <1>5, <1>7, <1>8, <2>1 DEF TypeOK
<1>10. StartInv'
  BY <1>1 DEF StartInv, caVars
<1> QED
  BY <1>5, <1>7, <1>9, <1>10

(* A CAM is lost.                                                          *)
LEMMA LoseInv ==
    ASSUME IInv, NEW r \in Receivers, NEW c \in Channels, Lose(r, c)
    PROVE  IInv'
<1>1. /\ UNCHANGED <<now, dynamics, updated, trcDelay, caVars, nextUpdate, mCaMessages, newest>>
      /\ inFlight[c][r] # << >>
      /\ inFlight' = [inFlight EXCEPT ![c][r] = Tail(inFlight[c][r])]
  BY DEF Lose
<1>2. inFlight' \in [Channels -> [Receivers -> Seq(Cams)]] /\ AirInv'
  BY <1>1, TakenFromAir
<1>3. CaTypeOK'
  BY <1>1 DEF IInv, TypeOK, CaTypeOK, caVars
<1>4. TypeOK'
  BY <1>1, <1>2, <1>3 DEF IInv, TypeOK
<1>5. StartInv' /\ MapTruthful'
  BY <1>1 DEF IInv, StartInv, MapTruthful, caVars
<1> QED
  BY <1>2, <1>4, <1>5 DEF IInv

(* The invariant holds in every reachable state.                           *)
THEOREM Invariance == Spec => []IInv
<1>1. IInv /\ [Next]_vars => IInv'
  BY SurroundingsInv, TriggerInv, DropExpiredInv, IndicateInv, LoseInv DEF Next
<1> QED
  BY <1>1, InitInv, PTL DEF Spec

(* Every variable keeps its type.                                          *)
THEOREM TypeCorrect == Spec => []TypeOK
<1>1. IInv => TypeOK
  BY DEF IInv
<1> QED BY <1>1, Invariance, PTL

(* Awareness entries expire when the CAM's true generation time says so:   *)
(* over any loss, any delay up to MaxAge and any wrap of the time stamps,  *)
(* updateAwareness resolves a time stamp to its true time or refuses it.   *)
THEOREM MapIsTruthful == Spec => []MapTruthful
<1>1. IInv => MapTruthful
  BY DEF IInv
<1> QED BY <1>1, Invariance, PTL

-----------------------------------------------------------------------------

(* The longest interval the triggering conditions can ask for.             *)
LEMMA PaceStep ==
    ASSUME IInv, PaceInv, [Next]_vars
    PROVE  PaceInv'
<1>1. /\ MinInterval \in Nat /\ MaxInterval \in Nat /\ MinInterval <= MaxInterval
      /\ UpdateInterval \in Nat
      /\ DccDelays \subseteq Nat
  BY CaServiceAssumption, AwarenessAssumption
<1>2. T_GenCamDcc \in Nat /\ T_GenCamDcc <= MaxInterval
  <2>1. trcDelay[CCH] \in Nat
    BY <1>1 DEF IInv, TypeOK, CaTypeOK
  <2> QED
    BY <1>1, <2>1 DEF T_GenCamDcc, genCamDcc, mPrimaryChannel, AtMost, AtLeast
<1>3. ASSUME NEW s \in Senders, trigger(s) PROVE PaceInv'
  <2>1. /\ s \in Stations /\ now \in Nat /\ nextUpdate[s] = now /\ now' = now
        /\ nextUpdate' = [nextUpdate EXCEPT ![s] = now + UpdateInterval]
        /\ nextUpdate \in [Stations -> now..(MaxTime + 2 * UpdateInterval)]
        /\ mGenCam \in [Senders -> Nat] /\ mLastCamTimestamp \in [Senders -> 0..now]
    BY <1>3, AwarenessAssumption DEF trigger, ScheduleUpdate, IInv, TypeOK, CaTypeOK, Stations
  <2>2. T_elapsed(s) \in Nat /\ T_elapsed(s) = now - mLastCamTimestamp[s]
    BY <2>1 DEF T_elapsed
  <2>3. CASE ~CamDue(s)
    <3>1. T_elapsed(s) < T_GenCamDcc \/ T_elapsed(s) < mGenCam[s]
      BY <1>2, <2>1, <2>2, <2>3 DEF CamDue
    <3>2. T_elapsed(s) <= MaxInterval
      BY <1>1, <1>2, <2>1, <2>2, <3>1 DEF PaceInv
    <3>3. UNCHANGED caVars
      BY <1>3, <2>3 DEF trigger
    <3>4. nextUpdate'[s] - mLastCamTimestamp[s] <= MaxInterval + UpdateInterval
      BY <1>1, <2>1, <2>2, <3>2
    <3> QED
      BY <2>1, <3>3, <3>4 DEF PaceInv, Stations, caVars
  <2>4. CASE CamDue(s)
    <3>1. GenerateCam(s) /\ mLastCamTimestamp' = [mLastCamTimestamp EXCEPT ![s] = now]
      BY <1>3, <2>4 DEF trigger, GenerateCam, sendCam
    <3>2. /\ mGenCam'[s] <= MaxInterval
          /\ \A t \in Senders \ {s} : mGenCam'[t] = mGenCam[t]
      <4>1. mGenCam[s] <= MaxInterval
        BY DEF PaceInv
      <4>2. CASE FixedRate
        BY <3>1, <4>1, <4>2 DEF GenerateCam
      <4>3. CASE ~FixedRate /\ checkDelta(s)
        <5>1. AdaptToDynamics(s)
          BY <3>1, <4>3 DEF GenerateCam
        <5>2. AtMost(T_elapsed(s), MaxInterval) <= MaxInterval
          BY <1>1, <2>2 DEF AtMost
        <5> QED
          BY <2>1, <5>1, <5>2 DEF AdaptToDynamics
      <4>4. CASE ~FixedRate /\ ~checkDelta(s)
        <5>1. CountLowDynamics(s)
          BY <3>1, <4>4 DEF GenerateCam
        <5> QED
          BY <1>1, <2>1, <4>1, <5>1 DEF CountLowDynamics
      <4> QED
        BY <4>2, <4>3, <4>4
    <3>3. nextUpdate'[s] - mLastCamTimestamp'[s] <= MaxInterval + UpdateInterval
      BY <1>1, <2>1, <3>1
    <3> QED
      BY <2>1, <3>1, <3>2, <3>3 DEF PaceInv, Stations
  <2> QED
    BY <2>3, <2>4
<1>4. ASSUME NEW r \in Receivers, dropExpired(r) PROVE PaceInv'
  <2>1. \A s \in Senders : nextUpdate'[s] = nextUpdate[s]
    BY <1>4, AwarenessAssumption DEF dropExpired, ScheduleUpdate, IInv, TypeOK, Stations
  <2> QED
    BY <1>4, <2>1 DEF dropExpired, PaceInv, caVars
<1>5. CASE UNCHANGED <<caVars, nextUpdate>>
  BY <1>5 DEF PaceInv, caVars
<1> QED
  BY <1>3, <1>4, <1>5 DEF Next, Tick, Move, Throttle, indicate, Lose, vars

(* The next trigger comes in time, so nobody is silent for too long.       *)
LEMMA PaceNeverSilent == IInv /\ PaceInv => NeverSilent
<1> SUFFICES ASSUME IInv, PaceInv, NEW s \in Senders
             PROVE  T_elapsed(s) <= MaxInterval + UpdateInterval
  BY DEF NeverSilent
<1>1. /\ now \in Nat /\ nextUpdate[s] \in Int /\ now <= nextUpdate[s]
      /\ mLastCamTimestamp[s] \in Int
      /\ nextUpdate[s] - mLastCamTimestamp[s] <= MaxInterval + UpdateInterval
      /\ MaxInterval \in Nat /\ UpdateInterval \in Nat
  BY CaServiceAssumption, AwarenessAssumption DEF IInv, TypeOK, CaTypeOK, Stations, PaceInv
<1> QED
  BY <1>1 DEF T_elapsed

(* With a maxInterval of at least the interval the constructor sets, and   *)
(* an update interval that is not longer, no station is silent for longer  *)
(* than maxInterval and one update interval, whatever vehicle and DCC do.  *)
THEOREM StationsNeverSilent ==
    ASSUME DefaultInterval <= MaxInterval, UpdateInterval <= MaxInterval
    PROVE  Spec => []NeverSilent
<1>1. Init => PaceInv
  BY CaServiceAssumption, AwarenessAssumption DEF Init, CaInit, PaceInv, Stations
<1>2. IInv /\ PaceInv /\ [Next]_vars => PaceInv'
  BY PaceStep
<1>3. IInv /\ PaceInv => NeverSilent
  BY PaceNeverSilent
<1> QED
  BY <1>1, <1>2, <1>3, Invariance, PTL DEF Spec

(* Under the same conditions a station's low frequency container is sent   *)
(* at least every LowFrequencyInterval and the longest silence: sendCam    *)
(* adds it to the first CAM, and to the first one after the interval.      *)
THEOREM ContainersAreRegular ==
    ASSUME DefaultInterval <= MaxInterval, UpdateInterval <= MaxInterval
    PROVE  Spec => []ContainerRegular
<1>1. IInv /\ NeverSilent => ContainerRegular
  <2> SUFFICES ASSUME IInv, NeverSilent, NEW s \in Senders
               PROVE  now - lastContainer[s] <= LowFrequencyInterval + MaxInterval + UpdateInterval
    BY DEF ContainerRegular
  <2>1. now - mLastCamTimestamp[s] <= MaxInterval + UpdateInterval
    BY DEF NeverSilent, T_elapsed
  <2>2. /\ now \in Nat /\ mLastCamTimestamp[s] \in Nat /\ lastContainer[s] \in Nat
        /\ MaxInterval \in Nat /\ UpdateInterval \in Nat /\ LowFrequencyInterval \in Nat
    BY CaServiceAssumption, AwarenessAssumption DEF IInv, TypeOK, CaTypeOK
  <2>3. mLastCamTimestamp[s] - lastContainer[s] <= LowFrequencyInterval
    <3>1. CASE mLastCamTimestamp[s] = 0 /\ lastContainer[s] = 0
      BY <2>2, <3>1
    <3>2. CASE /\ lastContainer[s] = mLastLowCamTimestamp[s]
               /\ mLastCamTimestamp[s] - mLastLowCamTimestamp[s] < LowFrequencyInterval
      BY <2>2, <3>2
    <3> QED
      BY <3>1, <3>2 DEF IInv, StartInv
  <2> QED
    BY <2>1, <2>2, <2>3
<1> QED
  BY <1>1, Invariance, StationsNeverSilent, PTL

-----------------------------------------------------------------------------

(* CAMs on the air are in order, and what was received last is the newest. *)
ReceptionInv == OrderInv /\ NewestKept

(* A queue stays in order when its first CAM is received ...               *)
LEMMA TailInOrder ==
    ASSUME NEW q \in Seq(Cams), q # << >>, NEW known, InOrder(q, known), NEW later,
           \A u \in Senders :
             later[u] = IF u = Head(q).station THEN Head(q).generated ELSE known[u]
    PROVE  InOrder(Tail(q), later)
<1> SUFFICES ASSUME NEW i \in 1..Len(Tail(q))
             PROVE  /\ later[Tail(q)[i].station] # NoEntry =>
                          later[Tail(q)[i].station] <= Tail(q)[i].generated
                    /\ \A j \in i..Len(Tail(q)) :
                         Tail(q)[j].station = Tail(q)[i].station
                           => Tail(q)[i].generated <= Tail(q)[j].generated
  BY DEF InOrder
<1>1. /\ Len(q) \in Nat /\ Len(Tail(q)) = Len(q) - 1 /\ Head(q) = q[1]
      /\ 1 \in 1..Len(q) /\ i + 1 \in 1..Len(q)
      /\ \A j \in i..Len(Tail(q)) : j + 1 \in (i + 1)..Len(q) /\ Tail(q)[j] = q[j + 1]
      /\ Tail(q)[i] = q[i + 1]
  OBVIOUS
<1>2. q[i + 1].station \in Senders
  <2>1. q[i + 1] \in Cams
    BY <1>1
  <2> QED
    BY <2>1 DEF Cams
<1>3. \A j \in (i + 1)..Len(q) :
        q[j].station = q[i + 1].station => q[i + 1].generated <= q[j].generated
  BY <1>1 DEF InOrder
<1>4. later[q[i + 1].station] # NoEntry => later[q[i + 1].station] <= q[i + 1].generated
  <2>1. CASE q[i + 1].station = q[1].station
    <3>1. i + 1 \in 1..Len(q)
      BY <1>1
    <3>2. q[1].generated <= q[i + 1].generated
      BY <1>1, <2>1, <3>1 DEF InOrder
    <3> QED
      BY <1>1, <1>2, <2>1, <3>2
  <2>2. CASE q[i + 1].station # q[1].station
    BY <1>1, <1>2, <2>2 DEF InOrder
  <2> QED
    BY <2>1, <2>2
<1> QED
  BY <1>1, <1>3, <1>4

(* ... and when a CAM of the latest data is sent.                          *)
LEMMA AppendInOrder ==
    ASSUME NEW q \in Seq(Cams), NEW known, InOrder(q, known), NEW cam \in Cams,
           known[cam.station] # NoEntry => known[cam.station] <= cam.generated,
           \A i \in 1..Len(q) : q[i].station = cam.station => q[i].generated <= cam.generated
    PROVE  InOrder(Append(q, cam), known)
<1> DEFINE a == Append(q, cam)
<1>1. /\ Len(q) \in Nat /\ Len(a) = Len(q) + 1 /\ a[Len(q) + 1] = cam
      /\ \A i \in 1..Len(q) : a[i] = q[i]
  OBVIOUS
<1> HIDE DEF a
<1>2. cam.generated <= cam.generated
  BY AwarenessAssumption DEF Cams
<1>3. ASSUME NEW i \in 1..Len(a)
      PROVE  /\ known[a[i].station] # NoEntry => known[a[i].station] <= a[i].generated
             /\ \A j \in i..Len(a) :
                  a[j].station = a[i].station => a[i].generated <= a[j].generated
  <2>1. CASE i = Len(q) + 1
    BY <1>1, <1>2, <2>1
  <2>2. CASE i \in 1..Len(q)
    <3>1. /\ known[q[i].station] # NoEntry => known[q[i].station] <= q[i].generated
          /\ \A j \in i..Len(q) : q[j].station = q[i].station => q[i].generated <= q[j].generated
      BY <2>2 DEF InOrder
    <3>2. \A j \in i..Len(a) : (j \in i..Len(q) /\ j \in 1..Len(q)) \/ j = Len(q) + 1
      BY <1>1, <2>2
    <3> QED
      BY <1>1, <2>2, <3>1, <3>2
  <2> QED
    BY <1>1, <2>1, <2>2
<1> QED
  BY <1>3 DEF InOrder, a

(* Receiving a CAM on the only channel.                                    *)
LEMMA IndicateReception ==
    ASSUME IInv, ReceptionInv, NEW r \in Receivers, NEW c \in Channels, indicate(r, c),
           \A d \in Channels : d = c
    PROVE  ReceptionInv'
<1> DEFINE q == inFlight[c][r]
           cam == Head(q)
           s == cam.station
<1>1. /\ UNCHANGED <<now, updated>>
      /\ q # << >> /\ now - cam.generated <= MaxAge
      /\ inFlight' = [inFlight EXCEPT ![c][r] = Tail(q)]
      /\ mCaMessages' = [mCaMessages EXCEPT ![r][s] = NewEntry(mCaMessages[r][s], cam)]
      /\ newest' = [newest EXCEPT ![r][s] =
           IF newest[r][s] = NoEntry THEN cam.generated ELSE AtLeast(newest[r][s], cam.generated)]
  BY DEF indicate
<1>2. /\ q \in Seq(Cams) /\ 1 \in 1..Len(q) /\ cam = q[1] /\ cam \in Cams /\ Genuine(cam)
      /\ inFlight \in [Channels -> [Receivers -> Seq(Cams)]]
      /\ mCaMessages \in [Receivers -> [Senders -> Entries \cup {NoEntry}]]
      /\ newest \in [Receivers -> [Senders -> 0..MaxTime \cup {NoEntry}]]
      /\ updated \in [Senders -> 0..now] /\ now \in Nat
  BY <1>1, AwarenessAssumption DEF IInv, TypeOK, CaTypeOK, AirInv
<1>3. /\ s \in Senders /\ cam.generated \in Nat
      /\ cam.generated <= updated[s] /\ cam.generated <= now
      /\ cam.generationDeltaTime = GenerationDeltaTime(cam.generated)
  BY <1>2, AwarenessAssumption DEF Cams, Genuine
<1>4. InOrder(q, newest[r]) /\ (newest[r][s] # NoEntry => newest[r][s] <= cam.generated)
  BY <1>2 DEF ReceptionInv, OrderInv, InOrder
<1>5. /\ newest'[r][s] = cam.generated /\ cam.generated # NoEntry
      /\ \A t \in Receivers, u \in Senders : t # r \/ u # s => newest'[t][u] = newest[t][u]
  <2>1. CASE newest[r][s] = NoEntry
    BY <1>1, <1>2, <1>3, <2>1, AwarenessAssumption
  <2>2. CASE newest[r][s] # NoEntry
    <3>1. AtLeast(newest[r][s], cam.generated) = cam.generated
      BY <1>2, <1>3, <1>4, <2>2 DEF AtLeast
    <3> QED
      BY <1>1, <1>2, <1>3, <2>2, <3>1, AwarenessAssumption
  <2> QED
    BY <2>1, <2>2
<1>6. cam.generated + Lifetime >= now =>
        mCaMessages'[r][s] # NoEntry /\ mCaMessages'[r][s].generated = cam.generated
  <2> SUFFICES ASSUME cam.generated + Lifetime >= now
               PROVE  mCaMessages'[r][s] # NoEntry /\ mCaMessages'[r][s].generated = cam.generated
    OBVIOUS
  <2>1. InBounds(Expiry(cam)) /\ Expiry(cam) \in Nat
    BY <1>1, <1>2, <1>3, ExpiryTrue
  <2> DEFINE new == [generated |-> cam.generated, expiry |-> Expiry(cam)]
  <2>2. NewEntry(mCaMessages[r][s], cam) = new
    BY <2>1 DEF NewEntry
  <2>3. new # NoEntry
    BY <1>3, <2>1, AwarenessAssumption
  <2>4. mCaMessages'[r][s] = new
    BY <1>1, <1>2, <1>3, <2>2
  <2> QED
    BY <2>3, <2>4
<1>7. \A t \in Receivers, u \in Senders : t # r \/ u # s => mCaMessages'[t][u] = mCaMessages[t][u]
  BY <1>1, <1>2, <1>3
<1>8. NewestKept'
  <2> SUFFICES ASSUME NEW t \in Receivers, NEW u \in Senders,
                      newest'[t][u] # NoEntry, newest'[t][u] + Lifetime >= now
               PROVE  /\ mCaMessages'[t][u] # NoEntry
                      /\ mCaMessages'[t][u].generated = newest'[t][u]
    BY <1>1 DEF NewestKept
  <2>1. CASE t = r /\ u = s
    BY <1>5, <1>6, <2>1
  <2>2. CASE t # r \/ u # s
    <3>1. newest'[t][u] = newest[t][u] /\ mCaMessages'[t][u] = mCaMessages[t][u]
      BY <1>5, <1>7, <2>2
    <3> QED
      BY <3>1 DEF ReceptionInv, NewestKept
  <2> QED
    BY <2>1, <2>2
<1>9. inFlight'[c][r] = Tail(q) /\ \A t \in Receivers \ {r} : inFlight'[c][t] = inFlight[c][t]
  BY <1>1, <1>2
<1>10. ASSUME NEW t \in Receivers
       PROVE  InOrder(inFlight'[c][t], newest'[t])
  <2>1. CASE t = r
    <3>1. \A u \in Senders :
            newest'[r][u] = IF u = Head(q).station THEN Head(q).generated ELSE newest[r][u]
      BY <1>5
    <3>2. InOrder(Tail(q), newest'[r])
      <4> DEFINE known == newest[r]
                 later == newest'[r]
      <4>1. /\ q \in Seq(Cams) /\ q # << >> /\ InOrder(q, known)
            /\ \A u \in Senders :
                 later[u] = IF u = Head(q).station THEN Head(q).generated ELSE known[u]
        BY <1>1, <1>2, <1>4, <3>1
      <4> HIDE DEF q, cam, s, known, later
      <4>2. InOrder(Tail(q), later)
        BY <4>1, TailInOrder
      <4> QED
        BY <4>2 DEF later
    <3> QED
      BY <1>9, <2>1, <3>2
  <2>2. CASE t # r
    <3>1. inFlight'[c][t] = inFlight[c][t]
      BY <1>9, <2>2
    <3>2. newest'[t] = newest[t]
      BY <1>1, <1>2, <1>3, <2>2
    <3> QED
      BY <3>1, <3>2 DEF ReceptionInv, OrderInv
  <2> QED
    BY <2>1, <2>2
<1>11. \A t \in Receivers, u \in Senders : newest'[t][u] # NoEntry => newest'[t][u] <= updated'[u]
  BY <1>1, <1>3, <1>5 DEF ReceptionInv, OrderInv
<1>12. OrderInv'
  BY <1>10, <1>11 DEF OrderInv
<1> QED
  BY <1>8, <1>12 DEF ReceptionInv

(* Losing a CAM.                                                           *)
LEMMA LoseReception ==
    ASSUME IInv, ReceptionInv, NEW r \in Receivers, NEW c \in Channels, Lose(r, c)
    PROVE  ReceptionInv'
<1> DEFINE q == inFlight[c][r]
<1>1. /\ UNCHANGED <<now, updated, mCaMessages, newest>>
      /\ q # << >> /\ q \in Seq(Cams) /\ InOrder(q, newest[r])
      /\ inFlight' = [inFlight EXCEPT ![c][r] = Tail(q)]
      /\ inFlight \in [Channels -> [Receivers -> Seq(Cams)]]
  BY DEF Lose, IInv, TypeOK, ReceptionInv, OrderInv
<1>2. /\ inFlight'[c][r] = Tail(q)
      /\ \A d \in Channels, t \in Receivers :
           d # c \/ t # r => inFlight'[d][t] = inFlight[d][t]
  BY <1>1
<1> HIDE DEF q
<1>3. InOrder(Tail(q), newest[r])
  <2>1. /\ Len(q) \in Nat /\ Len(Tail(q)) = Len(q) - 1
        /\ \A i \in 1..Len(Tail(q)) : i + 1 \in 1..Len(q) /\ Tail(q)[i] = q[i + 1]
    BY <1>1
  <2> SUFFICES ASSUME NEW i \in 1..Len(Tail(q))
               PROVE  /\ newest[r][q[i + 1].station] # NoEntry =>
                            newest[r][q[i + 1].station] <= q[i + 1].generated
                      /\ \A j \in i..Len(Tail(q)) :
                           q[j + 1].station = q[i + 1].station
                             => q[i + 1].generated <= q[j + 1].generated
    BY <2>1 DEF InOrder
  <2>2. \A j \in i..Len(Tail(q)) : j + 1 \in (i + 1)..Len(q)
    BY <2>1
  <2> QED
    BY <1>1, <2>1, <2>2 DEF InOrder
<1>4. OrderInv'
  <2>1. \A d \in Channels, t \in Receivers : InOrder(inFlight'[d][t], newest[t])
    BY <1>2, <1>3 DEF ReceptionInv, OrderInv
  <2> QED
    BY <1>1, <2>1 DEF ReceptionInv, OrderInv
<1>5. NewestKept'
  BY <1>1 DEF ReceptionInv, NewestKept
<1> QED
  BY <1>4, <1>5 DEF ReceptionInv

(* Sending a CAM, or not.                                                  *)
LEMMA TriggerReception ==
    ASSUME IInv, ReceptionInv, NEW s \in Senders, trigger(s)
    PROVE  ReceptionInv'
<1>1. UNCHANGED <<now, updated, mCaMessages, newest>>
  BY DEF trigger
<1>2. ASSUME NEW c \in Channels, NEW r \in Receivers
      PROVE  InOrder(inFlight'[c][r], newest[r])
  <2> DEFINE q == inFlight[c][r]
  <2>1. q \in Seq(Cams) /\ InOrder(q, newest[r]) /\ \A i \in 1..Len(q) : Genuine(q[i])
    BY DEF IInv, TypeOK, AirInv, ReceptionInv, OrderInv
  <2>2. inFlight'[c][r] = q \/ inFlight'[c][r] = Append(q, Cam(s))
    BY DEF trigger, requestTransmission
  <2>3. Cam(s) \in Cams /\ Cam(s).station = s /\ Cam(s).generated = updated[s]
    <3>1. updated[s] \in 0..MaxTime /\ updated[s] \in Nat
      BY AwarenessAssumption DEF IInv, TypeOK, CaTypeOK
    <3> QED
      BY <3>1, Stamped DEF Cam, Cams, LowFrequencyDue
  <2>4. \A i \in 1..Len(q) : q[i].station = s => q[i].generated <= updated[s]
    BY <2>1 DEF Genuine
  <2>5. newest[r][s] # NoEntry => newest[r][s] <= updated[s]
    BY DEF ReceptionInv, OrderInv
  <2> HIDE DEF q
  <2>6. InOrder(Append(q, Cam(s)), newest[r])
    BY <2>1, <2>3, <2>4, <2>5, AppendInOrder
  <2> QED
    BY <2>1, <2>2, <2>6
<1>3. OrderInv'
  BY <1>1, <1>2 DEF ReceptionInv, OrderInv
<1>4. NewestKept'
  BY <1>1 DEF ReceptionInv, NewestKept
<1> QED
  BY <1>3, <1>4 DEF ReceptionInv

(* dropExpired spares every entry whose CAM is still valid.                *)
LEMMA DropExpiredReception ==
    ASSUME IInv, ReceptionInv, NEW r \in Receivers, dropExpired(r)
    PROVE  ReceptionInv'
<1>1. /\ UNCHANGED <<now, updated, inFlight, newest>>
      /\ mCaMessages' = [mCaMessages EXCEPT ![r] = [s \in Senders |->
            IF Outdated(mCaMessages[r][s]) THEN NoEntry ELSE mCaMessages[r][s]]]
  BY DEF dropExpired
<1>2. OrderInv'
  BY <1>1 DEF ReceptionInv, OrderInv
<1>3. ASSUME NEW t \in Receivers, NEW s \in Senders, newest[t][s] # NoEntry,
             newest[t][s] + Lifetime >= now
      PROVE  mCaMessages'[t][s] # NoEntry /\ mCaMessages'[t][s].generated = newest[t][s]
  <2>1. mCaMessages[t][s] # NoEntry /\ mCaMessages[t][s].generated = newest[t][s]
    BY <1>3 DEF ReceptionInv, NewestKept
  <2>2. mCaMessages[t][s].expiry = newest[t][s] + Lifetime
    BY <2>1 DEF IInv, MapTruthful
  <2>3. /\ newest[t][s] \in 0..MaxTime /\ now \in Nat /\ Lifetime \in Nat
        /\ mCaMessages \in [Receivers -> [Senders -> Entries \cup {NoEntry}]]
    BY <1>3, AwarenessAssumption DEF IInv, TypeOK
  <2>4. ~Outdated(mCaMessages[t][s])
    BY <1>3, <2>2, <2>3 DEF Outdated
  <2> QED
    BY <1>1, <2>1, <2>3, <2>4
<1>4. NewestKept'
  BY <1>1, <1>3 DEF NewestKept
<1> QED
  BY <1>2, <1>4 DEF ReceptionInv

(* Time passes, vehicles move and throttles change.                        *)
LEMMA SurroundingsReception ==
    ASSUME IInv, ReceptionInv,
           \/ Tick \/ UNCHANGED vars
           \/ \E s \in Senders : Move(s)
           \/ \E c \in Channels \cup {CCH} : Throttle(c)
    PROVE  ReceptionInv'
<1>1. /\ UNCHANGED <<inFlight, mCaMessages, newest>>
      /\ newest \in [Receivers -> [Senders -> 0..MaxTime \cup {NoEntry}]]
      /\ now \in Nat /\ now' \in Nat /\ now <= now'
  BY AwarenessAssumption DEF Tick, Move, Throttle, vars, IInv, TypeOK
<1>2. ASSUME NEW s \in Senders
      PROVE  updated[s] \in Nat /\ updated'[s] \in Nat /\ updated[s] <= updated'[s]
  <2>1. updated \in [Senders -> 0..now]
    BY DEF IInv, TypeOK, CaTypeOK
  <2> QED
    BY <1>1, <2>1 DEF Tick, Move, Throttle, vars
<1>3. OrderInv'
  <2>1. \A r \in Receivers, s \in Senders : newest[r][s] # NoEntry => newest[r][s] <= updated'[s]
    BY <1>1, <1>2 DEF ReceptionInv, OrderInv
  <2> QED
    BY <1>1, <2>1 DEF ReceptionInv, OrderInv
<1>4. NewestKept'
  <2>1. ASSUME NEW r \in Receivers, NEW s \in Senders, newest[r][s] # NoEntry,
               newest[r][s] + Lifetime >= now'
        PROVE  newest[r][s] + Lifetime >= now
    BY <1>1, <2>1, AwarenessAssumption
  <2> QED
    BY <1>1, <2>1 DEF ReceptionInv, NewestKept
<1> QED
  BY <1>3, <1>4 DEF ReceptionInv

(* With one channel, the map holds the newest CAM received from a station  *)
(* for as long as that CAM is valid: an older CAM never replaces it, and   *)
(* neither a wrap of the time stamps nor dropExpired takes it away early.  *)
THEOREM NewestIsKept ==
    ASSUME \A c, d \in Channels : c = d
    PROVE  Spec => []NewestKept
<1>1. Init => ReceptionInv
  BY DEF Init, ReceptionInv, OrderInv, InOrder, NewestKept
<1>2. IInv /\ ReceptionInv /\ [Next]_vars => ReceptionInv'
  <2> SUFFICES ASSUME IInv, ReceptionInv, [Next]_vars PROVE ReceptionInv'
    OBVIOUS
  <2>1. CASE \E r \in Receivers, c \in Channels : indicate(r, c)
    BY <2>1, IndicateReception
  <2>2. CASE \E r \in Receivers, c \in Channels : Lose(r, c)
    BY <2>2, LoseReception
  <2>3. CASE \E s \in Senders : trigger(s)
    BY <2>3, TriggerReception
  <2>4. CASE \E r \in Receivers : dropExpired(r)
    BY <2>4, DropExpiredReception
  <2> QED
    BY <2>1, <2>2, <2>3, <2>4, SurroundingsReception DEF Next
<1>3. ReceptionInv => NewestKept
  BY DEF ReceptionInv
<1> QED
  BY <1>1, <1>2, <1>3, Invariance, PTL DEF Spec
=============================================================================
