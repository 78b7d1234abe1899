------------------------ MODULE CooperativeAwareness ------------------------
(***************************************************************************)
(* Cooperative awareness from end to end: the middleware of every station  *)
(* triggers its services periodically, CaService generates CAMs, which are *)
(* passed to a network interface per channel, and the receiving stations   *)
(* keep them in their LocalDynamicMap until they expire.                   *)
(*                                                                         *)
(* The radio (external) delivers CAMs of one channel in order, at any age  *)
(* up to MaxAge, or loses them.  All times are milliseconds, scaled down.  *)
(***************************************************************************)
EXTENDS CaService, Sequences

CONSTANTS
    Receivers,      \* stations with a LocalDynamicMap
    NoEntry,        \* no awareness of a station
    UpdateInterval, \* Middleware's NED parameter, 100 ms
    Lifetime,       \* 1100 ms, lifetime of an awareness entry
    MaxAge,         \* no radio delivers a CAM that is older
    MaxTime,        \* bound: time
    QueueLimit      \* bound: CAMs in flight per channel

ASSUME AwarenessAssumption ==
    /\ Senders \cap Receivers = {}
    /\ UpdateInterval \in Nat \ {0}
    /\ Lifetime \in Nat
    /\ MaxTime \in Nat
    /\ QueueLimit \in Nat
    /\ NoEntry \notin Nat \cup [generated : Nat, expiry : Nat]

(* Time stamps last longer than awareness, and no CAM is on the air so     *)
(* long (64 s) that its time stamp stands for a recent time again: the     *)
(* GeoNetworking lifetime of a CAM is 1 s.                                 *)
ASSUME AgeAssumption ==
    /\ Lifetime <= HalfRange
    /\ MaxAge \in Nat /\ MaxAge + Lifetime < Modulus

VARIABLES
    nextUpdate,     \* arrival time of mUpdateMessage of every station
    inFlight,       \* CAMs on their way to a receiver, by channel
    mCaMessages,    \* LocalDynamicMap of every receiver
    newest          \* history: generation time of the newest CAM received

vars == <<now, dynamics, updated, trcDelay, caVars, nextUpdate,
          inFlight, mCaMessages, newest>>

Stations == Senders \cup Receivers

(* A CAM carries its time stamp modulo Modulus; generated, the time it     *)
(* stands for, is not known to the receiver.                               *)
Cams == [station : Senders, generated : 0..MaxTime,
         generationDeltaTime : Timestamps, lowFrequencyContainer : BOOLEAN]

(* LocalDynamicMap::AwarenessEntry; generated is again a history field.    *)
Entries == [generated : 0..MaxTime, expiry : Nat]

(* Middleware::initialize: the update cycle starts with a random jitter.   *)
Init ==
    /\ now = 0
    /\ CaInit
    /\ nextUpdate \in [Stations -> UpdateInterval..(2 * UpdateInterval - 1)]
    /\ inFlight = [c \in Channels |-> [r \in Receivers |-> << >>]]
    /\ mCaMessages = [r \in Receivers |-> [s \in Senders |-> NoEntry]]
    /\ newest = [r \in Receivers |-> [s \in Senders |-> NoEntry]]

-----------------------------------------------------------------------------
(* Time passes when no update and no movement is due. *)
Tick ==
    /\ now < MaxTime
    /\ \A x \in Stations : nextUpdate[x] > now
    /\ \A s \in Senders : updated[s] = now
    /\ now' = now + 1
    /\ UNCHANGED <<dynamics, updated, trcDelay, caVars, nextUpdate,
                   inFlight, mCaMessages, newest>>

(* VehicleMiddleware::receiveSignal: the mobility has changed its state.   *)
Move(s) ==
    /\ updated[s] < now
    /\ updated' = [updated EXCEPT ![s] = now]
    /\ \E d \in Dynamics : dynamics' = [dynamics EXCEPT ![s] = d]
    /\ UNCHANGED <<now, trcDelay, caVars, nextUpdate, inFlight,
                   mCaMessages, newest>>

(* The transmit rate throttle of a channel asks for another delay.         *)
Throttle(channel) ==
    /\ \E d \in DccDelays \ {trcDelay[channel]} :
         trcDelay' = [trcDelay EXCEPT ![channel] = d]
    /\ UNCHANGED <<now, dynamics, updated, caVars, nextUpdate,
                   inFlight, mCaMessages, newest>>

(* updateServices schedules the next update after the services.            *)
ScheduleUpdate(x) ==
    /\ nextUpdate[x] = now
    /\ nextUpdate' = [nextUpdate EXCEPT ![x] = now + UpdateInterval]

(* Middleware::requestTransmission: one copy of the packet per channel.    *)
requestTransmission(cam) ==
    /\ lastContainer' = [lastContainer EXCEPT ![cam.station] =
                           IF cam.lowFrequencyContainer THEN now ELSE @]
    /\ inFlight' = [c \in Channels |-> [r \in Receivers |->
                      IF Len(inFlight[c][r]) < QueueLimit
                        THEN Append(inFlight[c][r], cam)
                        ELSE inFlight[c][r]]]

(* The CAM is stamped with the time of the vehicle data it carries; the    *)
(* low frequency container is added from time to time.                     *)
Cam(s) == [station |-> s, generated |-> updated[s],
           generationDeltaTime |-> GenerationDeltaTime(updated[s]),
           lowFrequencyContainer |-> LowFrequencyDue(s)]

(* Middleware::updateServices of a sender: CaService::trigger.             *)
trigger(s) ==
    /\ ScheduleUpdate(s)
    /\ IF CamDue(s)
         THEN GenerateCam(s) /\ requestTransmission(Cam(s))
         ELSE UNCHANGED <<caVars, inFlight>>
    /\ UNCHANGED <<now, dynamics, updated, trcDelay, mCaMessages, newest>>

(* An awareness entry that dropExpired erases.                             *)
Outdated(entry) == entry # NoEntry /\ entry.expiry < now

(* Middleware::updateServices of a receiver: LocalDynamicMap::dropExpired. *)
dropExpired(r) ==
    /\ ScheduleUpdate(r)
    /\ mCaMessages' = [mCaMessages EXCEPT ![r] = [s \in Senders |->
                         IF Outdated(@[s]) THEN NoEntry ELSE @[s]]]
    /\ UNCHANGED <<now, dynamics, updated, trcDelay, caVars, inFlight, newest>>

(* The lifetime of a CAM starts at its reconstructed generation time.      *)
Expiry(cam) ==
    SimTimeFor(reconstructMilliseconds(now, cam.generationDeltaTime)) + Lifetime

(* Mutant of InBounds: only expired CAMs are refused.                      *)
NotExpired(expiry) == expiry >= now

(* updateAwareness accepts a CAM only if its expiry is plausible.          *)
InBounds(expiry) == expiry >= now /\ expiry <= now + 2 * Lifetime

(* LocalDynamicMap::updateAwareness: the entry replaces an older one.      *)
NewEntry(old, cam) ==
    IF InBounds(Expiry(cam))
      THEN [generated |-> cam.generated, expiry |-> Expiry(cam)]
      ELSE old

(* CaService::indicate *)
indicate(r, c) ==
    /\ inFlight[c][r] # << >>
    /\ now - Head(inFlight[c][r]).generated <= MaxAge
    /\ LET cam == Head(inFlight[c][r])
           s == cam.station
       IN  /\ mCaMessages' = [mCaMessages EXCEPT ![r][s] = NewEntry(@, cam)]
           /\ newest' = [newest EXCEPT ![r][s] =
                IF @ = NoEntry THEN cam.generated ELSE AtLeast(@, cam.generated)]
    /\ inFlight' = [inFlight EXCEPT ![c][r] = Tail(@)]
    /\ UNCHANGED <<now, dynamics, updated, trcDelay, caVars, nextUpdate>>

(* A CAM is lost on the air.                                               *)
Lose(r, c) ==
    /\ inFlight[c][r] # << >>
    /\ inFlight' = [inFlight EXCEPT ![c][r] = Tail(@)]
    /\ UNCHANGED <<now, dynamics, updated, trcDelay, caVars, nextUpdate,
                   mCaMessages, newest>>

Next ==
    \/ Tick
    \/ \E s \in Senders : Move(s) \/ trigger(s)
    \/ \E c \in Channels \cup {CCH} : Throttle(c)
    \/ \E r \in Receivers : dropExpired(r)
    \/ \E r \in Receivers, c \in Channels : indicate(r, c) \/ Lose(r, c)

Spec == Init /\ [][Next]_vars

-----------------------------------------------------------------------------
(* Types of the variables. *)
TypeOK ==
    /\ now \in 0..MaxTime
    /\ CaTypeOK
    /\ nextUpdate \in [Stations -> now..(MaxTime + 2 * UpdateInterval)]
    /\ inFlight \in [Channels -> [Receivers -> Seq(Cams)]]
    /\ mCaMessages \in [Receivers -> [Senders -> Entries \cup {NoEntry}]]
    /\ newest \in [Receivers -> [Senders -> 0..MaxTime \cup {NoEntry}]]

(* No station is silent for longer than maxInterval and the one middleware *)
(* interval until the trigger that notices, whatever the vehicle does and  *)
(* whatever DCC asks for.                                                  *)
NeverSilent ==
    \A s \in Senders : T_elapsed(s) <= MaxInterval + UpdateInterval

(* Receivers can count on the low frequency container: from the start on,  *)
(* a CAM that has it is sent at least every LowFrequencyInterval and the   *)
(* longest silence of the station, however irregularly the vehicle and DCC *)
(* let CAMs be generated.                                                  *)
ContainerRegular ==
    \A s \in Senders :
        now - lastContainer[s] <= LowFrequencyInterval + MaxInterval + UpdateInterval

(* The expiry of an awareness entry is that of the CAM's true generation   *)
(* time: time stamps are resolved across a carry of the upper bits, and    *)
(* those too old to be resolved are refused.                               *)
MapTruthful ==
    \A r \in Receivers, s \in Senders : mCaMessages[r][s] # NoEntry =>
        mCaMessages[r][s].expiry = mCaMessages[r][s].generated + Lifetime

(* As long as the newest CAM received from a station is valid, the map     *)
(* holds that CAM (with one channel: a copy that comes late on another     *)
(* channel replaces a newer CAM).                                          *)
NewestKept ==
    \A r \in Receivers, s \in Senders :
        newest[r][s] # NoEntry /\ newest[r][s] + Lifetime >= now =>
            mCaMessages[r][s] # NoEntry /\ mCaMessages[r][s].generated = newest[r][s]
=============================================================================
