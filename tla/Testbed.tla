------------------------------ MODULE Testbed ------------------------------
(***************************************************************************)
(* Hardware in the loop: packets of a device under test (DUT) are received *)
(* by the USRP library's thread and put into the OtaIndicationQueue.  The  *)
(* simulation thread runs TestbedScheduler, which executes events at their *)
(* wall-clock time and empties the queue whenever it waits.  Packets are   *)
(* handed to the OtaInterfaceLayer of the physical twin, if there is one.  *)
(* All times are relative to the last executed event, because the code     *)
(* only looks at differences.                                              *)
(***************************************************************************)
EXTENDS Integers, Sequences, FiniteSets

CONSTANTS
    Layers,             \* OtaInterfaceLayer instances, each joins and leaves once
    NoLayer,            \* nullptr
    ConnectTimeout,     \* parameter connectTimeout: attempts, one a second
    OpenGpsd,           \* parameter openGpsdSocket
    Gaps,               \* time from one event of the simulation to the next
    MaxPackets,         \* bound: packets the DUT sends
    MaxLag              \* bound: how far the wall clock gets ahead

ASSUME LayersAssumption == NoLayer \notin Layers
ASSUME TimesAssumption ==
    /\ ConnectTimeout \in Nat /\ Gaps \subseteq Nat
    /\ Gaps # {} /\ MaxPackets \in Nat /\ MaxLag \in Nat
ASSUME OpenGpsdAssumption == OpenGpsd \in BOOLEAN

VARIABLES
    phase,              \* "connecting", "running" or "error"
    attempt,            \* c, connection attempts so far
    mConnectionOk,      \* set by the handler of the library's thread
    sent,               \* packets the DUT has sent
    mIndicationList,    \* packets queued for the simulation
    mNotified,
    mRegisteredModule,  \* the layer messages of the DUT go to, or NoLayer
    present,            \* layers that are in the simulation
    joined,             \* layers that ever were
    mGpsdTimer,         \* "none", "idle", "scheduled" or "deleted"
    fes,                \* future event set, in order of execution
    lead,               \* wall-clock time of simTime() minus present time
    pc,                 \* where the scheduler is in takeNextEvent
    init,               \* the event takeNextEvent waits for
    heard               \* last packet the twin's radio got

usrpVars == <<phase, attempt, mConnectionOk>>
queueVars == <<mIndicationList, mNotified>>
otaVars == <<mRegisteredModule, present, joined, mGpsdTimer>>
schedVars == <<fes, lead, pc, init, heard>>
vars == <<usrpVars, sent, queueVars, otaVars, schedVars>>

(* Events are work of the simulation or packets handed to a layer.         *)
Events ==
    [kind: {"work"}, after: Nat] \cup
    [kind: {"packet"}, after: {0}, id: 1 .. MaxPackets, to: Layers]

Work(gap) == [kind |-> "work", after |-> gap]
Packet(p) == [kind |-> "packet", after |-> 0, id |-> p, to |-> mRegisteredModule]

TypeOK ==
    /\ phase \in {"connecting", "running", "error"}
    /\ attempt \in 0 .. ConnectTimeout
    /\ mConnectionOk \in BOOLEAN /\ mNotified \in BOOLEAN
    /\ sent \in 0 .. MaxPackets /\ heard \in 0 .. MaxPackets
    /\ mIndicationList \in Seq(1 .. MaxPackets)
    /\ mRegisteredModule \in Layers \cup {NoLayer}
    /\ present \subseteq joined /\ joined \subseteq Layers
    /\ mGpsdTimer \in {"none", "idle", "scheduled", "deleted"}
    /\ fes \in Seq(Events) /\ init \in Events
    /\ lead \in Int /\ lead >= -MaxLag
    /\ pc \in {"take", "timing", "wait", "asleep", "again"}

Init ==
    /\ phase = "connecting" /\ attempt = 0 /\ mConnectionOk = FALSE
    /\ sent = 0 /\ mIndicationList = <<>> /\ mNotified = FALSE
    /\ mRegisteredModule = NoLayer /\ present = {} /\ joined = {}
    /\ mGpsdTimer = "none"
    /\ \E gap \in Gaps : fes = <<Work(gap)>> /\ init = Work(gap)
    /\ lead = 0 /\ pc = "take" /\ heard = 0

-----------------------------------------------------------------------------

(* The library's thread: the answer to connectToUsrp's request.            *)
Answer ==
    /\ phase = "connecting" /\ ~mConnectionOk
    /\ mConnectionOk' = TRUE
    /\ UNCHANGED <<phase, attempt, sent, queueVars, otaVars, schedVars>>

(* The simulation's thread in connectToUsrp: look, sleep a second, look    *)
(* again.  The GPSD server and its timer come after the connection.        *)
Poll ==
    /\ phase = "connecting"
    /\ \/ /\ attempt < ConnectTimeout /\ mConnectionOk
          /\ phase' = "running"
          /\ mGpsdTimer' = IF OpenGpsd THEN "idle" ELSE "none"
          /\ UNCHANGED attempt
       \/ /\ attempt < ConnectTimeout /\ ~mConnectionOk
          /\ attempt' = attempt + 1
          /\ UNCHANGED <<phase, mGpsdTimer>>
       \/ /\ attempt = ConnectTimeout
          /\ phase' = "error"
          /\ UNCHANGED <<attempt, mGpsdTimer>>
    /\ UNCHANGED <<mConnectionOk, mRegisteredModule, present, joined>>
    /\ UNCHANGED <<sent, queueVars, schedVars>>

(* Mutant: notify_one is forgotten.                                        *)
TriggerSilently ==
    /\ phase # "error" /\ sent < MaxPackets
    /\ sent' = sent + 1
    /\ mIndicationList' = Append(mIndicationList, sent')
    /\ mNotified' = TRUE
    /\ UNCHANGED <<usrpVars, otaVars, schedVars>>

(* The library's thread: notifyQueue and trigger.  A scheduler sleeping on *)
(* the condition variable wakes up and evaluates its predicate again.      *)
Trigger ==
    /\ phase # "error" /\ sent < MaxPackets
    /\ sent' = sent + 1
    /\ mIndicationList' = Append(mIndicationList, sent')
    /\ mNotified' = TRUE
    /\ pc' = IF pc = "asleep" THEN "wait" ELSE pc
    /\ UNCHANGED <<usrpVars, otaVars, fes, lead, init, heard>>

-----------------------------------------------------------------------------

(* The future event set, external: an event for a module that is gone is   *)
(* stale; events of the same time keep the order of their insertion.       *)
IsStale(e) == e.kind = "packet" /\ e.to \notin present
IsNow(e) == e.after = 0
IsLater(e) == e.after > 0

InsertNow(events) ==
    LET n == CHOOSE n \in 0 .. Len(fes) :
                 /\ \A m \in 1 .. n : IsNow(fes[m])
                 /\ \A m \in n + 1 .. Len(fes) : IsLater(fes[m])
    IN SubSeq(fes, 1, n) \o (events \o SubSeq(fes, n + 1, Len(fes)))

(* peekFirstNonStaleEvent: stale events at the front are deleted.          *)
NonStale ==
    SubSeq(fes, CHOOSE n \in 1 .. Len(fes) :
                    ~IsStale(fes[n]) /\ \A m \in 1 .. n - 1 : IsStale(fes[m]),
           Len(fes))

(* How long the scheduler has to wait for "init".                          *)
WaitTime == lead + init.after

(* Mutant: packets are sent after everything that is scheduled already.    *)
HandOverLast ==
    /\ fes' = IF mRegisteredModule # NoLayer
                THEN fes \o [n \in DOMAIN mIndicationList |-> Packet(mIndicationList[n])]
                ELSE fes
    /\ mIndicationList' = <<>>
    /\ mNotified' = FALSE

(* Mutant: the list is not cleared.                                        *)
HandOverAgain ==
    /\ fes' = IF mRegisteredModule # NoLayer
                THEN InsertNow([n \in DOMAIN mIndicationList |-> Packet(mIndicationList[n])])
                ELSE fes
    /\ mNotified' = FALSE
    /\ UNCHANGED mIndicationList

(* What flushQueue and waitFor do under the lock: packets go to the twin's *)
(* layer, which sends them at once, or nowhere if there is no twin.        *)
HandOver ==
    /\ fes' = IF mRegisteredModule # NoLayer
                THEN InsertNow([n \in DOMAIN mIndicationList |-> Packet(mIndicationList[n])])
                ELSE fes
    /\ mIndicationList' = <<>>
    /\ mNotified' = FALSE

(* takeNextEvent begins.                                                   *)
TakeNextEvent ==
    /\ phase = "running" /\ pc = "take"
    /\ fes' = NonStale
    /\ init' = Head(fes')
    /\ pc' = "timing"
    /\ UNCHANGED <<usrpVars, sent, queueVars, otaVars, lead, heard>>

(* doTiming up to the call of waitFor.  A late simulation does not look at *)
(* the queue; the cRuntimeError of a simulation that is too late is        *)
(* created but not thrown.                                                 *)
DoTiming ==
    /\ pc = "timing"
    /\ \/ WaitTime >= 0 /\ HandOver /\ pc' = "wait"
       \/ WaitTime < 0 /\ pc' = "again" /\ UNCHANGED <<fes, queueVars>>
    /\ UNCHANGED <<usrpVars, sent, otaVars, lead, init, heard>>

(* waitFor holds the lock: the predicate decides, then the time left.      *)
WaitFor ==
    /\ pc = "wait"
    /\ \/ mNotified /\ HandOver /\ pc' = "again"
       \/ ~mNotified /\ WaitTime <= 0 /\ pc' = "again" /\ UNCHANGED <<fes, queueVars>>
       \/ ~mNotified /\ WaitTime > 0 /\ pc' = "asleep" /\ UNCHANGED <<fes, queueVars>>
    /\ UNCHANGED <<usrpVars, sent, otaVars, lead, init, heard>>

(* Mutant: wait without a time limit.                                      *)
NoTimeout == FALSE /\ UNCHANGED vars

(* The time to wait is over: the predicate is evaluated once more.         *)
Timeout ==
    /\ pc = "asleep" /\ WaitTime <= 0
    /\ pc' = "wait"
    /\ UNCHANGED <<usrpVars, sent, queueVars, otaVars, fes, lead, init, heard>>

(* Another event has come first meanwhile: takeNextEvent's loop.           *)
LookAgain ==
    /\ pc = "again" /\ Head(NonStale) # init
    /\ fes' = NonStale
    /\ init' = Head(fes')
    /\ pc' = "timing"
    /\ UNCHANGED <<usrpVars, sent, queueVars, otaVars, lead, heard>>

(* The twin's radio driver gets a packet.                                  *)
ExecutePacket ==
    /\ pc = "again" /\ Head(NonStale) = init /\ init.kind = "packet"
    /\ fes' = Tail(NonStale)
    /\ heard' = init.id
    /\ pc' = "take"
    /\ UNCHANGED <<usrpVars, sent, queueVars, otaVars, lead, init>>

(* registerModule, when TestbedModuleMapper makes the one twin.  A second  *)
(* module would be ignored: the cRuntimeError is created but not thrown.   *)
(* Scheduling a deleted timer is undefined.                                *)
registerModule(l) ==
    /\ l \in Layers \ joined
    /\ present = {}
    /\ joined' = joined \cup {l}
    /\ present' = present \cup {l}
    /\ IF mRegisteredModule # NoLayer
         THEN UNCHANGED <<mRegisteredModule, mGpsdTimer, phase>>
         ELSE /\ mRegisteredModule' = l
              /\ mGpsdTimer' = IF mGpsdTimer = "idle" THEN "scheduled" ELSE mGpsdTimer
              /\ phase' \in IF mGpsdTimer = "deleted" THEN {"running", "error"} ELSE {phase}

(* Mutant: the layer stays registered.                                     *)
unregisterNothing(l) ==
    /\ l \in present
    /\ present' = present \ {l}
    /\ mGpsdTimer' = IF mGpsdTimer = "none" THEN "none" ELSE "deleted"
    /\ UNCHANGED <<mRegisteredModule, joined, phase>>

(* unregisterModule in the finish() of a layer, which is then deleted.     *)
(* Nobody asks whether this layer was the one that is registered.          *)
unregisterModule(l) ==
    /\ l \in present
    /\ present' = present \ {l}
    /\ mRegisteredModule' = NoLayer
    /\ mGpsdTimer' = IF mGpsdTimer = "none" THEN "none" ELSE "deleted"
    /\ UNCHANGED <<joined, phase>>

(* Some event of the simulation, which may create or delete a layer.       *)
ExecuteWork ==
    /\ pc = "again" /\ Head(NonStale) = init /\ init.kind = "work"
    /\ \E gap \in Gaps : fes' = Append(Tail(NonStale), Work(gap))
    /\ lead' = lead + init.after
    /\ pc' = "take"
    /\ \/ UNCHANGED <<otaVars, phase>>
       \/ \E l \in Layers : registerModule(l)
       \/ \E l \in Layers : unregisterModule(l)
    /\ UNCHANGED <<attempt, mConnectionOk, sent, queueVars, init, heard>>

(* The user resumes a paused simulation.                                   *)
ExecutionResumed ==
    /\ phase = "running" /\ pc = "take" /\ lead # 0
    /\ lead' = 0
    /\ UNCHANGED <<usrpVars, sent, queueVars, otaVars, fes, pc, init, heard>>

(* The wall clock.  It goes on at the bound, where no lag is told from a   *)
(* greater one.                                                            *)
Tick ==
    /\ phase # "error"
    /\ lead' = IF lead > -MaxLag THEN lead - 1 ELSE lead
    /\ UNCHANGED <<usrpVars, sent, queueVars, otaVars, fes, pc, init, heard>>

Scheduler ==
    \/ TakeNextEvent \/ DoTiming \/ WaitFor \/ Timeout
    \/ LookAgain \/ ExecutePacket \/ ExecuteWork

Stopped == phase = "error" /\ UNCHANGED vars

Next ==
    \/ Answer \/ Poll \/ Trigger \/ Scheduler
    \/ ExecutionResumed \/ Tick \/ Stopped

Spec == Init /\ [][Next]_vars

(* Both threads keep running and time passes.                              *)
FairSpec == Spec /\ WF_vars(Poll) /\ WF_vars(phase = "running" /\ Scheduler) /\ WF_vars(Tick)

-----------------------------------------------------------------------------

(* Packets between the DUT and the twin's radio.                           *)
IsForTwin(e) == e.kind = "packet" /\ e.to \in present
Handed == {fes[n].id : n \in {m \in DOMAIN fes : IsForTwin(fes[m])}}
Underway == Handed \cup {mIndicationList[n] : n \in DOMAIN mIndicationList}

(* No wake-up gets lost between the two threads: the scheduler never       *)
(* sleeps while OtaIndicationQueue holds a packet.                         *)
NoSleepOnPackets == pc = "asleep" => mIndicationList = <<>>

(* Through both threads, the queue, flushing, waiting and the event set,   *)
(* packets reach the twin as DutLink promises.                             *)
Link == INSTANCE DutLink
    WITH underway <- Underway, twin <- mRegisteredModule # NoLayer
LinkKept == Link!Spec

(* The simulation never overtakes the wall clock: TestbedScheduler waits   *)
(* for the next event.                                                     *)
NeverAhead == lead <= 0

(* It does not if the DUT only talks while its twin is there: then every   *)
(* early end of waitFor comes with packets to execute first.               *)
OnTimeWithTwin ==
    [](mIndicationList # <<>> => mRegisteredModule # NoLayer) => []NeverAhead

(* The connection attempt ends, and then takeNextEvent always returns: no  *)
(* wait of the scheduler lasts forever.                                    *)
SimulationProceeds ==
    []<>(phase = "error" \/ (phase = "running" /\ pc = "take"))

(* Unless the simulation is late for good, so that it does not get to      *)
(* waitFor any more, every packet is heard or lost eventually.             *)
PacketsTaken ==
    []<>(pc = "wait") =>
      \A p \in 1 .. MaxPackets : (p \in Underway) ~> (p \notin Underway)

=============================================================================
