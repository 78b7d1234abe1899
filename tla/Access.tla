------------------------------- MODULE Access -------------------------------
(***************************************************************************)
(* What happens below a service that sends: the router of Vanetza with its *)
(* beacons and its repeater, the flow control of congestion control (set up*)
(* by networking/DccEntityBase.cc and its variants), and the Runtime whose *)
(* callbacks they use.                                                     *)
(*                                                                         *)
(* Asking the runtime for the time, scheduling and cancelling may each run *)
(* callbacks in the middle of the function that calls them.  The functions *)
(* are therefore cut at these calls: agenda is the stack of what is still  *)
(* to be done until the current event of the simulation has been handled,  *)
(* and one step does what is on its top.  Time never ends: all times are   *)
(* relative to the current one.                                            *)
(***************************************************************************)
EXTENDS Runtime, Sequences

CONSTANTS
    RateControls,       \* congestion control variants: do they limit the rate?
    Interval,           \* of transmissions, by state of the state machine
    MaxInterval,        \* the longest of them
    QueueLength,        \* NED parameter of the DCC entity, 0: no limit
    Categories,         \* access categories, a greater one has priority
    BeaconCategory, ShbCategory, GbcCategory,
    Lifetime,           \* of packets
    BeaconInterval, BeaconJitter,
    Repetitions,        \* interval and duration that services ask for
    MaxRepeated,        \* bound: packets that are repeated at a time
    Step                \* of the traffic simulation, 100 ms

ASSUME AccessAssumption ==
    /\ RateControls \subseteq BOOLEAN
    /\ Len(Interval) \in Nat \ {0} /\ Interval \in [1..Len(Interval) -> 1..MaxInterval]
    /\ Categories \subseteq Nat /\ {BeaconCategory, ShbCategory, GbcCategory} \subseteq Categories
    /\ {MaxInterval, QueueLength, Lifetime, BeaconJitter, MaxRepeated} \subseteq Nat
    /\ {BeaconInterval, Step} \subseteq Nat \ {0}
    /\ Repetitions \subseteq [interval : Nat, maximum : Nat]

VARIABLES
    rt,         \* the runtime
    agenda,     \* calls still to be made for the current event
    queues,     \* flow control: time until they expire, of the packets that wait
    elapsed,    \* rate control: time since the last transmission, up to MaxInterval
    level,      \* rate control: state of the state machine
    limited,    \* congestion control limits the rate
    cycle,      \* time until the next step of the traffic simulation
    pending     \* the current step has not reached this vehicle

vars == <<rt, agenda, queues, elapsed, level, limited, cycle, pending>>

Beacon == "beacon"              \* scope of the router
Repetition == "repetition"      \* scope of the repeater
Flow == "flow"                  \* scope of the flow control

-----------------------------------------------------------------------------
(* The calls on the agenda.                                                *)
TriggerCall == [call |-> "trigger"]             \* ManualRuntime::trigger
ScheduleCall == [call |-> "schedule"]           \* Runtime::schedule
CancelBeaconCall == [call |-> "cancel"]         \* Router::reset_beacon_timer
StartBeaconCall == [call |-> "start"]           \* its second half
AddCall(repetition) == [call |-> "add", repetition |-> repetition]    \* Repeater::add
FlowTriggerCall == [call |-> "flow"]            \* FlowControl::trigger
RequestCall(category) == [call |-> "request", category |-> category]  \* FlowControl::request
(* FlowControl::request after the time of the last transmission was read.  *)
DecideCall(category, last) == [call |-> "decide", category |-> category, last |-> last]

Idle == agenda = <<>>
Top(name) == ~Idle /\ Head(agenda).call = name
Return == agenda' = Tail(agenda)
ReturnTo(calls) == agenda' = calls \o Tail(agenda)

-----------------------------------------------------------------------------
(* The router and its repeater.                                            *)
HasFurther(repetition) ==
    /\ repetition.maximum > 0 /\ repetition.interval > 0
    /\ repetition.maximum >= repetition.interval

DecrementByOne(repetition) ==
    IF repetition.maximum > repetition.interval
    THEN repetition.maximum - repetition.interval ELSE 0

(* Router::request: the packet is handed to the repeater first.            *)
GbcCalls(repetition) ==
    IF HasFurther(repetition)
    THEN <<AddCall(repetition), RequestCall(GbcCategory)>> ELSE <<RequestCall(GbcCategory)>>
ShbCalls == <<RequestCall(ShbCategory), CancelBeaconCall>>

OnBeaconTimerExpired == <<RequestCall(BeaconCategory), CancelBeaconCall>>

(* Repeater::trigger without the delay of the callback.                    *)
UndelayedRepeaterTrigger(c) ==
    GbcCalls([c.bound EXCEPT !.maximum = DecrementByOne(c.bound)])
(* Repeater::trigger: what is left of the duration, less the delay.        *)
RepeaterTrigger(c) ==
    GbcCalls([c.bound EXCEPT !.maximum = DecrementByOne(c.bound) - (Now(rt) - c.due)])

Callback(c) ==
    CASE c.scope = Beacon -> OnBeaconTimerExpired
      [] c.scope = Flow -> <<FlowTriggerCall>>
      [] c.scope = Repetition -> RepeaterTrigger(c)

NoRepetition == [interval |-> 0, maximum |-> 0, ends |-> 0]

-----------------------------------------------------------------------------
(* The clock and the queue of callbacks.                                   *)
AskNow ==
    /\ rt' = SetClock(rt)
    /\ UNCHANGED <<queues, elapsed, level, limited, cycle>>

(* ManualRuntime::trigger: the callbacks that are due, one after the other.*)
Trigger ==
    /\ Top("trigger")
    /\ \/ /\ \A c \in rt.queue : ~IsDue(rt, c)
          /\ Return /\ rt' = rt
       \/ \E c \in rt.queue :
            /\ IsNext(rt, c) /\ IsDue(rt, c)
            /\ rt' = Take(rt, c)
            /\ agenda' = Callback(c) \o agenda
    /\ UNCHANGED <<queues, elapsed, level, limited, cycle, pending>>

(* The private schedule() that does not run what is due.                   *)
PollingSchedule ==
    /\ Top("schedule")
    /\ \/ rt.queue = {} /\ Return /\ rt' = rt
       \/ \E c \in rt.queue :
            /\ IsNext(rt, c)
            /\ IF IsDue(rt, c) THEN agenda' = agenda /\ rt' = rt
               ELSE Return /\ rt' = SetEvent(rt, c)
    /\ UNCHANGED <<queues, elapsed, level, limited, cycle, pending>>
(* The private schedule(): what is due by the clock of the queue is run    *)
(* first; an empty queue leaves the event as it is.                        *)
Schedule ==
    /\ Top("schedule")
    /\ \/ rt.queue = {} /\ Return /\ rt' = rt
       \/ \E c \in rt.queue :
            /\ IsNext(rt, c)
            /\ IF IsDue(rt, c) THEN agenda' = <<TriggerCall>> \o agenda /\ rt' = rt
               ELSE Return /\ rt' = SetEvent(rt, c)
    /\ UNCHANGED <<queues, elapsed, level, limited, cycle, pending>>

(* reset_beacon_timer: every beacon is cancelled, and the next one set.    *)
CancelBeacon ==
    /\ Top("cancel")
    /\ rt' = Cancel(rt, Beacon)
    /\ ReturnTo(<<ScheduleCall, StartBeaconCall>>)
    /\ UNCHANGED <<queues, elapsed, level, limited, cycle, pending>>

StartBeacon ==
    /\ Top("start")
    /\ \E jitter \in 0..BeaconJitter :
         rt' = InsertIn(rt, Beacon, BeaconInterval + jitter, NoRepetition)
    /\ ReturnTo(<<ScheduleCall>>)
    /\ UNCHANGED <<queues, elapsed, level, limited, cycle, pending>>

(* Repeater::add asks for the time.                                        *)
Add ==
    /\ Top("add")
    /\ IF rt.stale > 0 THEN AskNow /\ agenda' = <<TriggerCall>> \o agenda
       ELSE LET repetition == Head(agenda).repetition
            IN  /\ rt' = Insert(rt, Repetition, Now(rt) + repetition.interval, repetition)
                /\ ReturnTo(<<ScheduleCall>>)
                /\ UNCHANGED <<queues, elapsed, level, limited, cycle>>
    /\ UNCHANGED pending

-----------------------------------------------------------------------------
(* Flow control.                                                           *)
Fresh(expiry) == expiry >= Now(rt)
DropExpired ==
    [k \in Categories |-> IF \A i \in 1..Len(queues[k]) : Fresh(queues[k][i]) THEN queues[k]
                          ELSE SelectSeq(queues[k], Fresh)]

AllEmpty(packets) == \A k \in Categories : packets[k] = <<>>

(* SingleReactiveTransmitRateControl::delay, or no control at all.         *)
Delay(last) == IF limited /\ Interval[level] > last THEN Interval[level] - last ELSE 0

(* A full queue loses its oldest packets.                                  *)
Shortened(packets) ==
    IF QueueLength = 0 \/ Len(packets) < QueueLength THEN packets
    ELSE SubSeq(packets, Len(packets) - QueueLength + 2, Len(packets))

(* The callback is set for the first packet only.                          *)
Enqueue(packets, category) ==
    /\ queues' = [packets EXCEPT ![category] = Append(Shortened(@), Now(rt) + Lifetime)]
    /\ elapsed' = elapsed
    /\ IF AllEmpty(packets)
       THEN /\ rt' = InsertIn(rt, Flow, Delay(elapsed), NoRepetition)
            /\ ReturnTo(<<ScheduleCall>>)
       ELSE rt' = rt /\ Return

Transmit(packets) == queues' = packets /\ elapsed' = 0 /\ rt' = rt /\ Return

(* FlowControl::request.  Without rate control nobody asks for the time.   *)
(* Otherwise the first call that does is drop_expired, if a packet waits,  *)
(* or delay, which has read the time of the last transmission by then.     *)
Request ==
    /\ Top("request")
    /\ LET category == Head(agenda).category
       IN  \/ /\ limited /\ rt.stale > 0
              /\ rt' = SetClock(rt) /\ UNCHANGED <<queues, elapsed>>
              /\ ReturnTo(<<TriggerCall, IF AllEmpty(queues) THEN DecideCall(category, elapsed)
                                         ELSE RequestCall(category)>>)
           \/ /\ limited => rt.stale = 0
              /\ IF /\ \A k \in Categories : k >= category => DropExpired[k] = <<>>
                    /\ Delay(elapsed) = 0
                 THEN Transmit(DropExpired)
                 ELSE Enqueue(DropExpired, category)
    /\ UNCHANGED <<level, limited, cycle, pending>>

Decide ==
    /\ Top("decide")
    /\ LET call == Head(agenda)
       IN  IF Delay(call.last) = 0 THEN Transmit(queues) ELSE Enqueue(queues, call.category)
    /\ UNCHANGED <<level, limited, cycle, pending>>

(* next_queue: the delay is the same for all of them, and they are ordered *)
(* by category.                                                            *)
IsNextQueue(packets, k) ==
    packets[k] # <<>> /\ \A h \in Categories : packets[h] # <<>> => h <= k

(* FlowControl::trigger that forgets to come again.                        *)
FlowTriggerOnce ==
    /\ Top("flow")
    /\ \/ AllEmpty(DropExpired) /\ queues' = DropExpired /\ elapsed' = elapsed /\ rt' = rt /\ Return
       \/ \E k \in Categories :
            IsNextQueue(DropExpired, k) /\ Transmit([DropExpired EXCEPT ![k] = Tail(@)])
    /\ UNCHANGED <<level, limited, cycle, pending>>
(* FlowControl::trigger.                                                   *)
FlowTrigger ==
    /\ Top("flow")
    /\ \/ AllEmpty(DropExpired) /\ queues' = DropExpired /\ elapsed' = elapsed /\ rt' = rt /\ Return
       \/ \E k \in Categories :
            /\ IsNextQueue(DropExpired, k)
            /\ LET left == [DropExpired EXCEPT ![k] = Tail(@)]
               IN  IF AllEmpty(left) THEN Transmit(left)
                   ELSE /\ queues' = left /\ elapsed' = 0
                        /\ rt' = InsertIn(rt, Flow, Delay(0), NoRepetition)
                        /\ ReturnTo(<<ScheduleCall>>)
    /\ UNCHANGED <<level, limited, cycle, pending>>

-----------------------------------------------------------------------------
(* The router has set its beacon when it was made: the first one if that   *)
(* is deferred, otherwise the one after the first.                         *)
Init ==
    /\ \E first \in 1..BeaconInterval + BeaconJitter :
        rt = [InsertIn(Started, Beacon, first, NoRepetition) EXCEPT !.event = first]
    /\ agenda = <<>>
    /\ queues = [k \in Categories |-> <<>>] /\ elapsed = MaxInterval
    /\ level = 1 /\ limited \in RateControls
    /\ cycle = Step /\ pending = FALSE

(* Runtime::handleMessage.                                                 *)
HandleUpdateEvent ==
    /\ Idle /\ rt.event = 0
    /\ rt' = [SetClock(rt) EXCEPT !.event = NotScheduled]
    /\ agenda' = <<TriggerCall, ScheduleCall>>
    /\ UNCHANGED <<queues, elapsed, level, limited, cycle, pending>>

(* The fix takes its time stamp from elsewhere.                            *)
UpdatePositionUnasked ==
    /\ Idle /\ pending
    /\ pending' = FALSE
    /\ UNCHANGED <<rt, agenda, queues, elapsed, level, limited, cycle>>
(* VehiclePositionProvider::updatePosition in a step of the traffic        *)
(* simulation: the time stamp of the fix is asked from the runtime.        *)
UpdatePosition ==
    /\ Idle /\ pending
    /\ AskNow
    /\ agenda' = IF rt.stale > 0 THEN <<TriggerCall>> ELSE <<>>
    /\ pending' = FALSE

(* A frame arrives, for whose location table entry the router asks for the *)
(* time.                                                                   *)
Indicate ==
    /\ Idle /\ rt.stale > 0
    /\ AskNow
    /\ agenda' = <<TriggerCall>>
    /\ UNCHANGED pending

(* A service sends a single-hop packet, such as a CAM.                     *)
RequestShb ==
    /\ Idle /\ agenda' = ShbCalls
    /\ UNCHANGED <<rt, queues, elapsed, level, limited, cycle, pending>>

(* A service sends a packet to an area, such as a DENM, maybe repeatedly.  *)
(* It is remembered when the duration it asks for ends.                    *)
RequestGbc ==
    /\ Idle
    /\ Cardinality({c \in rt.queue : c.scope = Repetition}) < MaxRepeated
    /\ \E r \in Repetitions :
         agenda' = GbcCalls([interval |-> r.interval, maximum |-> r.maximum, ends |-> r.maximum])
    /\ UNCHANGED <<rt, queues, elapsed, level, limited, cycle, pending>>

(* A report of the channel load: the state machine goes to a neighbouring  *)
(* state or stays.                                                         *)
ReportChannelLoad ==
    /\ Idle /\ limited
    /\ \E k \in {level - 1, level + 1} : k \in DOMAIN Interval /\ level' = k
    /\ UNCHANGED <<rt, agenda, queues, elapsed, limited, cycle, pending>>

(* Time passes when all events of the current time have been handled.      *)
Elapsed(c) ==
    [scope |-> c.scope, due |-> c.due - 1, nth |-> c.nth,
     bound |-> IF c.scope = Repetition THEN [c.bound EXCEPT !.ends = @ - 1] ELSE c.bound]

Tick ==
    /\ Idle /\ rt.event # 0 /\ ~pending
    /\ rt' = [stale |-> rt.stale + 1,
              queue |-> {Elapsed(c) : c \in rt.queue},
              event |-> IF rt.event = NotScheduled THEN NotScheduled ELSE rt.event - 1]
    /\ queues' = [k \in Categories |-> [i \in DOMAIN queues[k] |-> queues[k][i] - 1]]
    /\ elapsed' = IF elapsed < MaxInterval THEN elapsed + 1 ELSE elapsed
    /\ cycle' = IF cycle = 1 THEN Step ELSE cycle - 1
    /\ pending' = (cycle = 1)
    /\ UNCHANGED <<agenda, level, limited>>

Execute ==
    Trigger \/ Schedule \/ CancelBeacon \/ StartBeacon \/ Add \/ Request \/ Decide \/ FlowTrigger

Next ==
    \/ Execute
    \/ HandleUpdateEvent \/ UpdatePosition \/ Indicate \/ RequestShb \/ RequestGbc
    \/ ReportChannelLoad \/ Tick

(* A function that is running goes on.                                     *)
Spec == Init /\ [][Next]_vars /\ WF_vars(Execute)

-----------------------------------------------------------------------------
(* Whenever the simulation goes on, a callback of Vanetza that waits will  *)
(* be woken up for by the runtime's event, and none is late by as much as  *)
(* a step of the traffic simulation: Runtime::schedule converts times with *)
(* a clock that may be stale, which postpones the event, but asking for the*)
(* time in a step makes up for it.  By the clock of the queue nothing is   *)
(* due, as Runtime::now asserts.                                           *)
CallbacksInTime ==
    Idle =>
        /\ rt.queue # {} => rt.event # NotScheduled
        /\ \A c \in rt.queue : c.due > 0 - Step /\ ConvertSimTime(rt, c.due) > 0

(* A packet that waits in flow control is not forgotten: a callback of flow*)
(* control waits with it, although packets expire, are replaced and        *)
(* overtaken, and only the first one sets the callback.                    *)
PacketsServed ==
    Idle => (AllEmpty(queues) \/ \E c \in rt.queue : c.scope = Flow)

(* No packet is due to be repeated after the duration its request asked    *)
(* for, however late its earlier repetitions were.                         *)
RepetitionsFit == \A c \in rt.queue : c.scope = Repetition => c.due <= c.bound.ends

(* The functions of Vanetza return: callbacks that run in the middle of    *)
(* others and schedule more of them come to an end.                        *)
UpdatesEnd == ~Idle ~> Idle
=============================================================================
