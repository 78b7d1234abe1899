---------------------------- MODULE AccessProofs ----------------------------
(***************************************************************************)
(* Proofs about Access for all intervals, queue lengths, categories and    *)
(* step lengths: callbacks are in time, packets that wait are served, and  *)
(* repetitions fit into their duration.                                    *)
(***************************************************************************)
EXTENDS Access, SequenceTheorems, TLAPS

(* Types, as far as the proofs need them.                                  *)
AnyRepetition == [interval : Nat, maximum : Int, ends : Int]
AnyCall ==
    {TriggerCall, ScheduleCall, CancelBeaconCall, StartBeaconCall, FlowTriggerCall}
        \cup [call : {"add"}, repetition : AnyRepetition]
        \cup [call : {"request"}, category : Categories]
        \cup [call : {"decide"}, category : Categories, last : Nat]

QueueOK(queue) ==
    \A c \in queue :
        c.scope \in {Beacon, Repetition, Flow} /\ c.due \in Int /\ c.bound \in AnyRepetition

TypesOK ==
    /\ rt \in [stale : Nat, queue : {rt.queue}, event : Nat \cup {NotScheduled}]
    /\ QueueOK(rt.queue)
    /\ agenda \in Seq(AnyCall)
    /\ elapsed \in Nat /\ level \in 1..Len(Interval)
    /\ cycle \in 1..Step /\ pending \in BOOLEAN

(* What is on the agenda, whatever its order.                              *)
Calls(s) == {s[i] : i \in 1..Len(s)}
Waiting == Calls(agenda)

(* Somebody will look for callbacks that are due.                          *)
Wakes(calls) == \E call \in calls : call.call \in {"trigger", "schedule"}

(* Only after the clock has been set may callbacks be due, and then they   *)
(* will be run; so nothing is due by a stale clock.                        *)
NothingMissed ==
    \/ \A c \in rt.queue : c.due > Now(rt)
    \/ rt.stale = 0 /\ Wakes(Waiting)

(* The event is set, or will be.                                           *)
EventSet ==
    \/ rt.queue = {} \/ rt.event # NotScheduled
    \/ \E call \in Waiting : call.call = "schedule"

(* Every step of the traffic simulation sets the clock.                    *)
ClockBound == rt.stale <= IF pending THEN Step ELSE Step - cycle

(* These go on with the clock set.                                         *)
DecidedFresh == \A call \in Waiting : call.call \in {"decide", "flow"} => rt.stale = 0

(* Packets that wait have a callback, or it is running.                    *)
FlowSet ==
    \/ AllEmpty(queues) \/ \E c \in rt.queue : c.scope = Flow
    \/ \E call \in Waiting : call.call = "flow"

(* What remains of the duration of a repeated packet ends when it should:  *)
(* counted from its next repetition, or from now if it is not set yet.     *)
DurationsKept ==
    /\ \A c \in rt.queue : c.scope = Repetition =>
          HasFurther(c.bound) /\ c.due + c.bound.maximum - c.bound.interval = c.bound.ends
    /\ \A call \in Waiting : call.call = "add" =>
          HasFurther(call.repetition) /\ call.repetition.maximum = call.repetition.ends

Inv ==
    /\ TypesOK /\ NothingMissed /\ EventSet /\ ClockBound /\ DecidedFresh /\ FlowSet
    /\ DurationsKept

-----------------------------------------------------------------------------
(* The agenda as a set.                                                    *)
LEMMA CallsOfTail ==
    ASSUME NEW S, NEW s \in Seq(S), s # <<>>
    PROVE  Head(s) \in S /\ Tail(s) \in Seq(S) /\ Calls(s) = {Head(s)} \cup Calls(Tail(s))
<1>1. Head(s) \in S /\ Tail(s) \in Seq(S) /\ Len(s) \in Nat \ {0}
  OBVIOUS
<1>2. Len(Tail(s)) = Len(s) - 1 /\ \A i \in 1..Len(s) - 1 : Tail(s)[i] = s[i + 1]
  OBVIOUS
<1>3. Head(s) = s[1]
  OBVIOUS
<1>4. \A x : x \in Calls(s) <=> x = Head(s) \/ x \in Calls(Tail(s))
  <2>1. \A x : x \in Calls(s) => x = Head(s) \/ x \in Calls(Tail(s))
    <3> SUFFICES ASSUME NEW i \in 1..Len(s), s[i] # Head(s) PROVE s[i] \in Calls(Tail(s))
      BY DEF Calls
    <3>1. i - 1 \in 1..Len(Tail(s)) /\ Tail(s)[i - 1] = s[i]
      BY <1>1, <1>2, <1>3
    <3> QED  BY <3>1 DEF Calls
  <2>2. \A x : x = Head(s) => x \in Calls(s)
    BY <1>1, <1>3 DEF Calls
  <2>3. \A x : x \in Calls(Tail(s)) => x \in Calls(s)
    <3> SUFFICES ASSUME NEW i \in 1..Len(Tail(s)) PROVE Tail(s)[i] \in Calls(s)
      BY DEF Calls
    <3>1. i + 1 \in 1..Len(s) /\ Tail(s)[i] = s[i + 1]
      BY <1>1, <1>2
    <3> QED  BY <3>1 DEF Calls
  <2> QED  BY <2>1, <2>2, <2>3
<1> QED  BY <1>1, <1>4

LEMMA CallsOfPush ==
    ASSUME NEW S, NEW s \in Seq(S), NEW a \in S
    PROVE  <<a>> \o s \in Seq(S) /\ Calls(<<a>> \o s) = {a} \cup Calls(s)
<1> DEFINE p == <<a>> \o s
<1>1. p \in Seq(S) /\ p # <<>>
  BY ConcatProperties
<1>2. Head(p) = a /\ Tail(p) = s
  OBVIOUS
<1> QED  BY <1>1, <1>2, CallsOfTail

LEMMA CallsOfTwo ==
    ASSUME NEW S, NEW s \in Seq(S), NEW a \in S, NEW b \in S
    PROVE  <<a, b>> \o s \in Seq(S) /\ Calls(<<a, b>> \o s) = {a, b} \cup Calls(s)
<1> DEFINE p == <<a, b>> \o s
<1>1. <<b>> \o s \in Seq(S) /\ Calls(<<b>> \o s) = {b} \cup Calls(s)
  BY CallsOfPush
<1>2. p \in Seq(S) /\ p # <<>>
  BY ConcatProperties
<1>3. Head(p) = a /\ Tail(p) = <<b>> \o s
  OBVIOUS
<1>4. Calls(p) = {Head(p)} \cup Calls(Tail(p))
  BY <1>2, CallsOfTail
<1> QED  BY <1>1, <1>2, <1>3, <1>4

LEMMA NoCalls == Calls(<<>>) = {}
BY DEF Calls

(* Nothing is left of an empty queue.                                      *)
LEMMA EmptyKept ==
    ASSUME NEW k \in Categories, queues[k] = <<>>
    PROVE  DropExpired[k] = <<>>
<1>1. \A i \in 1..Len(queues[k]) : Fresh(queues[k][i])
  OBVIOUS
<1> QED  BY <1>1 DEF DropExpired

LEMMA ConstantTypes ==
    /\ BeaconInterval \in Nat \ {0} /\ Step \in Nat \ {0}
    /\ BeaconJitter \in Nat /\ Lifetime \in Nat /\ MaxInterval \in Nat
    /\ BeaconCategory \in Categories /\ ShbCategory \in Categories /\ GbcCategory \in Categories
    /\ 1 \in 1..Len(Interval)
    /\ \A k \in 1..Len(Interval) : Interval[k] \in Nat \ {0}
    /\ DOMAIN Interval = 1..Len(Interval)
    /\ \A r \in Repetitions : r.interval \in Nat /\ r.maximum \in Nat
<1>1. /\ BeaconInterval \in Nat \ {0} /\ Step \in Nat \ {0}
      /\ BeaconJitter \in Nat /\ Lifetime \in Nat /\ MaxInterval \in Nat
      /\ BeaconCategory \in Categories /\ ShbCategory \in Categories /\ GbcCategory \in Categories
  BY AccessAssumption
<1>2. Len(Interval) \in Nat \ {0} /\ Interval \in [1..Len(Interval) -> 1..MaxInterval]
  BY AccessAssumption
<1>3. \A r \in Repetitions : r.interval \in Nat /\ r.maximum \in Nat
  BY AccessAssumption
<1> QED  BY <1>1, <1>2, <1>3

(* What the calls carry, and that they are calls.                          *)
LEMMA CallKinds ==
    /\ \A call \in AnyCall :
         /\ call.call = "add" => call.repetition \in AnyRepetition
         /\ call.call \in {"request", "decide"} => call.category \in Categories
    /\ {TriggerCall, ScheduleCall, CancelBeaconCall, StartBeaconCall, FlowTriggerCall}
          \subseteq AnyCall
    /\ \A r \in AnyRepetition : AddCall(r) \in AnyCall
    /\ \A k \in Categories : RequestCall(k) \in AnyCall
    /\ \A k \in Categories, last \in Nat : DecideCall(k, last) \in AnyCall
BY DEF AnyCall, TriggerCall, ScheduleCall, CancelBeaconCall, StartBeaconCall, FlowTriggerCall,
       AddCall, RequestCall, DecideCall

LEMMA CallNames ==
    /\ TriggerCall.call = "trigger" /\ ScheduleCall.call = "schedule"
    /\ CancelBeaconCall.call = "cancel" /\ StartBeaconCall.call = "start"
    /\ FlowTriggerCall.call = "flow"
    /\ \A r : AddCall(r).call = "add" /\ AddCall(r).repetition = r
    /\ \A k : RequestCall(k).call = "request"
    /\ \A k, last : DecideCall(k, last).call = "decide"
BY DEF TriggerCall, ScheduleCall, CancelBeaconCall, StartBeaconCall, FlowTriggerCall,
       AddCall, RequestCall, DecideCall

(* The call on top and the ones below it.                                  *)
Below == Calls(Tail(agenda))

LEMMA TopOfAgenda ==
    ASSUME TypesOK, ~Idle
    PROVE  /\ Head(agenda) \in AnyCall /\ Tail(agenda) \in Seq(AnyCall)
           /\ Waiting = {Head(agenda)} \cup Below
BY CallsOfTail DEF TypesOK, Idle, Waiting, Below

LEMMA ReturnEffect ==
    ASSUME TypesOK, ~Idle, Return
    PROVE  agenda' \in Seq(AnyCall) /\ Waiting' = Below
BY TopOfAgenda DEF Return, Waiting, Below

LEMMA ReturnToEffect ==
    ASSUME TypesOK, ~Idle, NEW a \in AnyCall, ReturnTo(<<a>>)
    PROVE  agenda' \in Seq(AnyCall) /\ Waiting' = {a} \cup Below
BY TopOfAgenda, CallsOfPush DEF ReturnTo, Waiting, Below

LEMMA ReturnToTwoEffect ==
    ASSUME TypesOK, ~Idle, NEW a \in AnyCall, NEW b \in AnyCall, ReturnTo(<<a, b>>)
    PROVE  agenda' \in Seq(AnyCall) /\ Waiting' = {a, b} \cup Below
<1> DEFINE rest == Tail(agenda)
<1>1. agenda' = <<a, b>> \o rest /\ rest \in Seq(AnyCall) /\ Below = Calls(rest)
  BY TopOfAgenda DEF ReturnTo, Below
<1> HIDE DEF rest
<1>2. Calls(<<a, b>> \o rest) = {a, b} \cup Calls(rest) /\ <<a, b>> \o rest \in Seq(AnyCall)
  BY <1>1, CallsOfTwo
<1> QED  BY <1>1, <1>2 DEF Waiting

LEMMA PushEffect ==
    ASSUME TypesOK, NEW a \in AnyCall, agenda' = <<a>> \o agenda
    PROVE  agenda' \in Seq(AnyCall) /\ Waiting' = {a} \cup Waiting
BY CallsOfPush DEF TypesOK, Waiting

LEMMA PushTwoEffect ==
    ASSUME TypesOK, NEW a \in AnyCall, NEW b \in AnyCall, agenda' = <<a, b>> \o agenda
    PROVE  agenda' \in Seq(AnyCall) /\ Waiting' = {a, b} \cup Waiting
BY CallsOfTwo DEF TypesOK, Waiting

(* The queue after an insertion.                                           *)
LEMMA InsertEffect ==
    ASSUME TypesOK, NEW scope, NEW due, NEW bound, rt' = Insert(rt, scope, due, bound)
    PROVE  /\ rt'.stale = rt.stale /\ rt'.event = rt.event
           /\ rt' \in [stale : Nat, queue : {rt'.queue}, event : Nat \cup {NotScheduled}]
           /\ \E new : /\ rt'.queue = rt.queue \cup {new}
                       /\ new.scope = scope /\ new.due = due /\ new.bound = bound
<1> DEFINE new == [scope |-> scope, due |-> due, nth |-> NextNumber(rt.queue, due), bound |-> bound]
<1>1. rt' = [rt EXCEPT !.queue = @ \cup {new}]
  BY DEF Insert
<1>2. new.scope = scope /\ new.due = due /\ new.bound = bound
  OBVIOUS
<1> HIDE DEF new
<1> QED  BY <1>1, <1>2 DEF TypesOK

-----------------------------------------------------------------------------
(* One lemma per step of the functions of Vanetza.                         *)
LEMMA TriggerStep ==
    ASSUME Inv, Trigger
    PROVE  Inv'
<1> USE DEF Inv
<1>1. TypesOK /\ ~Idle /\ Head(agenda).call = "trigger"
  BY DEF Trigger, Top
<1>2. Waiting = {Head(agenda)} \cup Below
  BY <1>1, TopOfAgenda
<1>3. UNCHANGED <<queues, elapsed, level, limited, cycle, pending>>
  BY DEF Trigger
<1>4. CASE (\A c \in rt.queue : ~IsDue(rt, c)) /\ Return /\ rt' = rt
  <2>1. agenda' \in Seq(AnyCall) /\ Waiting' = Below
    BY <1>1, <1>4, ReturnEffect
  <2>2. TypesOK'
    BY <1>1, <1>3, <1>4, <2>1 DEF TypesOK
  <2>3. NothingMissed'
    BY <1>1, <1>4 DEF NothingMissed, IsDue, Now, TypesOK, QueueOK
  <2>4. EventSet' /\ FlowSet'
    BY <1>1, <1>2, <1>3, <1>4, <2>1 DEF EventSet, FlowSet, AllEmpty
  <2>5. ClockBound' /\ DecidedFresh' /\ DurationsKept'
    BY <1>2, <1>3, <1>4, <2>1 DEF ClockBound, DecidedFresh, DurationsKept
  <2> QED  BY <2>2, <2>3, <2>4, <2>5
<1>5. ASSUME NEW c \in rt.queue, IsDue(rt, c), rt' = Take(rt, c), agenda' = Callback(c) \o agenda
      PROVE  Inv'
  <2>1. /\ rt'.stale = rt.stale /\ rt'.event = rt.event /\ rt'.queue = rt.queue \ {c}
        /\ rt' \in [stale : Nat, queue : {rt'.queue}, event : Nat \cup {NotScheduled}]
    BY <1>1, <1>5 DEF Take, TypesOK
  <2>2. rt.stale = 0 /\ Wakes(Waiting)
    BY <1>1, <1>5 DEF NothingMissed, IsDue, Now, TypesOK, QueueOK
  <2>3. /\ agenda' \in Seq(AnyCall) /\ Waiting \subseteq Waiting'
        /\ \A call \in Waiting' \ Waiting : call.call \in {"request", "cancel", "flow", "add"}
        /\ c.scope = Flow => \E call \in Waiting' : call.call = "flow"
        /\ \A call \in Waiting' \ Waiting : call.call = "add" =>
             HasFurther(call.repetition) /\ call.repetition.maximum = call.repetition.ends
    <3>1. CASE c.scope = Beacon
      <4>1. Callback(c) = <<RequestCall(BeaconCategory), CancelBeaconCall>>
        BY <3>1 DEF Callback, OnBeaconTimerExpired, Beacon, Flow, Repetition
      <4>2. RequestCall(BeaconCategory) \in AnyCall /\ CancelBeaconCall \in AnyCall
        BY CallKinds, AccessAssumption
      <4>3. agenda' \in Seq(AnyCall)
            /\ Waiting' = {RequestCall(BeaconCategory), CancelBeaconCall} \cup Waiting
        BY <1>1, <1>5, <4>1, <4>2, PushTwoEffect
      <4> QED  BY <3>1, <4>3, CallNames DEF Beacon, Flow
    <3>2. CASE c.scope = Flow
      <4>1. Callback(c) = <<FlowTriggerCall>>
        BY <3>2 DEF Callback, Beacon, Flow, Repetition
      <4>2. agenda' \in Seq(AnyCall) /\ Waiting' = {FlowTriggerCall} \cup Waiting
        BY <1>1, <1>5, <4>1, CallKinds, PushEffect
      <4> QED  BY <4>2, CallNames
    <3>3. CASE c.scope = Repetition
      <4> DEFINE left == [c.bound EXCEPT !.maximum = DecrementByOne(c.bound) - (Now(rt) - c.due)]
      <4>1. Callback(c) = GbcCalls(left)
        BY <3>3 DEF Callback, Beacon, Flow, Repetition, RepeaterTrigger
      <4>2. c.bound \in AnyRepetition /\ c.due \in Int
        BY <1>1 DEF TypesOK, QueueOK
      <4>3. HasFurther(c.bound) /\ c.due + c.bound.maximum - c.bound.interval = c.bound.ends
        BY <3>3 DEF DurationsKept
      <4>4. /\ left \in AnyRepetition /\ left.ends = c.bound.ends
            /\ left.maximum = DecrementByOne(c.bound) + c.due
        BY <2>2, <4>2 DEF AnyRepetition, DecrementByOne, Now
      <4>5. DecrementByOne(c.bound) = c.bound.maximum - c.bound.interval
        BY <4>2, <4>3 DEF AnyRepetition, DecrementByOne, HasFurther
      <4>6. left.maximum = left.ends
        BY <4>2, <4>3, <4>4, <4>5 DEF AnyRepetition
      <4> HIDE DEF left
      <4>7. RequestCall(GbcCategory) \in AnyCall /\ AddCall(left) \in AnyCall
        BY <4>4, CallKinds, AccessAssumption
      <4>8. CASE HasFurther(left)
        <5>1. agenda' = <<AddCall(left), RequestCall(GbcCategory)>> \o agenda
          BY <1>5, <4>1, <4>8 DEF GbcCalls
        <5>2. agenda' \in Seq(AnyCall)
              /\ Waiting' = {AddCall(left), RequestCall(GbcCategory)} \cup Waiting
          BY <1>1, <4>7, <5>1, PushTwoEffect
        <5> QED  BY <3>3, <4>6, <4>8, <5>2, CallNames DEF Flow, Repetition
      <4>9. CASE ~HasFurther(left)
        <5>1. agenda' = <<RequestCall(GbcCategory)>> \o agenda
          BY <1>5, <4>1, <4>9 DEF GbcCalls
        <5>2. agenda' \in Seq(AnyCall) /\ Waiting' = {RequestCall(GbcCategory)} \cup Waiting
          BY <1>1, <4>7, <5>1, PushEffect
        <5> QED  BY <3>3, <5>2, CallNames DEF Flow, Repetition
      <4> QED  BY <4>8, <4>9
    <3> QED  BY <1>1, <3>1, <3>2, <3>3 DEF TypesOK, QueueOK
  <2>4. TypesOK'
    BY <1>1, <1>3, <2>1, <2>3 DEF TypesOK, QueueOK
  <2>5. NothingMissed'
    BY <2>1, <2>2, <2>3 DEF NothingMissed, Wakes
  <2>6. EventSet' /\ ClockBound' /\ DecidedFresh'
    BY <1>3, <2>1, <2>2, <2>3 DEF EventSet, ClockBound, DecidedFresh
  <2>7. FlowSet'
    BY <1>3, <2>1, <2>3 DEF FlowSet, AllEmpty
  <2>8. DurationsKept'
    BY <2>1, <2>3 DEF DurationsKept
  <2> QED  BY <2>4, <2>5, <2>6, <2>7, <2>8
<1> QED  BY <1>4, <1>5 DEF Trigger

LEMMA ScheduleStep ==
    ASSUME Inv, Schedule
    PROVE  Inv'
<1> USE DEF Inv
<1>1. TypesOK /\ ~Idle /\ Head(agenda).call = "schedule"
  BY DEF Schedule, Top
<1>2. Waiting = {Head(agenda)} \cup Below
  BY <1>1, TopOfAgenda
<1>3. UNCHANGED <<queues, elapsed, level, limited, cycle, pending>>
  BY DEF Schedule
<1>4. CASE rt.queue = {} /\ Return /\ rt' = rt
  <2>1. agenda' \in Seq(AnyCall) /\ Waiting' = Below
    BY <1>1, <1>4, ReturnEffect
  <2>2. TypesOK'
    BY <1>1, <1>3, <1>4, <2>1 DEF TypesOK
  <2>3. NothingMissed' /\ EventSet'
    BY <1>4 DEF NothingMissed, EventSet
  <2>4. FlowSet'
    BY <1>1, <1>2, <1>3, <1>4, <2>1 DEF FlowSet, AllEmpty
  <2>5. ClockBound' /\ DecidedFresh' /\ DurationsKept'
    BY <1>2, <1>3, <1>4, <2>1 DEF ClockBound, DecidedFresh, DurationsKept
  <2> QED  BY <2>2, <2>3, <2>4, <2>5
<1>5. ASSUME agenda' = <<TriggerCall>> \o agenda, rt' = rt
      PROVE  Inv'
  <2>1. agenda' \in Seq(AnyCall) /\ Waiting' = {TriggerCall} \cup Waiting
    BY <1>1, <1>5, CallKinds, PushEffect
  <2>2. TypesOK'
    BY <1>1, <1>3, <1>5, <2>1 DEF TypesOK
  <2>3. NothingMissed' /\ EventSet' /\ FlowSet'
    BY <1>3, <1>5, <2>1 DEF NothingMissed, Wakes, EventSet, FlowSet, AllEmpty
  <2>4. ClockBound' /\ DecidedFresh' /\ DurationsKept'
    BY <1>3, <1>5, <2>1, CallNames DEF ClockBound, DecidedFresh, DurationsKept
  <2> QED  BY <2>2, <2>3, <2>4
<1>6. ASSUME NEW c \in rt.queue, IsNext(rt, c), ~IsDue(rt, c), Return, rt' = SetEvent(rt, c)
      PROVE  Inv'
  <2>1. agenda' \in Seq(AnyCall) /\ Waiting' = Below
    BY <1>1, <1>6, ReturnEffect
  <2>2. c.due \in Int /\ rt.stale \in Nat /\ c.due + rt.stale > 0
    BY <1>1, <1>6 DEF IsDue, Now, TypesOK, QueueOK
  <2>3. /\ rt'.stale = rt.stale /\ rt'.queue = rt.queue /\ rt'.event \in Nat
        /\ rt' \in [stale : Nat, queue : {rt'.queue}, event : Nat \cup {NotScheduled}]
    BY <1>1, <1>6, <2>2 DEF SetEvent, ConvertSimTime, Now, TypesOK
  <2>4. \A d \in rt.queue : d.due > Now(rt)
    <3> SUFFICES ASSUME NEW d \in rt.queue PROVE d.due > Now(rt)
      OBVIOUS
    <3>1. d.due \in Int /\ (d = c \/ c.due <= d.due)
      BY <1>1, <1>6, <2>2 DEF IsNext, Before, TypesOK, QueueOK
    <3> QED  BY <2>2, <3>1 DEF Now
  <2>5. TypesOK'
    BY <1>1, <1>3, <2>1, <2>3 DEF TypesOK
  <2>6. NothingMissed' /\ EventSet'
    BY <2>3, <2>4 DEF NothingMissed, EventSet, NotScheduled, Now
  <2>7. FlowSet'
    BY <1>1, <1>2, <1>3, <2>1, <2>3 DEF FlowSet, AllEmpty
  <2>8. ClockBound' /\ DecidedFresh' /\ DurationsKept'
    BY <1>2, <1>3, <2>1, <2>3 DEF ClockBound, DecidedFresh, DurationsKept
  <2> QED  BY <2>5, <2>6, <2>7, <2>8
<1> QED  BY <1>4, <1>5, <1>6 DEF Schedule

(* A call returns and leaves the runtime alone.                            *)
LEMMA PlainReturn ==
    ASSUME Inv, ~Idle, Head(agenda).call \notin {"trigger", "schedule"}, Return, rt' = rt,
           elapsed' \in Nat, UNCHANGED <<level, cycle, pending>>
    PROVE  TypesOK' /\ NothingMissed' /\ EventSet' /\ ClockBound' /\ DecidedFresh' /\ DurationsKept'
<1> USE DEF Inv
<1>1. agenda' \in Seq(AnyCall) /\ Waiting' = Below /\ Waiting = {Head(agenda)} \cup Below
  BY ReturnEffect, TopOfAgenda
<1>2. TypesOK'
  BY <1>1 DEF TypesOK
<1>3. NothingMissed' /\ EventSet'
  BY <1>1 DEF NothingMissed, Wakes, EventSet
<1>4. ClockBound' /\ DecidedFresh' /\ DurationsKept'
  BY <1>1 DEF ClockBound, DecidedFresh, DurationsKept
<1> QED  BY <1>2, <1>3, <1>4

(* A call inserts a callback, and schedule() is next.                      *)
LEMMA InsertReturn ==
    ASSUME Inv, ~Idle, NEW scope \in {Beacon, Repetition, Flow}, NEW due \in Int,
           NEW bound \in AnyRepetition, rt' = Insert(rt, scope, due, bound),
           due > Now(rt) \/ rt.stale = 0,
           scope = Repetition => HasFurther(bound) /\ due + bound.maximum - bound.interval = bound.ends,
           ReturnTo(<<ScheduleCall>>), elapsed' \in Nat, UNCHANGED <<level, cycle, pending>>
    PROVE  /\ TypesOK' /\ NothingMissed' /\ EventSet' /\ ClockBound' /\ DecidedFresh'
           /\ DurationsKept'
           /\ rt.queue \subseteq rt'.queue /\ \E c \in rt'.queue : c.scope = scope
<1> USE DEF Inv
<1>1. /\ agenda' \in Seq(AnyCall) /\ Waiting' = {ScheduleCall} \cup Below
      /\ Waiting = {Head(agenda)} \cup Below
  BY ReturnToEffect, TopOfAgenda, CallKinds
<1>2. /\ rt'.stale = rt.stale /\ rt'.event = rt.event
      /\ rt' \in [stale : Nat, queue : {rt'.queue}, event : Nat \cup {NotScheduled}]
      /\ \E new : /\ rt'.queue = rt.queue \cup {new}
                  /\ new.scope = scope /\ new.due = due /\ new.bound = bound
  BY InsertEffect
<1>3. PICK new : /\ rt'.queue = rt.queue \cup {new}
                 /\ new.scope = scope /\ new.due = due /\ new.bound = bound
  BY <1>2
<1>4. TypesOK'
  BY <1>1, <1>2, <1>3 DEF TypesOK, QueueOK
<1>5. NothingMissed'
  <2>1. CASE (\A c \in rt.queue : c.due > Now(rt)) /\ due > Now(rt)
    BY <1>2, <1>3, <2>1 DEF NothingMissed, Now
  <2>2. CASE rt.stale = 0
    BY <1>1, <1>2, <2>2, CallNames DEF NothingMissed, Wakes
  <2> QED  BY <2>1, <2>2 DEF NothingMissed
<1>6. EventSet'
  BY <1>1, CallNames DEF EventSet
<1>7. ClockBound' /\ DecidedFresh'
  BY <1>1, <1>2, CallNames DEF ClockBound, DecidedFresh
<1>8. DurationsKept'
  BY <1>1, <1>3, CallNames DEF DurationsKept
<1> QED  BY <1>3, <1>4, <1>5, <1>6, <1>7, <1>8

LEMMA CancelBeaconStep ==
    ASSUME Inv, CancelBeacon
    PROVE  Inv'
<1> USE DEF Inv
<1>1. TypesOK /\ ~Idle /\ Head(agenda).call = "cancel"
  BY DEF CancelBeacon, Top
<1>2. /\ agenda' \in Seq(AnyCall) /\ Waiting' = {ScheduleCall, StartBeaconCall} \cup Below
      /\ Waiting = {Head(agenda)} \cup Below
  BY <1>1, ReturnToTwoEffect, TopOfAgenda, CallKinds DEF CancelBeacon
<1>3. UNCHANGED <<queues, elapsed, level, limited, cycle, pending>>
  BY DEF CancelBeacon
<1>4. /\ rt'.stale = rt.stale /\ rt'.event = rt.event
      /\ rt'.queue = {c \in rt.queue : c.scope # Beacon}
      /\ rt' \in [stale : Nat, queue : {rt'.queue}, event : Nat \cup {NotScheduled}]
  BY <1>1 DEF CancelBeacon, Cancel, TypesOK
<1>5. TypesOK'
  BY <1>1, <1>2, <1>3, <1>4 DEF TypesOK, QueueOK
<1>6. NothingMissed'
  <2>1. CASE \A c \in rt.queue : c.due > Now(rt)
    BY <1>4, <2>1 DEF NothingMissed, Now
  <2>2. CASE rt.stale = 0
    BY <1>2, <1>4, <2>2, CallNames DEF NothingMissed, Wakes
  <2> QED  BY <2>1, <2>2 DEF NothingMissed
<1>7. EventSet' /\ ClockBound' /\ DecidedFresh'
  BY <1>2, <1>3, <1>4, CallNames DEF EventSet, ClockBound, DecidedFresh
<1>8. FlowSet'
  BY <1>1, <1>2, <1>3, <1>4, CallNames DEF FlowSet, AllEmpty, Flow, Beacon
<1>9. DurationsKept'
  BY <1>2, <1>4, CallNames DEF DurationsKept
<1> QED  BY <1>5, <1>6, <1>7, <1>8, <1>9

LEMMA StartBeaconStep ==
    ASSUME Inv, StartBeacon
    PROVE  Inv'
<1> USE DEF Inv
<1>1. TypesOK /\ ~Idle /\ Head(agenda).call = "start" /\ ReturnTo(<<ScheduleCall>>)
      /\ UNCHANGED <<queues, elapsed, level, limited, cycle, pending>>
  BY DEF StartBeacon, Top
<1>2. PICK jitter \in 0..BeaconJitter :
        rt' = Insert(rt, Beacon, Now(rt) + (BeaconInterval + jitter), NoRepetition)
  BY DEF StartBeacon, InsertIn
<1>3. Now(rt) + (BeaconInterval + jitter) \in Int /\ Now(rt) + (BeaconInterval + jitter) > Now(rt)
  <2>1. rt.stale \in Nat
    BY <1>1 DEF TypesOK
  <2>2. BeaconInterval + jitter \in Nat \ {0}
    BY ConstantTypes
  <2> QED  BY <2>1, <2>2 DEF Now
<1>4. NoRepetition \in AnyRepetition /\ Beacon # Repetition /\ elapsed' \in Nat
  BY <1>1 DEF NoRepetition, AnyRepetition, Beacon, Repetition, TypesOK
<1>5. /\ TypesOK' /\ NothingMissed' /\ EventSet' /\ ClockBound' /\ DecidedFresh'
      /\ DurationsKept' /\ rt.queue \subseteq rt'.queue
  BY <1>1, <1>2, <1>3, <1>4, InsertReturn
<1>6. FlowSet'
  <2>1. Waiting' = {ScheduleCall} \cup Below /\ Waiting = {Head(agenda)} \cup Below
    BY <1>1, ReturnToEffect, TopOfAgenda, CallKinds
  <2> QED  BY <1>1, <1>5, <2>1, CallNames DEF FlowSet, AllEmpty
<1> QED  BY <1>5, <1>6

(* The clock is set, which lets callbacks run before the agenda goes on.   *)
LEMMA AskReturn ==
    ASSUME Inv, rt' = SetClock(rt), agenda' \in Seq(AnyCall), TriggerCall \in Waiting',
           \A call \in Waiting : call \in Waiting' \/ call.call = "request",
           \A call \in Waiting' \ Waiting : call.call \in {"trigger", "decide", "request"},
           UNCHANGED <<queues, elapsed, level, cycle>>, pending' \in BOOLEAN,
           pending' = pending \/ pending' = FALSE
    PROVE  Inv'
<1> USE DEF Inv
<1>1. /\ rt'.stale = 0 /\ rt'.event = rt.event /\ rt'.queue = rt.queue
      /\ rt' \in [stale : Nat, queue : {rt'.queue}, event : Nat \cup {NotScheduled}]
  BY DEF SetClock, TypesOK
<1>2. TypesOK'
  BY <1>1 DEF TypesOK
<1>3. NothingMissed'
  BY <1>1, CallNames DEF NothingMissed, Wakes
<1>4. EventSet' /\ DecidedFresh'
  BY <1>1 DEF EventSet, DecidedFresh
<1>5. ClockBound'
  BY <1>1, ConstantTypes DEF ClockBound, TypesOK
<1>6. FlowSet' /\ DurationsKept'
  BY <1>1 DEF FlowSet, AllEmpty, DurationsKept
<1> QED  BY <1>2, <1>3, <1>4, <1>5, <1>6

LEMMA AddStep ==
    ASSUME Inv, Add
    PROVE  Inv'
<1> USE DEF Inv
<1>1. TypesOK /\ ~Idle /\ Head(agenda).call = "add" /\ pending' = pending
  BY DEF Add, Top
<1>2. /\ Waiting = {Head(agenda)} \cup Below /\ Head(agenda) \in AnyCall
      /\ rt.stale \in Nat /\ elapsed \in Nat /\ pending \in BOOLEAN
  BY <1>1, TopOfAgenda DEF TypesOK
<1>3. CASE rt.stale > 0
  <2>1. rt' = SetClock(rt) /\ agenda' = <<TriggerCall>> \o agenda
        /\ UNCHANGED <<queues, elapsed, level, cycle>>
    BY <1>3 DEF Add, AskNow
  <2>2. agenda' \in Seq(AnyCall) /\ Waiting' = {TriggerCall} \cup Waiting
    BY <1>1, <2>1, PushEffect, CallKinds
  <2> QED  BY <1>1, <1>2, <2>1, <2>2, CallNames, AskReturn
<1>4. CASE rt.stale = 0
  <2> DEFINE r == Head(agenda).repetition
  <2>1. /\ rt' = Insert(rt, Repetition, Now(rt) + r.interval, r) /\ ReturnTo(<<ScheduleCall>>)
        /\ UNCHANGED <<queues, elapsed, level, limited, cycle>>
    BY <1>4 DEF Add
  <2>2. r \in AnyRepetition
    BY <1>1, <1>2, CallKinds
  <2>3. HasFurther(r) /\ r.maximum = r.ends
    BY <1>1, <1>2 DEF DurationsKept
  <2> HIDE DEF r
  <2>4. Now(rt) + r.interval \in Int /\ Now(rt) + r.interval + r.maximum - r.interval = r.ends
    BY <1>4, <2>2, <2>3 DEF Now, AnyRepetition
  <2>5. /\ TypesOK' /\ NothingMissed' /\ EventSet' /\ ClockBound' /\ DecidedFresh'
        /\ DurationsKept' /\ rt.queue \subseteq rt'.queue
    BY <1>1, <1>2, <1>4, <2>1, <2>2, <2>3, <2>4, InsertReturn
  <2>6. FlowSet'
    <3>1. Waiting' = {ScheduleCall} \cup Below
      BY <1>1, <2>1, ReturnToEffect, CallKinds
    <3> QED  BY <1>1, <1>2, <2>1, <2>5, <3>1, CallNames DEF FlowSet, AllEmpty
  <2> QED  BY <2>5, <2>6
<1> QED  BY <1>2, <1>3, <1>4

(* The delay is a natural number.                                          *)
LEMMA DelayType ==
    ASSUME TypesOK, NEW last \in Nat
    PROVE  Delay(last) \in Nat
BY ConstantTypes DEF Delay, TypesOK

(* A packet is kept that waits already, or the first one sets a callback.  *)
LEMMA EnqueueStep ==
    ASSUME Inv, ~Idle, Head(agenda).call \in {"request", "decide"},
           NEW packets, NEW category, Enqueue(packets, category),
           AllEmpty(queues) => AllEmpty(packets),
           AllEmpty(packets) => limited, limited => rt.stale = 0,
           UNCHANGED <<level, limited, cycle, pending>>
    PROVE  Inv'
<1> USE DEF Inv
<1>1. Waiting = {Head(agenda)} \cup Below /\ elapsed' = elapsed /\ elapsed \in Nat
  BY TopOfAgenda DEF Enqueue, TypesOK
<1>2. CASE AllEmpty(packets)
  <2>1. rt' = Insert(rt, Flow, Now(rt) + Delay(elapsed), NoRepetition) /\ ReturnTo(<<ScheduleCall>>)
    BY <1>2 DEF Enqueue, InsertIn
  <2>2. /\ Now(rt) + Delay(elapsed) \in Int /\ NoRepetition \in AnyRepetition
        /\ Flow # Repetition
    BY <1>1, DelayType DEF TypesOK, Now, NoRepetition, AnyRepetition, Flow, Repetition
  <2>3. /\ TypesOK' /\ NothingMissed' /\ EventSet' /\ ClockBound' /\ DecidedFresh'
        /\ DurationsKept' /\ \E c \in rt'.queue : c.scope = Flow
    BY <1>1, <1>2, <2>1, <2>2, InsertReturn
  <2> QED  BY <2>3 DEF FlowSet
<1>3. CASE ~AllEmpty(packets)
  <2>1. rt' = rt /\ Return
    BY <1>3 DEF Enqueue
  <2>2. TypesOK' /\ NothingMissed' /\ EventSet' /\ ClockBound' /\ DecidedFresh' /\ DurationsKept'
    BY <1>1, <2>1, PlainReturn
  <2>3. FlowSet'
    <3>1. Waiting' = Below
      BY <2>1, ReturnEffect
    <3> QED  BY <1>1, <1>3, <2>1, <3>1 DEF FlowSet
  <2> QED  BY <2>2, <2>3
<1> QED  BY <1>2, <1>3

LEMMA TransmitStep ==
    ASSUME Inv, ~Idle, Head(agenda).call \in {"request", "decide"},
           NEW packets, Transmit(packets), AllEmpty(queues) => AllEmpty(packets),
           UNCHANGED <<level, limited, cycle, pending>>
    PROVE  Inv'
<1> USE DEF Inv
<1>1. rt' = rt /\ Return /\ elapsed' \in Nat /\ queues' = packets
  BY DEF Transmit
<1>2. TypesOK' /\ NothingMissed' /\ EventSet' /\ ClockBound' /\ DecidedFresh' /\ DurationsKept'
  BY <1>1, PlainReturn
<1>3. Waiting' = Below /\ Waiting = {Head(agenda)} \cup Below
  BY <1>1, ReturnEffect, TopOfAgenda
<1>4. FlowSet'
  BY <1>1, <1>3 DEF FlowSet, AllEmpty
<1> QED  BY <1>2, <1>4

LEMMA DropExpiredEmpty == AllEmpty(queues) => AllEmpty(DropExpired)
BY EmptyKept DEF AllEmpty

LEMMA RequestStep ==
    ASSUME Inv, Request
    PROVE  Inv'
<1> USE DEF Inv
<1> DEFINE category == Head(agenda).category
<1>1. TypesOK /\ ~Idle /\ Head(agenda).call = "request"
      /\ UNCHANGED <<level, limited, cycle, pending>>
  BY DEF Request, Top
<1>2. /\ Waiting = {Head(agenda)} \cup Below /\ category \in Categories
      /\ elapsed \in Nat /\ pending \in BOOLEAN
  BY <1>1, TopOfAgenda, CallKinds DEF TypesOK
<1>3. ASSUME NEW next \in {DecideCall(category, elapsed), RequestCall(category)},
             rt' = SetClock(rt), UNCHANGED <<queues, elapsed>>, ReturnTo(<<TriggerCall, next>>)
      PROVE  Inv'
  <2>1. next \in AnyCall /\ next.call \in {"decide", "request"}
    BY <1>2, <1>3, CallKinds, CallNames
  <2>2. agenda' \in Seq(AnyCall) /\ Waiting' = {TriggerCall, next} \cup Below
    BY <1>1, <1>3, <2>1, ReturnToTwoEffect, CallKinds
  <2> QED  BY <1>1, <1>2, <1>3, <2>1, <2>2, CallNames, AskReturn
<1>4. CASE Transmit(DropExpired)
  BY <1>1, <1>4, TransmitStep, DropExpiredEmpty
<1>5. ASSUME limited => rt.stale = 0, Enqueue(DropExpired, category),
             ~((\A k \in Categories : k >= category => DropExpired[k] = <<>>) /\ Delay(elapsed) = 0)
      PROVE  Inv'
  <2>1. AllEmpty(DropExpired) => limited
    BY <1>5 DEF AllEmpty, Delay
  <2> QED  BY <1>1, <1>5, <2>1, EnqueueStep, DropExpiredEmpty
<1>6. \/ /\ rt' = SetClock(rt) /\ UNCHANGED <<queues, elapsed>>
         /\ ReturnTo(<<TriggerCall, IF AllEmpty(queues) THEN DecideCall(category, elapsed)
                                    ELSE RequestCall(category)>>)
      \/ /\ limited => rt.stale = 0
         /\ IF /\ \A k \in Categories : k >= category => DropExpired[k] = <<>>
               /\ Delay(elapsed) = 0
            THEN Transmit(DropExpired)
            ELSE Enqueue(DropExpired, category)
  BY DEF Request
<1> QED  BY <1>3, <1>4, <1>5, <1>6

LEMMA DecideStep ==
    ASSUME Inv, Decide
    PROVE  Inv'
<1> USE DEF Inv
<1>1. TypesOK /\ ~Idle /\ Head(agenda).call = "decide"
      /\ UNCHANGED <<level, limited, cycle, pending>>
  BY DEF Decide, Top
<1>2. rt.stale = 0
  BY <1>1, TopOfAgenda DEF DecidedFresh
<1>3. \/ Transmit(queues)
      \/ Delay(Head(agenda).last) # 0 /\ Enqueue(queues, Head(agenda).category)
  BY DEF Decide
<1>4. CASE Transmit(queues)
  BY <1>1, <1>4, TransmitStep
<1>5. CASE Delay(Head(agenda).last) # 0 /\ Enqueue(queues, Head(agenda).category)
  <2>1. limited
    BY <1>5 DEF Delay
  <2> QED  BY <1>1, <1>2, <1>5, <2>1, EnqueueStep
<1> QED  BY <1>3, <1>4, <1>5

LEMMA FlowTriggerStep ==
    ASSUME Inv, FlowTrigger
    PROVE  Inv'
<1> USE DEF Inv
<1>1. TypesOK /\ ~Idle /\ Head(agenda).call = "flow"
      /\ UNCHANGED <<level, limited, cycle, pending>>
  BY DEF FlowTrigger, Top
<1>2. elapsed \in Nat /\ level \in 1..Len(Interval)
  BY <1>1 DEF TypesOK
<1>3. ASSUME AllEmpty(queues'), elapsed' \in Nat, rt' = rt, Return
      PROVE  Inv'
  <2>1. TypesOK' /\ NothingMissed' /\ EventSet' /\ ClockBound' /\ DecidedFresh' /\ DurationsKept'
    BY <1>1, <1>3, PlainReturn
  <2>2. FlowSet'
    BY <1>3 DEF FlowSet, AllEmpty
  <2> QED  BY <2>1, <2>2
<1>4. ASSUME elapsed' = 0, rt' = InsertIn(rt, Flow, Delay(0), NoRepetition),
             ReturnTo(<<ScheduleCall>>)
      PROVE  Inv'
  <2>1. rt' = Insert(rt, Flow, Now(rt) + Delay(0), NoRepetition)
    BY <1>4 DEF InsertIn
  <2>2. /\ Now(rt) + Delay(0) \in Int /\ NoRepetition \in AnyRepetition
        /\ Flow # Repetition
    BY <1>1, DelayType DEF TypesOK, Now, NoRepetition, AnyRepetition, Flow, Repetition
  <2>3. rt.stale = 0
    BY <1>1, TopOfAgenda DEF DecidedFresh
  <2>4. /\ TypesOK' /\ NothingMissed' /\ EventSet' /\ ClockBound' /\ DecidedFresh'
        /\ DurationsKept' /\ \E c \in rt'.queue : c.scope = Flow
    BY <1>1, <1>4, <2>1, <2>2, <2>3, InsertReturn
  <2> QED  BY <2>4 DEF FlowSet
<1>5. CASE AllEmpty(DropExpired) /\ queues' = DropExpired /\ elapsed' = elapsed /\ rt' = rt /\ Return
  BY <1>2, <1>3, <1>5
<1>6. ASSUME NEW left,
             IF AllEmpty(left) THEN Transmit(left)
             ELSE /\ queues' = left /\ elapsed' = 0
                  /\ rt' = InsertIn(rt, Flow, Delay(0), NoRepetition)
                  /\ ReturnTo(<<ScheduleCall>>)
      PROVE  Inv'
  <2>1. CASE AllEmpty(left)
    <3>1. AllEmpty(queues') /\ elapsed' \in Nat /\ rt' = rt /\ Return
      BY <1>6, <2>1 DEF Transmit
    <3> QED  BY <1>3, <3>1
  <2>2. CASE ~AllEmpty(left)
    BY <1>4, <1>6, <2>2
  <2> QED  BY <2>1, <2>2
<1> QED  BY <1>5, <1>6 DEF FlowTrigger

-----------------------------------------------------------------------------
(* One lemma per event of the simulation.                                  *)
LEMMA IdleWaiting ==
    ASSUME Idle
    PROVE  Waiting = {}
BY NoCalls DEF Idle, Waiting

LEMMA OneCall ==
    ASSUME NEW a \in AnyCall, agenda' = <<a>>
    PROVE  agenda' \in Seq(AnyCall) /\ Waiting' = {a}
<1>1. <<a>> = <<a>> \o <<>>
  OBVIOUS
<1>2. <<a>> \o <<>> \in Seq(AnyCall) /\ Calls(<<a>> \o <<>>) = {a} \cup Calls(<<>>)
  BY CallsOfPush, EmptySeq
<1> QED  BY <1>1, <1>2, NoCalls DEF Waiting

LEMMA TwoCalls ==
    ASSUME NEW a \in AnyCall, NEW b \in AnyCall, agenda' = <<a, b>>
    PROVE  agenda' \in Seq(AnyCall) /\ Waiting' = {a, b}
<1> DEFINE none == <<>>
<1>1. <<a, b>> = <<a, b>> \o none
  OBVIOUS
<1>2. none \in Seq(AnyCall) /\ Calls(none) = {}
  BY NoCalls
<1> HIDE DEF none
<1>3. <<a, b>> \o none \in Seq(AnyCall) /\ Calls(<<a, b>> \o none) = {a, b} \cup Calls(none)
  BY <1>2, CallsOfTwo
<1> QED  BY <1>1, <1>2, <1>3 DEF Waiting

LEMMA HandleUpdateEventStep ==
    ASSUME Inv, HandleUpdateEvent
    PROVE  Inv'
<1> USE DEF Inv
<1>1. /\ rt' = [SetClock(rt) EXCEPT !.event = NotScheduled] /\ Waiting = {}
      /\ agenda' = <<TriggerCall, ScheduleCall>> /\ TypesOK
      /\ UNCHANGED <<queues, elapsed, level, limited, cycle, pending>>
  BY IdleWaiting DEF HandleUpdateEvent
<1>2. agenda' \in Seq(AnyCall) /\ Waiting' = {TriggerCall, ScheduleCall}
  BY <1>1, CallKinds, TwoCalls
<1>3. /\ rt'.stale = 0 /\ rt'.event = NotScheduled /\ rt'.queue = rt.queue
      /\ rt' \in [stale : Nat, queue : {rt'.queue}, event : Nat \cup {NotScheduled}]
  BY <1>1 DEF SetClock, TypesOK
<1>4. TypesOK'
  BY <1>1, <1>2, <1>3 DEF TypesOK
<1>5. NothingMissed' /\ EventSet' /\ DecidedFresh'
  BY <1>2, <1>3, CallNames DEF NothingMissed, Wakes, EventSet, DecidedFresh
<1>6. ClockBound'
  BY <1>1, <1>3, ConstantTypes DEF ClockBound, TypesOK
<1>7. FlowSet' /\ DurationsKept'
  BY <1>1, <1>2, <1>3, CallNames DEF FlowSet, AllEmpty, DurationsKept
<1> QED  BY <1>4, <1>5, <1>6, <1>7

(* A step of the traffic simulation, and a frame.                          *)
LEMMA UpdatePositionStep ==
    ASSUME Inv, UpdatePosition
    PROVE  Inv'
<1> USE DEF Inv
<1>1. /\ rt' = SetClock(rt) /\ Waiting = {} /\ TypesOK /\ pending' = FALSE
      /\ UNCHANGED <<queues, elapsed, level, limited, cycle>>
  BY IdleWaiting DEF UpdatePosition, AskNow
<1>2. CASE rt.stale > 0
  <2>1. agenda' \in Seq(AnyCall) /\ Waiting' = {TriggerCall}
    BY <1>2, CallKinds, OneCall DEF UpdatePosition
  <2> QED  BY <1>1, <2>1, CallNames, AskReturn
<1>3. CASE ~(rt.stale > 0)
  <2>1. agenda' = agenda /\ rt'.stale = rt.stale /\ rt'.event = rt.event /\ rt'.queue = rt.queue
        /\ rt' \in [stale : Nat, queue : {rt'.queue}, event : Nat \cup {NotScheduled}] /\ rt'.stale = 0
    BY <1>1, <1>3 DEF UpdatePosition, Idle, SetClock, TypesOK
  <2>2. TypesOK' /\ NothingMissed' /\ EventSet' /\ DecidedFresh'
    BY <1>1, <2>1 DEF TypesOK, NothingMissed, EventSet, DecidedFresh, Waiting, Wakes, Now
  <2>3. ClockBound'
    BY <1>1, <2>1, ConstantTypes DEF ClockBound, TypesOK
  <2>4. FlowSet' /\ DurationsKept'
    BY <1>1, <2>1 DEF FlowSet, AllEmpty, DurationsKept, Waiting
  <2> QED  BY <2>2, <2>3, <2>4
<1> QED  BY <1>2, <1>3

LEMMA IndicateStep ==
    ASSUME Inv, Indicate
    PROVE  Inv'
<1> USE DEF Inv
<1>1. /\ rt' = SetClock(rt) /\ Waiting = {} /\ TypesOK /\ pending' = pending /\ pending \in BOOLEAN
      /\ UNCHANGED <<queues, elapsed, level, limited, cycle>>
  BY IdleWaiting DEF Indicate, AskNow, TypesOK
<1>2. agenda' \in Seq(AnyCall) /\ Waiting' = {TriggerCall}
  BY CallKinds, OneCall DEF Indicate
<1> QED  BY <1>1, <1>2, CallNames, AskReturn

(* A service calls: the runtime is left alone at first.                    *)
LEMMA ServiceCalls ==
    ASSUME Inv, Idle, agenda' \in Seq(AnyCall),
           \A call \in Waiting' : call.call \notin {"decide", "flow"},
           \A call \in Waiting' : call.call = "add" =>
              HasFurther(call.repetition) /\ call.repetition.maximum = call.repetition.ends,
           UNCHANGED <<rt, queues, elapsed, cycle, pending>>, level' \in 1..Len(Interval)
    PROVE  Inv'
<1> USE DEF Inv
<1>1. Waiting = {}
  BY IdleWaiting
<1>2. TypesOK' /\ ClockBound'
  BY DEF TypesOK, ClockBound
<1>3. NothingMissed' /\ EventSet' /\ DecidedFresh'
  BY <1>1 DEF NothingMissed, Wakes, EventSet, DecidedFresh
<1>4. FlowSet' /\ DurationsKept'
  BY <1>1 DEF FlowSet, AllEmpty, DurationsKept
<1> QED  BY <1>2, <1>3, <1>4

LEMMA ServiceStep ==
    ASSUME Inv, RequestShb \/ RequestGbc \/ ReportChannelLoad
    PROVE  Inv'
<1> USE DEF Inv
<1>1. TypesOK /\ level \in 1..Len(Interval)
  BY DEF TypesOK
<1>2. CASE RequestShb
  <2>1. agenda' = <<RequestCall(ShbCategory), CancelBeaconCall>>
    BY <1>2 DEF RequestShb, ShbCalls
  <2>2. RequestCall(ShbCategory) \in AnyCall /\ CancelBeaconCall \in AnyCall
    BY CallKinds, ConstantTypes
  <2>3. agenda' \in Seq(AnyCall) /\ Waiting' = {RequestCall(ShbCategory), CancelBeaconCall}
    BY <2>1, <2>2, TwoCalls
  <2>4. Idle /\ UNCHANGED <<rt, queues, elapsed, level, cycle, pending>>
    BY <1>2 DEF RequestShb
  <2> QED  BY <1>1, <2>3, <2>4, CallNames, ServiceCalls
<1>3. CASE RequestGbc
  <2>1. PICK r \in Repetitions :
          agenda' = GbcCalls([interval |-> r.interval, maximum |-> r.maximum, ends |-> r.maximum])
    BY <1>3 DEF RequestGbc
  <2> DEFINE asked == [interval |-> r.interval, maximum |-> r.maximum, ends |-> r.maximum]
  <2>2. asked \in AnyRepetition /\ asked.maximum = asked.ends
    BY ConstantTypes DEF AnyRepetition
  <2>3. Idle /\ UNCHANGED <<rt, queues, elapsed, level, cycle, pending>>
    BY <1>3 DEF RequestGbc
  <2>4. agenda' = GbcCalls(asked)
    BY <2>1
  <2> HIDE DEF asked
  <2>5. RequestCall(GbcCategory) \in AnyCall /\ AddCall(asked) \in AnyCall
    BY <2>2, CallKinds, ConstantTypes
  <2>6. CASE HasFurther(asked)
    <3>1. agenda' \in Seq(AnyCall) /\ Waiting' = {AddCall(asked), RequestCall(GbcCategory)}
      BY <2>4, <2>5, <2>6, TwoCalls DEF GbcCalls
    <3> QED  BY <1>1, <2>2, <2>3, <2>6, <3>1, CallNames, ServiceCalls
  <2>7. CASE ~HasFurther(asked)
    <3>1. agenda' \in Seq(AnyCall) /\ Waiting' = {RequestCall(GbcCategory)}
      BY <2>4, <2>5, <2>7, OneCall DEF GbcCalls
    <3> QED  BY <1>1, <2>3, <3>1, CallNames, ServiceCalls
  <2> QED  BY <2>6, <2>7
<1>4. CASE ReportChannelLoad
  <2>1. /\ Idle /\ agenda' = agenda /\ level' \in 1..Len(Interval)
        /\ UNCHANGED <<rt, queues, elapsed, cycle, pending>>
    BY <1>4, ConstantTypes DEF ReportChannelLoad
  <2>2. Waiting' = {} /\ agenda' \in Seq(AnyCall)
    BY <1>1, <2>1, IdleWaiting DEF Waiting, TypesOK
  <2> QED  BY <2>1, <2>2, ServiceCalls
<1> QED  BY <1>2, <1>3, <1>4

LEMMA TickStep ==
    ASSUME Inv, Tick
    PROVE  Inv'
<1> USE DEF Inv
<1>1. /\ Idle /\ Waiting = {} /\ TypesOK /\ rt.event # 0 /\ ~pending
      /\ agenda' = agenda /\ level' = level /\ limited' = limited
      /\ cycle' = (IF cycle = 1 THEN Step ELSE cycle - 1)
      /\ pending' = (cycle = 1)
  BY IdleWaiting DEF Tick
<1>2. Waiting' = {}
  BY <1>1 DEF Waiting
<1>3. /\ rt.stale \in Nat /\ rt.event \in Nat \cup {NotScheduled} /\ QueueOK(rt.queue)
      /\ agenda \in Seq(AnyCall) /\ elapsed \in Nat /\ level \in 1..Len(Interval)
      /\ cycle \in 1..Step
  BY <1>1 DEF TypesOK
<1>4. /\ rt'.stale = rt.stale + 1 /\ rt'.queue = {Elapsed(c) : c \in rt.queue}
      /\ rt'.event = IF rt.event = NotScheduled THEN NotScheduled ELSE rt.event - 1
      /\ rt' \in [stale : Nat, queue : {rt'.queue}, event : Nat \cup {NotScheduled}]
  <2>1. rt' = [stale |-> rt.stale + 1, queue |-> {Elapsed(c) : c \in rt.queue},
               event |-> IF rt.event = NotScheduled THEN NotScheduled ELSE rt.event - 1]
    BY DEF Tick
  <2>2. (IF rt.event = NotScheduled THEN NotScheduled ELSE rt.event - 1) \in Nat \cup {NotScheduled}
    BY <1>1, <1>3
  <2> QED  BY <1>3, <2>1, <2>2
<1>5. \A c \in rt.queue :
        /\ Elapsed(c).scope = c.scope /\ Elapsed(c).due = c.due - 1
        /\ Elapsed(c).bound \in AnyRepetition
        /\ c.scope = Repetition =>
             /\ Elapsed(c).bound.interval = c.bound.interval
             /\ Elapsed(c).bound.maximum = c.bound.maximum
             /\ Elapsed(c).bound.ends = c.bound.ends - 1
  <2> SUFFICES ASSUME NEW c \in rt.queue
               PROVE  /\ Elapsed(c).scope = c.scope /\ Elapsed(c).due = c.due - 1
                      /\ Elapsed(c).bound \in AnyRepetition
                      /\ c.scope = Repetition =>
                           /\ Elapsed(c).bound.interval = c.bound.interval
                           /\ Elapsed(c).bound.maximum = c.bound.maximum
                           /\ Elapsed(c).bound.ends = c.bound.ends - 1
    OBVIOUS
  <2>1. c.bound \in AnyRepetition
    BY <1>3 DEF QueueOK
  <2>2. Elapsed(c).scope = c.scope /\ Elapsed(c).due = c.due - 1
    BY DEF Elapsed
  <2>3. CASE c.scope = Repetition
    <3>1. Elapsed(c).bound = [c.bound EXCEPT !.ends = @ - 1]
      BY <2>3 DEF Elapsed
    <3> QED  BY <2>1, <2>2, <3>1 DEF AnyRepetition
  <2>4. CASE c.scope # Repetition
    <3>1. Elapsed(c).bound = c.bound
      BY <2>4 DEF Elapsed
    <3> QED  BY <2>1, <2>2, <2>4, <3>1
  <2> QED  BY <2>3, <2>4
<1>6. QueueOK(rt'.queue)
  BY <1>3, <1>4, <1>5 DEF QueueOK
<1>7. elapsed' \in Nat
  BY <1>3 DEF Tick
<1>8. cycle' \in 1..Step /\ pending' \in BOOLEAN
  BY <1>1, <1>3, ConstantTypes
<1>9. TypesOK'
  BY <1>1, <1>3, <1>4, <1>6, <1>7, <1>8 DEF TypesOK
<1>10. NothingMissed'
  <2>1. \A c \in rt.queue : c.due > Now(rt) /\ c.due \in Int
    BY <1>1, <1>3 DEF NothingMissed, Wakes, QueueOK
  <2> QED  BY <1>3, <1>4, <1>5, <2>1 DEF NothingMissed, Now
<1>11. EventSet'
  BY <1>1, <1>3, <1>4 DEF EventSet, NotScheduled
<1>12. ClockBound'
  <2>1. rt.stale <= Step - cycle
    BY <1>1 DEF ClockBound
  <2>2. CASE cycle = 1
    <3>1. rt'.stale <= Step
      BY <1>3, <1>4, <2>1, <2>2, ConstantTypes
    <3>2. pending'
      BY <1>1, <2>2, Zenon
    <3> QED  BY <3>1, <3>2 DEF ClockBound
  <2>3. CASE cycle # 1
    <3>1. cycle' = cycle - 1
      BY <1>1, <2>3
    <3>2. rt'.stale <= Step - (cycle - 1)
      BY <1>3, <1>4, <2>1, ConstantTypes
    <3>3. ~pending'
      BY <1>1, <2>3, Zenon
    <3> QED  BY <3>1, <3>2, <3>3 DEF ClockBound
  <2> QED  BY <2>2, <2>3
<1>13. DecidedFresh'
  BY <1>2 DEF DecidedFresh
<1>14. FlowSet'
  <2>1. CASE AllEmpty(queues)
    <3>1. queues' = [k \in Categories |-> [i \in DOMAIN queues[k] |-> queues[k][i] - 1]]
      BY DEF Tick
    <3>2. \A k \in Categories : queues[k] = <<>>
      BY <2>1 DEF AllEmpty
    <3>3. ASSUME NEW k \in Categories PROVE queues'[k] = <<>>
      <4>1. queues'[k] = [i \in 1..0 |-> queues[k][i] - 1]
        BY <3>1, <3>2
      <4>2. queues'[k] \in Seq({queues[k][i] - 1 : i \in 1..0}) /\ Len(queues'[k]) = 0
        BY <4>1
      <4> QED  BY <4>2, EmptySeq
    <3> QED  BY <3>3 DEF FlowSet, AllEmpty
  <2>2. ASSUME NEW c \in rt.queue, c.scope = Flow
        PROVE  FlowSet'
    BY <1>4, <1>5, <2>2 DEF FlowSet
  <2> QED  BY <1>1, <2>1, <2>2 DEF FlowSet
<1>15. DurationsKept'
  <2>1. ASSUME NEW c \in rt.queue, c.scope = Repetition
        PROVE  /\ HasFurther(Elapsed(c).bound)
               /\ Elapsed(c).due + Elapsed(c).bound.maximum - Elapsed(c).bound.interval
                    = Elapsed(c).bound.ends
    <3>1. HasFurther(c.bound) /\ c.due + c.bound.maximum - c.bound.interval = c.bound.ends
      BY <2>1 DEF DurationsKept
    <3>2. c.due \in Int /\ c.bound \in AnyRepetition
      BY <1>3 DEF QueueOK
    <3> QED  BY <1>5, <2>1, <3>1, <3>2 DEF HasFurther, AnyRepetition
  <2> QED  BY <1>2, <1>4, <1>5, <2>1 DEF DurationsKept
<1> QED  BY <1>9, <1>10, <1>11, <1>12, <1>13, <1>14, <1>15

LEMMA InitInv == Init => Inv
<1> SUFFICES ASSUME Init PROVE Inv
  OBVIOUS
<1> USE DEF Inv
<1>1. PICK first \in 1..BeaconInterval + BeaconJitter :
        rt = [InsertIn(Started, Beacon, first, NoRepetition) EXCEPT !.event = first]
  BY DEF Init
<1>2. first \in Nat \ {0}
  BY ConstantTypes
<1>3. /\ agenda = <<>> /\ queues = [k \in Categories |-> <<>>] /\ elapsed = MaxInterval
      /\ level = 1 /\ cycle = Step /\ pending = FALSE
  BY DEF Init
<1>4. /\ rt.stale = 0 /\ rt.event = first
      /\ rt \in [stale : Nat, queue : {rt.queue}, event : Nat \cup {NotScheduled}]
      /\ \A c \in rt.queue : c.scope = Beacon /\ c.due = first /\ c.bound = NoRepetition
  <2> DEFINE new == [scope |-> Beacon, due |-> Now(Started) + first,
                     nth |-> NextNumber(Started.queue, Now(Started) + first), bound |-> NoRepetition]
  <2>1. rt = [[Started EXCEPT !.queue = @ \cup {new}] EXCEPT !.event = first]
    BY <1>1 DEF InsertIn, Insert
  <2>2. new.scope = Beacon /\ new.due = Now(Started) + first /\ new.bound = NoRepetition
    OBVIOUS
  <2>3. Now(Started) + first = first
    BY <1>2 DEF Now, Started
  <2> HIDE DEF new
  <2> QED  BY <1>2, <2>1, <2>2, <2>3 DEF Started
<1>5. Waiting = {} /\ agenda \in Seq(AnyCall)
  BY <1>3, NoCalls DEF Waiting
<1>6. TypesOK
  <2>1. QueueOK(rt.queue)
    BY <1>2, <1>4 DEF QueueOK, NoRepetition, AnyRepetition
  <2>2. elapsed \in Nat /\ level \in 1..Len(Interval)
    BY <1>3, ConstantTypes
  <2>3. cycle \in 1..Step
    BY <1>3, ConstantTypes
  <2>4. pending \in BOOLEAN
    BY <1>3
  <2> QED  BY <1>4, <1>5, <2>1, <2>2, <2>3, <2>4 DEF TypesOK
<1>7. NothingMissed /\ EventSet /\ ClockBound /\ DecidedFresh
  BY <1>2, <1>3, <1>4, <1>5, ConstantTypes
     DEF NothingMissed, Now, EventSet, NotScheduled, ClockBound, DecidedFresh
<1>8. FlowSet /\ DurationsKept
  BY <1>3, <1>4, <1>5 DEF FlowSet, AllEmpty, DurationsKept, Beacon, Repetition
<1> QED  BY <1>6, <1>7, <1>8

LEMMA NextInv == Inv /\ [Next]_vars => Inv'
<1> SUFFICES ASSUME Inv, [Next]_vars PROVE Inv'
  OBVIOUS
<1>1. CASE Execute
  BY <1>1, TriggerStep, ScheduleStep, CancelBeaconStep, StartBeaconStep, AddStep, RequestStep,
     DecideStep, FlowTriggerStep DEF Execute
<1>2. CASE HandleUpdateEvent \/ UpdatePosition \/ Indicate \/ Tick
  BY <1>2, HandleUpdateEventStep, UpdatePositionStep, IndicateStep, TickStep
<1>3. CASE RequestShb \/ RequestGbc \/ ReportChannelLoad
  BY <1>3, ServiceStep
<1>4. CASE UNCHANGED vars
  BY <1>4 DEF vars, Inv, TypesOK, NothingMissed, EventSet, ClockBound, DecidedFresh, FlowSet,
       DurationsKept, Waiting, AllEmpty
<1> QED  BY <1>1, <1>2, <1>3, <1>4 DEF Next

LEMMA InvHolds == Spec => []Inv
BY InitInv, NextInv, PTL DEF Spec

-----------------------------------------------------------------------------
(* For every congestion control, every interval, queue length and beacon   *)
(* interval and every length of a traffic step: whenever no function of    *)
(* Vanetza is running, the event of Runtime::schedule is set if a callback *)
(* waits, none is late by as much as a step, and by the clock of the queue *)
(* none is due.                                                            *)
THEOREM CallbacksAreInTime == Spec => []CallbacksInTime
<1>1. Inv => CallbacksInTime
  <2> SUFFICES ASSUME Inv, Idle
               PROVE  /\ rt.queue # {} => rt.event # NotScheduled
                      /\ \A c \in rt.queue : c.due > 0 - Step /\ ConvertSimTime(rt, c.due) > 0
    BY DEF CallbacksInTime
  <2>1. Waiting = {}
    BY IdleWaiting
  <2>2. rt.queue # {} => rt.event # NotScheduled
    BY <2>1 DEF Inv, EventSet
  <2>3. \A c \in rt.queue : c.due > Now(rt) /\ c.due \in Int
    BY <2>1 DEF Inv, NothingMissed, Wakes, TypesOK, QueueOK
  <2>4. rt.stale \in Nat /\ rt.stale <= Step
    BY ConstantTypes DEF Inv, ClockBound, TypesOK
  <2> QED  BY <2>2, <2>3, <2>4, ConstantTypes DEF ConvertSimTime, Now
<1> QED  BY <1>1, InvHolds, PTL

(* For every number of categories and every queue length, lifetime and     *)
(* rate: a packet that waits in FlowControl has a callback that waits with *)
(* it, although it may expire, be replaced or overtaken, and although the  *)
(* callback may run in the middle of FlowControl::request.                 *)
THEOREM PacketsAreServed == Spec => []PacketsServed
<1>1. Inv => PacketsServed
  BY IdleWaiting DEF Inv, FlowSet, PacketsServed
<1> QED  BY <1>1, InvHolds, PTL

(* For every interval and duration that services ask for: Repeater::trigger*)
(* never schedules a repetition after the end of the duration, however late*)
(* it is called.                                                           *)
THEOREM RepetitionsAlwaysFit == Spec => []RepetitionsFit
<1>1. Inv => RepetitionsFit
  <2> SUFFICES ASSUME Inv, NEW c \in rt.queue, c.scope = Repetition
               PROVE  c.due <= c.bound.ends
    BY DEF RepetitionsFit
  <2>1. HasFurther(c.bound) /\ c.due + c.bound.maximum - c.bound.interval = c.bound.ends
    BY DEF Inv, DurationsKept
  <2>2. c.due \in Int /\ c.bound \in AnyRepetition
    BY DEF Inv, TypesOK, QueueOK
  <2> QED  BY <2>1, <2>2 DEF HasFurther, AnyRepetition
<1> QED  BY <1>1, InvHolds, PTL
=============================================================================
