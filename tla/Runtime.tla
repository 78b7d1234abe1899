------------------------------- MODULE Runtime -------------------------------
(***************************************************************************)
(* The clock and the callbacks of Vanetza inside of a simulation: Artery's *)
(* Runtime (networking/Runtime.cc) around Vanetza's ManualRuntime, whose   *)
(* clock stands still between updates; an event of the simulation wakes    *)
(* the runtime up.                                                         *)
(*                                                                         *)
(* All times are relative to the current simulation time, so a step of time*)
(* makes every one of them smaller.  A runtime is a record:                *)
(*   stale   how long ago the clock was updated: simTime() - mLastUpdate   *)
(*   queue   set of pending callbacks                                      *)
(*   event   time of mUpdateEvent, or NotScheduled                         *)
(* A callback has a scope, the time it is due and what it was bound to.    *)
(* Callbacks of equal time are numbered: the index of the queue keeps them *)
(* in the order of their insertion.                                        *)
(***************************************************************************)
EXTENDS Integers, FiniteSetsExt

NotScheduled == -1

Now(rt) == 0 - rt.stale         \* what the clock of the queue shows

Started == [stale |-> 0, queue |-> {}, event |-> NotScheduled]

(* convertSimTime measures from the clock of the queue and adds to the     *)
(* simulation time.                                                        *)
ConvertSimTime(rt, due) == due - Now(rt)

(* ManualRuntime::schedule.                                                *)
NextNumber(queue, due) == Max({0} \cup {c.nth : c \in {d \in queue : d.due = due}}) + 1

Insert(rt, scope, due, bound) ==
    [rt EXCEPT !.queue = @ \cup
        {[scope |-> scope, due |-> due, nth |-> NextNumber(rt.queue, due), bound |-> bound]}]

(* With a duration: counted from the clock of the queue.                   *)
InsertIn(rt, scope, duration, bound) == Insert(rt, scope, Now(rt) + duration, bound)

(* ManualRuntime::cancel.                                                  *)
Cancel(rt, scope) == [rt EXCEPT !.queue = {c \in @ : c.scope # scope}]

(* ManualRuntime::next: the callback whose turn it is.                     *)
Before(c, d) == c.due < d.due \/ (c.due = d.due /\ c.nth < d.nth)
IsNext(rt, c) == c \in rt.queue /\ \A d \in rt.queue : d = c \/ Before(c, d)

(* The callbacks that trigger runs: those due by the clock of the queue.   *)
IsDue(rt, c) == c.due <= Now(rt)
Take(rt, c) == [rt EXCEPT !.queue = @ \ {c}]

(* update(): the clock is set before the callbacks run.                    *)
SetClock(rt) == [rt EXCEPT !.stale = 0]

(* schedule() has found the next callback.                                 *)
SetEvent(rt, c) == [rt EXCEPT !.event = ConvertSimTime(rt, c.due)]
=============================================================================
