----------------------------- MODULE ChannelLoad -----------------------------
(***************************************************************************)
(* Measuring how busy a channel is, for congestion control: the receiver   *)
(* for INET (inet/VanetRx.cc) keeps a list of the busy and idle periods of *)
(* the medium, adds to it when the medium changes and reports at fixed     *)
(* times; DccEntityBase receives the signal.  Time never ends: the receiver*)
(* keeps the time since its last entry.                                    *)
(***************************************************************************)
EXTENDS Integers, FiniteSets, Sequences

CONSTANTS
    Window,         \* samples of the sampling interval: 12500
    SamplePeriod,   \* 8 us
    ReportInterval  \* 100 ms

VARIABLES
    periods,    \* pairs of a number of samples and a state, the newest at the end
    busy,       \* the medium is not free
    age,        \* time since the last period was added
    load,       \* channel load that congestion control knows, in samples
    cycle,      \* time until the next report
    pending,    \* the report of the current time has not been made
    since,      \* time since the medium changed
    quiet       \* time since the medium was busy last, up to a bound

vars == <<periods, busy, age, load, cycle, pending, since, quiet>>

QuietBound == 2 * Window * SamplePeriod

-----------------------------------------------------------------------------
(* Complete samples since the last period.  More than a window of them have*)
(* the same effect as a window.                                            *)
NewSamples == IF age \div SamplePeriod > Window THEN Window ELSE age \div SamplePeriod

(* From the newest period back to the one that crosses the boundary of the *)
(* window, which is counted up to the boundary and removed with everything *)
(* before it.                                                              *)
Newest(k) == periods[Len(periods) + 1 - k]

(* The sums of the first values, of none to all of them.                   *)
Totals(values) ==
    LET sum[k \in 0..Len(values)] == IF k = 0 THEN 0 ELSE sum[k - 1] + values[k]
    IN  sum

(* How long each period is, the newest first, and how long it is busy.     *)
Lengths == [k \in 1..Len(periods) |-> Newest(k)[1]]
BusyLengths == [k \in 1..Len(periods) |-> IF Newest(k)[2] THEN Newest(k)[1] ELSE 0]

(* How many periods lie within the window.                                 *)
Within == Cardinality({k \in 1..Len(periods) : Totals(Lengths)[k] < Window})

Recent == SubSeq(periods, Len(periods) + 1 - Within, Len(periods))

RecentLoad ==
    LET full == Totals(BusyLengths)[Within]
        crossing == Newest(Within + 1)
    IN  IF Within = Len(periods) \/ ~crossing[2] THEN full
        ELSE full + crossing[1] - (Totals(Lengths)[Within + 1] - Window)

-----------------------------------------------------------------------------
(* The receiver starts with an idle window.                                *)
Init ==
    /\ periods = << <<Window, FALSE>> >> /\ busy = FALSE /\ age = 0
    /\ load = 0 /\ cycle = ReportInterval /\ pending = FALSE
    /\ since = SamplePeriod /\ quiet = QuietBound

(* recomputeMediumFree when the medium becomes busy or idle.  Times shorter*)
(* than a sample are left for the next call; busy and idle periods are not *)
(* shorter than a sample.                                                  *)
RecomputeMediumFree ==
    /\ since >= SamplePeriod
    /\ \/ age < SamplePeriod /\ UNCHANGED <<periods, age>>
       \/ age >= SamplePeriod /\ periods' = Append(periods, <<NewSamples, busy>>) /\ age' = 0
    /\ busy' = ~busy
    /\ since' = 0
    /\ quiet' = IF busy THEN 0 ELSE quiet
    /\ UNCHANGED <<load, cycle, pending>>

(* reportChannelLoad; DccEntityBase passes the load on to congestion       *)
(* control.                                                                *)
ReportChannelLoad ==
    /\ pending
    /\ periods' = Recent /\ load' = RecentLoad
    /\ pending' = FALSE
    /\ UNCHANGED <<busy, age, cycle, since, quiet>>

(* Time passes when the report of the current time has been made.          *)
Tick ==
    /\ ~pending
    /\ cycle' = IF cycle = 1 THEN ReportInterval ELSE cycle - 1
    /\ pending' = (cycle = 1)
    /\ age' = IF age < Window * SamplePeriod THEN age + 1 ELSE age
    /\ since' = IF since < SamplePeriod THEN since + 1 ELSE since
    /\ quiet' = IF busy THEN 0 ELSE IF quiet < QuietBound THEN quiet + 1 ELSE quiet
    /\ UNCHANGED <<periods, busy, load>>

Next == RecomputeMediumFree \/ ReportChannelLoad \/ Tick

Spec == Init /\ [][Next]_vars

-----------------------------------------------------------------------------
(* VanetRx::reportChannelLoad is to "remove obsolete periods": a report    *)
(* counts no busy period that is over for longer than it takes to fill the *)
(* window with samples twice.                                              *)
ObsoleteForgotten == [][ReportChannelLoad => (load' > 0 => quiet < QuietBound)]_vars
=============================================================================
