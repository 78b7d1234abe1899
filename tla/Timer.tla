------------------------------- MODULE Timer -------------------------------
(***************************************************************************)
(* artery::Timer (src/src/artery/application/Timer.cc): simulation time    *)
(* linked to TAI through the time base, in milliseconds, and time stamps   *)
(* that carry TAI modulo 2^16 only, as the generationDeltaTime of a CAM.   *)
(***************************************************************************)
EXTENDS Integers

CONSTANTS
    Modulus,    \* 2^16, the range of a time stamp
    Timebase    \* mTimebase: TAI of simulation time zero

(* The time base lies at least one modulus after the TAI epoch, so that    *)
(* the unsigned arithmetic of reconstructMilliseconds does not wrap.       *)
ASSUME TimerAssumption ==
    /\ Modulus \in Nat /\ Modulus % 2 = 0 /\ Modulus > 2
    /\ Timebase \in Nat /\ Timebase >= Modulus

Timestamps == 0..(Modulus - 1)

(* 0x7fff *)
HalfRange == (Modulus \div 2) - 1

(* getTimeFor(SimTime) followed by countTaiMilliseconds *)
TaiFor(simtime) == Timebase + simtime

(* The time stamp of a point of simulation time. *)
GenerationDeltaTime(simtime) == TaiFor(simtime) % Modulus

(* getTimeFor(time_point): points before the time base become time zero. *)
SimTimeFor(tai) == IF tai < Timebase THEN 0 ELSE tai - Timebase

(* Most significant bits of the current time with the bits of a time stamp. *)
WithMsbOf(tai, ms16) == (tai - (tai % Modulus)) + ms16

(* Mutant of reconstructMilliseconds: a carry into the upper bits is only  *)
(* corrected forwards.                                                     *)
reconstructForward(simtime, ms16) ==
    LET now == TaiFor(simtime)
        rec == WithMsbOf(now, ms16)
    IN  IF now > rec + HalfRange THEN rec + Modulus ELSE rec

reconstructMilliseconds(simtime, ms16) ==
    LET now == TaiFor(simtime)
        rec == WithMsbOf(now, ms16)
    IN  IF now > rec + HalfRange THEN rec + Modulus
        ELSE IF now + HalfRange < rec THEN rec - Modulus
        ELSE rec
=============================================================================
