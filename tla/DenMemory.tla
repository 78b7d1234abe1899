----------------------------- MODULE DenMemory -----------------------------
(***************************************************************************)
(* The messages a station has received about dangers on the road, as       *)
(* den::Memory keeps them (src/src/artery/application/den/Memory.cc): at   *)
(* most one per action, which is an originating station and its sequence   *)
(* number, ordered by expiry and by cause.  Time is TAI, in scaled units.  *)
(***************************************************************************)
EXTENDS Integers, FiniteSets

CONSTANTS
    Unset,              \* an optional field that is not present
    DefaultValidity     \* 600 s

ASSUME DenMemoryAssumption == DefaultValidity \in Nat /\ Unset \notin Nat

(* operator== of ActionID *)
SameAction(d, e) == d.station = e.station /\ d.sequence = e.sequence

(* Reception::expiry *)
DenmExpiry(d) ==
    d.detectionTime + (IF d.validity = Unset THEN DefaultValidity ELSE d.validity)

(* Mutant of receivedDenm: any message replaces the stored one.            *)
receivedAlways(memory, denm) ==
    {d \in memory : ~ SameAction(d, denm)} \cup {denm}

(* Memory::received: of two messages about an action the one with the      *)
(* later reference time stays.                                             *)
receivedDenm(memory, denm) ==
    LET found == {d \in memory : SameAction(d, denm)}
    IN  IF \A d \in found : d.referenceTime < denm.referenceTime
          THEN (memory \ found) \cup {denm}
          ELSE memory

(* Memory::drop *)
dropDenms(memory, tai) == {d \in memory : DenmExpiry(d) >= tai}

(* Memory::count *)
countDenms(memory, cause) == Cardinality({d \in memory : d.cause = cause})
=============================================================================
