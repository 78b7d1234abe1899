---------------------------- MODULE MCDenService ----------------------------
(* Models of DenService for TLC: one station drives and runs all use       *)
(* cases, one is parked and takes part in exchanges only.                  *)
EXTENDS DenService

CONSTANTS a, b, f

MCUseCaseConfig == a :> <<EndOfQueue, Ahead, Impact>> @@ b :> <<Ahead, Impact>>
MCReach == {<<a, a>>, <<a, b>>, <<b, a>>, <<f, a>>}
MCSampleDuration == EndOfQueue :> 2 @@ Ahead :> 3
MCSampleInterval == EndOfQueue :> 1 @@ Ahead :> 1
MCValidity == EndOfQueue :> 1 @@ Ahead :> 3 @@ Impact :> 1
=============================================================================
