---------------------------- MODULE MCTraciBasic ----------------------------
(* A model of TraciBasic for TLC.                                          *)
EXTENDS TraciBasic, TLC

(* Vehicles are interchangeable.                                           *)
Symmetry == Permutations(Vehicles)
=============================================================================
