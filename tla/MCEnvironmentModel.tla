------------------------- MODULE MCEnvironmentModel -------------------------
(* Models of EnvironmentModel for TLC: identifiers are interchangeable     *)
(* within the equipped and the other vehicles.                             *)
EXTENDS EnvironmentModel, TLC

Symmetric == Permutations(Equipped) \cup Permutations(Vehicles \ Equipped)
=============================================================================
