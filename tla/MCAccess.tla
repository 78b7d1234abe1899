------------------------------ MODULE MCAccess ------------------------------
(* Two states of the rate control, and a repetition that fits twice.       *)
EXTENDS Access

MCInterval == <<1, 2>>
MCRepetitions == {[interval |-> 2, maximum |-> 5], [interval |-> 0, maximum |-> 0]}
=============================================================================
