------------------------------ MODULE DutLink ------------------------------
(***************************************************************************)
(* What the testbed promises to a device under test (DUT): its packets     *)
(* reach the physical twin in the order they were sent and at most once.   *)
(* Packets get lost only while no twin is there or when the twin leaves.   *)
(***************************************************************************)
EXTENDS Naturals

VARIABLES
    sent,       \* number of packets the DUT has sent: they are 1 .. sent
    underway,   \* packets sent and neither heard nor lost
    heard,      \* the packet the twin's radio got last
    twin        \* a twin is there

vars == <<sent, underway, heard, twin>>

Init == sent = 0 /\ underway = {} /\ heard = 0 /\ twin = FALSE

Send ==
    /\ sent' = sent + 1
    /\ underway' = underway \cup {sent'}
    /\ UNCHANGED <<heard, twin>>

(* The oldest packet is heard, and no packet after a later one.            *)
Hear ==
    /\ twin
    /\ heard' \in underway /\ heard' > heard
    /\ \A p \in underway : heard' <= p
    /\ underway' = underway \ {heard'}
    /\ UNCHANGED <<sent, twin>>

(* Without a twin the link is cleared, at once and as a whole.             *)
Lose ==
    /\ ~twin
    /\ underway' = {}
    /\ UNCHANGED <<sent, heard, twin>>

Join == ~twin /\ twin' /\ UNCHANGED <<sent, underway, heard>>

(* A twin that leaves takes with it what was handed over to it, which is   *)
(* older than what is left.                                                *)
Leave ==
    /\ twin /\ ~twin'
    /\ underway' \subseteq underway
    /\ \A p \in underway', q \in underway \ underway' : q < p
    /\ UNCHANGED <<sent, heard>>

Next == Send \/ Hear \/ Lose \/ Join \/ Leave

Spec == Init /\ [][Next]_vars
=============================================================================
