--------------------------- MODULE MCTraciDelayed ---------------------------
(* A model of TraciDelayed for TLC.                                        *)
EXTENDS TraciDelayed

(* Parameter version = -1 accepts every server that is not too old.        *)
AnyVersion == -1
=============================================================================
