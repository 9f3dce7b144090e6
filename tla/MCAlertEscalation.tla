------------------------- MODULE MCAlertEscalation -------------------------
(* Instances of AlertEscalation for TLC. *)
EXTENDS AlertEscalation, TLC
=============================================================================
