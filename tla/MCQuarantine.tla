---------------------------- MODULE MCQuarantine ----------------------------
(* Instances of Quarantine for TLC. *)
EXTENDS Quarantine, TLC

Symmetry == Permutations(Request) \cup Permutations(Target)
=============================================================================
