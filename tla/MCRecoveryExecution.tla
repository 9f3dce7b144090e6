------------------------ MODULE MCRecoveryExecution ------------------------
(* Instances of RecoveryExecution for TLC. *)
EXTENDS RecoveryExecution, TLC

SetId(from, to) == [action |-> "setid", expected |-> from, target |-> to]

\* A claim, and group ids moved forth and back.
Commands == {[action |-> "claim", expected |-> 0, target |-> 0], SetId(0, 1), SetId(1, 0)}

RequestSymmetry == Permutations(Executor)
=============================================================================
