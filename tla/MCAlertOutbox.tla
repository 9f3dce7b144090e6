--------------------------- MODULE MCAlertOutbox ---------------------------
(* Instances of AlertOutbox for TLC. *)
EXTENDS AlertOutbox, TLC

PromptSymmetry == Permutations(Prompt)
=============================================================================
