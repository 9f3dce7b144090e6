---------------------------- MODULE MCAlertRules ----------------------------
(* Instances of AlertRules for TLC. *)
EXTENDS AlertRules, TLC

Content(x, secs, hook) ==
    [expr |-> x, enabled |-> TRUE, for |-> secs, cooldown |-> 1, webhook |-> hook]

\* Two expressions: one fires at once and has a webhook of its own, the other
\* fires after a tick and has not.
TwoExpressions == {Content("lag", 0, TRUE), Content("pending", 1, FALSE)}

\* One that fires after a tick, and another one that is switched off.
Switched == {Content("lag", 1, TRUE), [Content("pending", 0, FALSE) EXCEPT !.enabled = FALSE]}

TableSymmetry == Permutations(Incident) \cup Permutations(Editor)
=============================================================================
