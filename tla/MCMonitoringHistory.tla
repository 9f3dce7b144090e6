------------------------ MODULE MCMonitoringHistory ------------------------
(* Instances of MonitoringHistory for TLC. *)
EXTENDS MonitoringHistory, TLC

\* Every group belongs to the one stream there is.
OneStream == [g \in Group |-> CHOOSE s \in Stream : TRUE]

\* One group has every consumer, the others none.
OneGroupUsed ==
    LET used == CHOOSE g \in Group : TRUE
    IN  [g \in Group |-> IF g = used THEN Consumer ELSE {}]

ConsumerSymmetry == Permutations(Consumer)
=============================================================================
