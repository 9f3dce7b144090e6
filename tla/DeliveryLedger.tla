--------------------------- MODULE DeliveryLedger ---------------------------
(***************************************************************************)
(* What the notification outbox promises, without queues, workers, leases  *)
(* or restarts: an accepted notification is paid for from a fixed budget   *)
(* of attempts, a receiver never sees it more often than attempts were     *)
(* charged, and it is closed once: as delivered only if it was received,   *)
(* as failed only if its budget is spent or the receiver refused it.       *)
(***************************************************************************)
EXTENDS Naturals

CONSTANTS
    Job,     \* notifications, by dedup_key
    Budget   \* attempts a notification may cost

VARIABLES
    entry,     \* of each notification: none, open, delivered or failed
    charged,   \* attempts charged to it
    received,  \* times it reached the receiver
    refused    \* notifications a receiver refused for good

vars == <<entry, charged, received, refused>>

Init ==
    /\ entry = [j \in Job |-> "none"]
    /\ charged = [j \in Job |-> 0]
    /\ received = [j \in Job |-> 0]
    /\ refused = {}

Accept(j) ==
    /\ entry[j] = "none"
    /\ entry' = [entry EXCEPT ![j] = "open"]
    /\ UNCHANGED <<charged, received, refused>>

Charge(j) ==
    /\ entry[j] = "open"
    /\ charged[j] < Budget
    /\ charged' = [charged EXCEPT ![j] = @ + 1]
    /\ UNCHANGED <<entry, received, refused>>

\* A closed notification may still reach its receiver: the one who closed it
\* need not be the one who sends it.
Reach(j) ==
    /\ received[j] < charged[j]
    /\ received' = [received EXCEPT ![j] = @ + 1]
    /\ UNCHANGED <<entry, charged, refused>>

Deliver(j) ==
    /\ entry[j] = "open"
    /\ received[j] > 0
    /\ entry' = [entry EXCEPT ![j] = "delivered"]
    /\ UNCHANGED <<charged, received, refused>>

Refuse(j) ==
    /\ received[j] > 0
    /\ refused' = refused \cup {j}
    /\ entry' \in {entry, [entry EXCEPT ![j] = IF @ = "open" THEN "failed" ELSE @]}
    /\ UNCHANGED <<charged, received>>

\* Several notifications may be given up at once.
Exhaust(S) ==
    /\ \A j \in S : entry[j] = "open" /\ charged[j] = Budget
    /\ entry' = [j \in Job |-> IF j \in S THEN "failed" ELSE entry[j]]
    /\ UNCHANGED <<charged, received, refused>>

Forget(j) ==
    /\ entry[j] \in {"delivered", "failed"}
    /\ entry' = [entry EXCEPT ![j] = "none"]
    /\ charged' = [charged EXCEPT ![j] = 0]
    /\ received' = [received EXCEPT ![j] = 0]
    /\ refused' = refused \ {j}

Next ==
    \/ \E j \in Job :
          Accept(j) \/ Charge(j) \/ Reach(j) \/ Deliver(j) \/ Refuse(j) \/ Forget(j)
    \/ \E S \in SUBSET Job : Exhaust(S)

Spec == Init /\ [][Next]_vars
=============================================================================
