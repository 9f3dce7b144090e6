----------------------------- MODULE AlertOutbox -----------------------------
(***************************************************************************)
(* The durable notification outbox: alertWebhookDispatcher (alerts.go) on  *)
(* the table alert_notification_jobs (alert_operations.go).                *)
(*                                                                         *)
(* A caller inserts a row and offers it to a bounded channel; workers take *)
(* from the channel, claim the row under a lease, POST it and record the   *)
(* outcome; a scanner offers again what the channel dropped, what is due   *)
(* for a retry and what a dead worker still holds.  Rows survive a crash,  *)
(* the channel, the scanner's list and the workers do not.                 *)
(*                                                                         *)
(* A tick is a wall clock second and a stored instant is kept as the       *)
(* seconds left to it.  Instants are compared as text with trailing zeros  *)
(* cut off (formatAlertTime): across seconds the order is right, within    *)
(* one second it can be wrong.  So 0 is past, 1 is "this second", which a  *)
(* comparison may take either way, and more is in the future.  The random  *)
(* claim token is new with every claim of a row, as its attempt number is, *)
(* and is identified with it.  The log alert_webhook_deliveries is written *)
(* next to every outcome and not read here; it is left out.                *)
(***************************************************************************)
EXTENDS Integers, Sequences, FiniteSets

CONSTANTS
    Job,          \* notifications by dedup_key
    Worker,       \* goroutines of the pool
    QueueSize,    \* capacity of the channel
    MaxAttempts,  \* alertDeliveryMaxAttempts
    ClaimTTL,     \* alertDeliveryClaimTTL, in ticks
    SendTime,     \* ticks from a claim to the end of its timeouts
    Prompt,       \* workers that are scheduled well enough to keep to them
    MaxFaults,    \* crashes, shutdowns and database errors of a behaviour
    Expiring,     \* jobs whose 30 days of retention end in a behaviour
    None

ASSUME OutboxAssumption ==
    /\ IsFiniteSet(Worker)
    /\ QueueSize \in Nat \ {0}
    /\ MaxAttempts \in Nat \ {0}
    /\ SendTime \in Nat \ {0} /\ ClaimTTL \in Nat /\ SendTime < ClaimTTL
    /\ Prompt \subseteq Worker
    /\ MaxFaults \in Nat
    /\ Expiring \subseteq Job /\ None \notin Job

VARIABLES
    row,       \* alert_notification_jobs
    process,   \* running, stopping (context cancelled) or down
    inserted,  \* rows inserted by a caller that has not offered them yet
    queue,     \* the channel
    found,     \* what the scanner read and has not offered yet
    scanned,   \* whether the scanner ran in this tick
    worker,    \* what each worker holds
    received,  \* POSTs of each job that reached its receiver
    refused,   \* jobs answered with a status that is not retried
    faults

memory == <<inserted, queue, found, scanned, worker>>
vars == <<row, process, memory, received, refused, faults>>

Delay(attempt) == attempt * attempt        \* alertDeliveryRetryDelay, seconds

NoRow == [state |-> "absent", attempts |-> 0, due |-> 0, lease |-> 0]
Idle  == [job |-> None, attempt |-> 0, stage |-> "idle", reached |-> FALSE]

RowRecord ==
    [state: {"absent", "pending", "claimed", "retry", "delivered", "failed"},
     attempts: 0..MaxAttempts, due: Nat, lease: 0..ClaimTTL + 1]

WorkerRecord ==
    [job: Job \cup {None}, attempt: 0..MaxAttempts,
     stage: {"idle", "claimed", "sending"}, reached: BOOLEAN]

TypeOK ==
    /\ row \in [Job -> RowRecord]
    /\ process \in {"running", "stopping", "down"}
    /\ inserted \subseteq Job
    /\ queue \in Seq(Job) /\ Len(queue) <= QueueSize
    /\ found \subseteq Job
    /\ scanned \in BOOLEAN
    /\ worker \in [Worker -> WorkerRecord]
    /\ received \in [Job -> Nat]
    /\ refused \subseteq Job
    /\ faults \in 0..MaxFaults

Init ==
    /\ row = [j \in Job |-> NoRow]
    /\ process = "running"
    /\ inserted = {}
    /\ queue = <<>>
    /\ found = {}
    /\ scanned = FALSE
    /\ worker = [w \in Worker |-> Idle]
    /\ received = [j \in Job |-> 0]
    /\ refused = {}
    /\ faults = MaxFaults

Unfinished == {"pending", "claimed", "retry"}

-----------------------------------------------------------------------------
(* Callers: EnqueueDurable, reserveAlertNotificationJob.                     *)

\* INSERT OR IGNORE: a known dedup_key changes nothing and is not queued.
Insert(j) ==
    /\ process = "running"
    /\ row[j].state = "absent"
    /\ row' = [row EXCEPT ![j] = [state |-> "pending", attempts |-> 0, due |-> 1, lease |-> 0]]
    /\ inserted' = inserted \cup {j}
    /\ UNCHANGED <<process, queue, found, scanned, worker, received, refused, faults>>

\* The send to the channel never blocks: a full channel drops the item and the
\* caller is told that it was accepted.
Offered(j) == IF Len(queue) < QueueSize THEN Append(queue, j) ELSE queue

OfferInserted(j) ==
    /\ j \in inserted
    /\ queue' = Offered(j)
    /\ inserted' = inserted \ {j}
    /\ UNCHANGED <<row, process, found, scanned, worker, received, refused, faults>>

-----------------------------------------------------------------------------
(* The scanner: recoverPending, dueAlertNotificationJobs.                    *)

\* Fault: the lease of another worker's claim is not looked at.
Claimable_NoLease(j, late) ==
    /\ row[j].attempts < MaxAttempts
    /\ row[j].due <= late
    /\ row[j].state \in {"pending", "retry", "claimed"}

\* The condition of the scan's SELECT and of the claim's UPDATE; late is 0 for
\* what every comparison takes as past and 1 for what one may take as past.
Claimable(j, late) ==
    /\ row[j].attempts < MaxAttempts
    /\ row[j].due <= late
    /\ \/ row[j].state \in {"pending", "retry"}
       \/ row[j].state = "claimed" /\ row[j].lease <= late

\* Fault: the last claim of a dead worker is never closed.
Abandoned_Never(j, late) == FALSE

Abandoned(j, late) ==
    /\ row[j].state = "claimed"
    /\ row[j].attempts >= MaxAttempts
    /\ row[j].lease <= late

Between(S, T) == {U \in SUBSET T : S \subseteq U}

\* Closes what has no attempts left, then reads at most QueueSize due rows: two
\* statements taken as one step, as the claim checks every row again.
Scan ==
    /\ process = "running"
    /\ ~scanned /\ found = {}
    /\ \E closed \in Between({j \in Job : Abandoned(j, 0)}, {j \in Job : Abandoned(j, 1)}) :
          row' = [j \in Job |-> IF j \in closed
                                THEN [row[j] EXCEPT !.state = "failed", !.lease = 0]
                                ELSE row[j]]
    /\ \E due \in Between({j \in Job : Claimable(j, 0)}, {j \in Job : Claimable(j, 1)}) :
          found' \in {U \in SUBSET due : U = due \/ Cardinality(U) = QueueSize}
    /\ Cardinality(found') <= QueueSize
    /\ scanned' = TRUE
    /\ UNCHANGED <<process, inserted, queue, worker, received, refused, faults>>

\* The first item that finds the channel full ends the scan.
OfferFound ==
    /\ found # {}
    /\ \E j \in found :
          IF Len(queue) < QueueSize
          THEN queue' = Append(queue, j) /\ found' = found \ {j}
          ELSE found' = {} /\ UNCHANGED queue
    /\ UNCHANGED <<row, process, inserted, scanned, worker, received, refused, faults>>

-----------------------------------------------------------------------------
(* A worker: deliver, claimAlertNotificationJob, completeAlertNotificationJob. *)

\* Fault: attempts are charged when the outcome is recorded.
Claimed_Uncharged(j) ==
    [row EXCEPT ![j].state = "claimed", ![j].lease = ClaimTTL + 1,
                ![j].attempts = IF @ = 0 THEN 1 ELSE @]

\* The attempt is charged before anything is sent.
Claimed(j) ==
    [row EXCEPT ![j].state = "claimed", ![j].attempts = @ + 1, ![j].lease = ClaimTTL + 1]

Claim(w) ==
    LET j == Head(queue)
    IN  /\ process = "running"
        /\ worker[w].stage = "idle"
        /\ queue # <<>>
        /\ Claimable(j, 1)
        /\ row' = Claimed(j)
        /\ worker' = [worker EXCEPT ![w] =
              [job |-> j, attempt |-> row'[j].attempts, stage |-> "claimed", reached |-> FALSE]]
        /\ queue' = Tail(queue)
        /\ UNCHANGED <<process, inserted, found, scanned, received, refused, faults>>

\* Not due, claimed by another worker, closed, or the context is cancelled:
\* the item is dropped without a trace.
ClaimRefused(w) ==
    /\ process # "down"
    /\ worker[w].stage = "idle"
    /\ queue # <<>>
    /\ process = "stopping" \/ ~Claimable(Head(queue), 0)
    /\ queue' = Tail(queue)
    /\ UNCHANGED <<row, process, inserted, found, scanned, worker, received, refused, faults>>

\* The POST leaves and may or may not reach the receiver.
Send(w) ==
    /\ process = "running"
    /\ worker[w].stage = "claimed"
    /\ \E reached \in BOOLEAN :
          /\ worker' = [worker EXCEPT ![w].stage = "sending", ![w].reached = reached]
          /\ received' = [received EXCEPT ![worker[w].job] = IF reached THEN @ + 1 ELSE @]
    /\ UNCHANGED <<row, process, inserted, queue, found, scanned, refused, faults>>

\* The context was cancelled between the claim and the POST.
LeaveClaimed(w) ==
    /\ process = "stopping"
    /\ worker[w].stage = "claimed"
    /\ worker' = [worker EXCEPT ![w] = Idle]
    /\ UNCHANGED <<row, process, inserted, queue, found, scanned, received, refused, faults>>

\* Fault: the outcome is recorded whoever holds the claim now.
Owns_AnyClaim(w) == row[worker[w].job].state = "claimed"

Owns(w) ==
    /\ row[worker[w].job].state = "claimed"
    /\ row[worker[w].job].attempts = worker[w].attempt

\* Fault: a network error gives the notification up at once.
Settled_NoRetry(r, attempt, answer) ==
    IF answer = "ok"
    THEN [r EXCEPT !.state = "delivered", !.due = 1, !.lease = 0]
    ELSE [r EXCEPT !.state = "failed", !.due = 1, !.lease = 0]

\* The row after an answer: a transport error, 408, 429 or 5xx is retried while
\* attempts are left.
Settled(r, attempt, answer) ==
    CASE answer = "ok" ->
            [r EXCEPT !.state = "delivered", !.due = 1, !.lease = 0]
      [] answer = "retryable" /\ attempt < MaxAttempts ->
            [r EXCEPT !.state = "retry", !.due = Delay(attempt) + 1, !.lease = 0]
      [] OTHER ->
            [r EXCEPT !.state = "failed", !.due = 1, !.lease = 0]

\* The answer, or its absence, and the outcome recorded if the claim is still
\* the worker's own.  Cancelling the context cuts the POST off with status 0.
Complete(w) ==
    LET j == worker[w].job
    IN  /\ process # "down"
        /\ worker[w].stage = "sending"
        /\ \E answer \in {"ok", "retryable", "refused"} :
              /\ answer \in {"ok", "refused"} => worker[w].reached
              /\ row' = IF Owns(w)
                        THEN [row EXCEPT ![j] = Settled(@, worker[w].attempt, answer)]
                        ELSE row
              /\ refused' = IF answer = "refused" THEN refused \cup {j} ELSE refused
        /\ worker' = [worker EXCEPT ![w] = Idle]
        /\ UNCHANGED <<process, inserted, queue, found, scanned, received, faults>>

-----------------------------------------------------------------------------
(* Time, failures, retention.                                                *)

Minus(n) == IF n = 0 THEN 0 ELSE n - 1

Busy(w) == worker[w].stage # "idle"

\* How long ago a worker claimed what it holds: the claim of a timely worker is
\* still its own.
WithinTimeouts(w) == row[worker[w].job].lease > ClaimTTL + 1 - SendTime

\* If the process is timely, a worker is done before its timeouts are over.
Tick ==
    /\ \A w \in Prompt : Busy(w) => WithinTimeouts(w)
    /\ row' = [j \in Job |-> [row[j] EXCEPT !.due = Minus(@), !.lease = Minus(@)]]
    /\ scanned' = FALSE
    /\ UNCHANGED <<process, inserted, queue, found, worker, received, refused, faults>>

Fault == faults > 0 /\ faults' = faults - 1

\* SIGTERM cancels the context of the callers, the scanner and the workers.
Stop ==
    /\ Fault
    /\ process = "running"
    /\ process' = "stopping"
    /\ UNCHANGED <<row, memory, received, refused>>

MemoryIsLost ==
    /\ process' = "down"
    /\ inserted' = {} /\ queue' = <<>> /\ found' = {} /\ scanned' = FALSE
    /\ worker' = [w \in Worker |-> Idle]
    /\ UNCHANGED <<row, received, refused>>

Exit == process = "stopping" /\ MemoryIsLost /\ UNCHANGED faults

Crash == Fault /\ process = "running" /\ MemoryIsLost

Restart ==
    /\ process = "down"
    /\ process' = "running"
    /\ UNCHANGED <<row, memory, received, refused, faults>>

\* The scan's query fails, with nothing read.
ScanFails ==
    /\ Fault
    /\ process = "running"
    /\ ~scanned /\ found = {}
    /\ scanned' = TRUE
    /\ UNCHANGED <<row, process, inserted, queue, found, worker, received, refused>>

\* The claim's transaction fails and the item is dropped.
ClaimFails(w) ==
    /\ Fault
    /\ process = "running"
    /\ worker[w].stage = "idle"
    /\ queue # <<>>
    /\ queue' = Tail(queue)
    /\ UNCHANGED <<row, process, inserted, found, scanned, worker, received, refused>>

\* The outcome cannot be written: the row stays claimed until its lease ends.
CompleteFails(w) ==
    /\ Fault
    /\ process # "down"
    /\ worker[w].stage = "sending"
    /\ worker' = [worker EXCEPT ![w] = Idle]
    /\ UNCHANGED <<row, process, inserted, queue, found, scanned, received, refused>>

\* maintainAdvancedAlertHistory, 30 days after completed_at: nothing in memory
\* is that old.
Purge(j) ==
    /\ j \in Expiring
    /\ row[j].state \in {"delivered", "failed"}
    /\ row[j].due = 0
    /\ \A w \in Worker : worker[w].job # j
    /\ j \notin inserted \cup found /\ \A k \in DOMAIN queue : queue[k] # j
    /\ row' = [row EXCEPT ![j] = NoRow]
    /\ received' = [received EXCEPT ![j] = 0]
    /\ refused' = refused \ {j}
    /\ UNCHANGED <<process, memory, faults>>

-----------------------------------------------------------------------------

Work(w) == Claim(w) \/ ClaimRefused(w) \/ Send(w) \/ LeaveClaimed(w) \/ Complete(w)

Failure ==
    \/ Stop \/ Crash \/ ScanFails
    \/ \E w \in Worker : ClaimFails(w) \/ CompleteFails(w)

Next ==
    \/ \E j \in Job : Insert(j) \/ OfferInserted(j) \/ Purge(j)
    \/ Scan \/ OfferFound
    \/ \E w \in Worker : Work(w)
    \/ Tick \/ Exit \/ Restart \/ Failure

Spec == Init /\ [][Next]_vars

\* Every goroutine is scheduled, the clock runs, a stopping process exits and
\* the container is restarted (restart: unless-stopped in the compose file).
FairSpec ==
    /\ Spec
    /\ WF_vars(Scan) /\ WF_vars(OfferFound)
    /\ \A j \in Job : WF_vars(OfferInserted(j))
    /\ \A w \in Worker : WF_vars(Work(w))
    /\ WF_vars(Tick) /\ WF_vars(Exit) /\ WF_vars(Restart)

-----------------------------------------------------------------------------
(* Properties.                                                               *)

\* How the ledger sees a row.
Entry(r) == IF r.state = "absent" THEN "none"
            ELSE IF r.state \in Unfinished THEN "open" ELSE r.state

Ledger == INSTANCE DeliveryLedger WITH
    Budget  <- MaxAttempts,
    entry   <- [j \in Job |-> Entry(row[j])],
    charged <- [j \in Job |-> row[j].attempts]

\* The outbox implements the delivery ledger: whatever is queued twice, lost
\* with the process or taken over after a lease, a notification costs at most
\* MaxAttempts attempts, is received at most as often as it was charged, is
\* closed once, as delivered only if received and as failed only if refused or
\* spent (claimAlertNotificationJob, completeAlertNotificationJob, the closing
\* UPDATE of dueAlertNotificationJobs).
ImplementsLedger == Ledger!Spec

\* A receiver never sees a notification more often than attempts were charged
\* to its row, although the row and the POST are not one transaction: a crash
\* or a failed write after the POST is paid for by the charge made before it.
SendsAreCharged ==
    \A j \in Job : received[j] <= row[j].attempts

\* Two workers that keep to their timeouts never hold the same notification,
\* however often it is queued and whatever workers do that are late.
OneHolder ==
    \A v, w \in Prompt : Busy(v) /\ worker[v].job = worker[w].job => v = w

\* A claim whose lease still runs is ended by nobody but its owner: a worker
\* that comes back after its lease was taken over changes nothing.
OnlyOwnerEndsClaim ==
    [][\A j \in Job :
          row[j].state = "claimed" /\ row[j].lease > 1 /\ row'[j].state # "claimed" =>
              \E w \in Worker : /\ worker[w].stage = "sending" /\ worker'[w] = Idle
                                /\ worker[w].job = j /\ worker[w].attempt = row[j].attempts]_vars

\* Every accepted notification is delivered or given up, even if the channel
\* was full, the process died with it or its last claim was never answered.
EveryJobEnds ==
    \A j \in Job : row[j].state \in Unfinished ~> row[j].state \in {"delivered", "failed"}
=============================================================================
