------------------------- MODULE AlertOutbox_proofs -------------------------
(***************************************************************************)
(* For any jobs, any finite pool of workers and any sizes, timeouts and    *)
(* faults, timely or not: the types, the bound of the sends by the charges *)
(* and the refinement of the delivery ledger; and that of the workers that *)
(* keep to their timeouts one holds a row.  The bound is not inductive     *)
(* alone: a worker that has claimed a row and not sent yet still owes it a *)
(* POST, so that the POSTs owed are counted with the POSTs made.  Two who  *)
(* hold a row hold it under different attempts (ClaimsDiffer), and a       *)
(* timely one under the last, with its lease still running (Timely).       *)
(***************************************************************************)
EXTENDS AlertOutbox, FiniteSetTheorems, SequenceTheorems, TLAPS

\* Workers that have charged an attempt of j and not sent it yet.
Unsent(j) == {w \in Worker : worker[w].stage = "claimed" /\ worker[w].job = j}

\* A worker is idle, or it holds a row that exists under an attempt that was
\* charged to it, and what it says of the receiver is true.
Holding ==
    \A w \in Worker :
        \/ worker[w] = Idle
        \/ /\ worker[w].stage \in {"claimed", "sending"}
           /\ worker[w].job \in Job
           /\ row[worker[w].job].state # "absent"
           /\ worker[w].attempt <= row[worker[w].job].attempts
           /\ worker[w].reached => worker[w].stage = "sending" /\ received[worker[w].job] > 0

Budgeted == \A j \in Job : received[j] + Cardinality(Unsent(j)) <= row[j].attempts

CleanSlate == \A j \in Job : row[j].state = "absent" => row[j].attempts = 0

\* The inductive invariant.
IInv == TypeOK /\ Holding /\ Budgeted /\ CleanSlate

-----------------------------------------------------------------------------

LEMMA UnsentFinite ==
    ASSUME NEW j
    PROVE  IsFiniteSet(Unsent(j)) /\ Cardinality(Unsent(j)) \in Nat
<1>1. Unsent(j) \in SUBSET Worker
  BY DEF Unsent
<1>2. QED
  BY <1>1, OutboxAssumption, FS_Subset, FS_CardinalityType

LEMMA InitIInv == Init => IInv
<1> SUFFICES ASSUME Init
             PROVE  IInv
  OBVIOUS
<1>1. TypeOK
  <2>1. NoRow \in RowRecord
    BY OutboxAssumption DEF NoRow, RowRecord
  <2>2. Idle \in WorkerRecord
    BY OutboxAssumption DEF Idle, WorkerRecord
  <2>3. queue \in Seq(Job) /\ Len(queue) <= QueueSize
    BY OutboxAssumption DEF Init
  <2>4. faults \in 0..MaxFaults
    BY OutboxAssumption DEF Init
  <2>5. QED
    BY <2>1, <2>2, <2>3, <2>4 DEF Init, TypeOK
<1>2. \A j \in Job : Cardinality(Unsent(j)) = 0
  <2>1. \A j \in Job : Unsent(j) = {}
    BY DEF Init, Unsent, Idle
  <2>2. QED
    BY <2>1, FS_EmptySet
<1>3. Holding /\ Budgeted /\ CleanSlate
  BY <1>2 DEF Init, Holding, Budgeted, CleanSlate, NoRow
<1>4. QED
  BY <1>1, <1>3 DEF IInv

\* A step that moves no worker, reaches no receiver and charges no attempt.
LEMMA Quiet ==
    ASSUME IInv, TypeOK', UNCHANGED <<worker, received>>,
           \A j \in Job : /\ row'[j].attempts = row[j].attempts
                          /\ row'[j].state = "absent" <=> row[j].state = "absent"
    PROVE  IInv'
<1>1. Holding'
  BY DEF IInv, Holding
<1>2. Budgeted'
  <2>1. \A j \in Job : Unsent(j)' = Unsent(j)
    BY DEF Unsent
  <2>2. QED
    BY <2>1 DEF IInv, Budgeted
<1>3. CleanSlate'
  BY DEF IInv, CleanSlate
<1>4. QED
  BY <1>1, <1>2, <1>3 DEF IInv

\* A step in which some workers let go of what they hold and nothing else moves
\* for the others.
LEMMA LetGo ==
    ASSUME IInv, TypeOK', NEW S \in SUBSET Worker,
           worker' = [w \in Worker |-> IF w \in S THEN Idle ELSE worker[w]],
           received' = received,
           \A j \in Job : /\ row'[j].attempts = row[j].attempts
                          /\ row'[j].state = "absent" <=> row[j].state = "absent"
    PROVE  IInv'
<1>1. Holding'
  BY DEF IInv, Holding
<1>2. Budgeted'
  <2> SUFFICES ASSUME NEW j \in Job
               PROVE  received'[j] + Cardinality(Unsent(j)') <= row'[j].attempts
    BY DEF Budgeted
  <2>1. Unsent(j)' \in SUBSET Unsent(j)
    BY DEF Unsent, Idle
  <2>2. /\ Cardinality(Unsent(j)') <= Cardinality(Unsent(j))
        /\ Cardinality(Unsent(j)) \in Nat /\ Cardinality(Unsent(j)') \in Nat
    BY <2>1, UnsentFinite, FS_Subset, FS_CardinalityType
  <2>3. received[j] + Cardinality(Unsent(j)) <= row[j].attempts
    BY DEF IInv, Budgeted
  <2>4. received[j] \in Nat /\ row[j].attempts \in Nat
    BY OutboxAssumption DEF IInv, TypeOK, RowRecord
  <2>5. QED
    BY <2>2, <2>3, <2>4
<1>3. CleanSlate'
  BY DEF IInv, CleanSlate
<1>4. QED
  BY <1>1, <1>2, <1>3 DEF IInv

-----------------------------------------------------------------------------

\* The channel stays within its capacity.
LEMMA QueueType ==
    ASSUME TypeOK, NEW j \in Job,
           \/ queue' = Offered(j)
           \/ Len(queue) < QueueSize /\ queue' = Append(queue, j)
           \/ queue # <<>> /\ queue' = Tail(queue)
           \/ queue' = queue
    PROVE  queue' \in Seq(Job) /\ Len(queue') <= QueueSize
<1>1. queue \in Seq(Job) /\ Len(queue) \in Nat /\ Len(queue) <= QueueSize /\ QueueSize \in Nat
  BY OutboxAssumption, LenProperties DEF TypeOK
<1>2. CASE Len(queue) < QueueSize /\ queue' = Append(queue, j)
  BY <1>1, <1>2, AppendProperties
<1>3. CASE queue # <<>> /\ queue' = Tail(queue)
  BY <1>1, <1>3, HeadTailProperties
<1>4. CASE queue' = queue
  BY <1>1, <1>4
<1>5. QED
  BY <1>2, <1>3, <1>4 DEF Offered

LEMMA HeadOfQueue ==
    ASSUME TypeOK, queue # <<>>
    PROVE  Head(queue) \in Job
BY HeadTailProperties DEF TypeOK

LEMMA ScanStep ==
    ASSUME IInv, Scan
    PROVE  IInv'
<1>1. PICK closed \in SUBSET Job :
         row' = [j \in Job |-> IF j \in closed
                               THEN [row[j] EXCEPT !.state = "failed", !.lease = 0] ELSE row[j]]
         /\ \A j \in closed : Abandoned(j, 1)
  BY DEF Scan, Between
<1>2. \A j \in Job : /\ row'[j] \in RowRecord
                     /\ row'[j].attempts = row[j].attempts
                     /\ row'[j].state = "absent" <=> row[j].state = "absent"
  <2> SUFFICES ASSUME NEW j \in Job
               PROVE  /\ row'[j] \in RowRecord
                      /\ row'[j].attempts = row[j].attempts
                      /\ row'[j].state = "absent" <=> row[j].state = "absent"
    OBVIOUS
  <2>1. row[j] \in RowRecord
    BY DEF IInv, TypeOK
  <2>2. CASE j \in closed
    <3>1. row'[j] = [[row[j] EXCEPT !.state = "failed"] EXCEPT !.lease = 0]
      BY <1>1, <2>2
    <3>2. [row[j] EXCEPT !.state = "failed"] \in RowRecord
      BY <2>1 DEF RowRecord
    <3>3. \A r \in RowRecord : /\ [r EXCEPT !.lease = 0] \in RowRecord
                               /\ [r EXCEPT !.lease = 0].state = r.state
                               /\ [r EXCEPT !.lease = 0].attempts = r.attempts
      BY OutboxAssumption DEF RowRecord
    <3>4. row'[j] \in RowRecord /\ row'[j].attempts = row[j].attempts /\ row'[j].state = "failed"
      BY <2>1, <3>1, <3>2, <3>3 DEF RowRecord
    <3>5. row[j].state = "claimed"
      BY <1>1, <2>2 DEF Abandoned
    <3>6. QED
      BY <3>4, <3>5
  <2>3. CASE j \notin closed
    BY <1>1, <2>1, <2>3
  <2>4. QED
    BY <2>2, <2>3
<1>3. found' \subseteq Job
  BY DEF Scan, Between
<1>4. TypeOK'
  BY <1>1, <1>2, <1>3 DEF Scan, IInv, TypeOK
<1>5. QED
  BY <1>2, <1>4, Quiet DEF Scan

LEMMA TickStep ==
    ASSUME IInv, Tick
    PROVE  IInv'
<1>1. \A j \in Job : /\ row'[j] \in RowRecord
                     /\ row'[j].attempts = row[j].attempts
                     /\ row'[j].state = row[j].state
  <2> SUFFICES ASSUME NEW j \in Job
               PROVE  /\ row'[j] \in RowRecord
                      /\ row'[j].attempts = row[j].attempts
                      /\ row'[j].state = row[j].state
    OBVIOUS
  <2>1. row[j] \in RowRecord
    BY DEF IInv, TypeOK
  <2>2. row'[j] = [row[j] EXCEPT !.due = Minus(@), !.lease = Minus(@)]
    BY DEF Tick
  <2>3. Minus(row[j].due) \in Nat /\ Minus(row[j].lease) \in 0..ClaimTTL + 1
    BY <2>1, OutboxAssumption DEF Minus, RowRecord
  <2>4. QED
    BY <2>1, <2>2, <2>3 DEF RowRecord
<1>2. TypeOK'
  BY <1>1 DEF Tick, IInv, TypeOK
<1>3. QED
  BY <1>1, <1>2, Quiet DEF Tick

\* The steps that move only what is in memory.
LEMMA MemoryStep ==
    ASSUME IInv,
           \/ \E j \in Job : OfferInserted(j)
           \/ OfferFound
           \/ \E w \in Worker : ClaimRefused(w) \/ ClaimFails(w)
           \/ ScanFails \/ Stop \/ Restart
    PROVE  IInv'
<1>1. /\ UNCHANGED <<row, worker, received, refused>>
      /\ process' \in {"running", "stopping", "down"}
      /\ inserted' \subseteq Job /\ found' \subseteq Job /\ scanned' \in BOOLEAN
  BY DEF OfferInserted, OfferFound, ClaimRefused, ClaimFails, ScanFails, Stop, Restart, memory,
         IInv, TypeOK
<1>2. faults' \in 0..MaxFaults
  BY OutboxAssumption DEF OfferInserted, OfferFound, ClaimRefused, ClaimFails, ScanFails, Stop,
     Restart, Fault, IInv, TypeOK
<1>3. queue' \in Seq(Job) /\ Len(queue') <= QueueSize
  <2>1. CASE \E j \in Job : OfferInserted(j)
    BY <2>1, QueueType DEF OfferInserted, IInv
  <2>2. CASE OfferFound
    <3>1. PICK j \in found : \/ Len(queue) < QueueSize /\ queue' = Append(queue, j)
                             \/ queue' = queue
      BY <2>2 DEF OfferFound
    <3>2. j \in Job
      BY <3>1 DEF IInv, TypeOK
    <3>3. QED
      BY <3>1, <3>2, QueueType DEF IInv
  <2>3. CASE \E w \in Worker : ClaimRefused(w) \/ ClaimFails(w)
    <3>1. queue # <<>> /\ queue' = Tail(queue)
      BY <2>3 DEF ClaimRefused, ClaimFails
    <3>2. Head(queue) \in Job
      BY <3>1, HeadOfQueue DEF IInv
    <3>3. QED
      BY <3>1, <3>2, QueueType DEF IInv
  <2>4. CASE ScanFails \/ Stop \/ Restart
    BY <2>4 DEF ScanFails, Stop, Restart, memory, IInv, TypeOK
  <2>5. QED
    BY <2>1, <2>2, <2>3, <2>4
<1>4. TypeOK'
  BY <1>1, <1>2, <1>3 DEF IInv, TypeOK
<1>5. QED
  BY <1>1, <1>4, Quiet

-----------------------------------------------------------------------------

LEMMA DelayType ==
    ASSUME NEW a \in 0..MaxAttempts
    PROVE  Delay(a) + 1 \in Nat
BY OutboxAssumption DEF Delay

\* What an answer makes of a row.
LEMMA SettledRow ==
    ASSUME NEW r \in RowRecord, NEW a \in 0..MaxAttempts, NEW answer
    PROVE  /\ Settled(r, a, answer) \in RowRecord
           /\ Settled(r, a, answer).attempts = r.attempts
           /\ \/ answer = "ok" /\ Settled(r, a, answer).state = "delivered"
              \/ /\ answer = "retryable" /\ a < MaxAttempts
                 /\ Settled(r, a, answer).state = "retry"
              \/ /\ answer # "ok" /\ ~(answer = "retryable" /\ a < MaxAttempts)
                 /\ Settled(r, a, answer).state = "failed"
<1>1. \A s \in {"delivered", "retry", "failed"}, d \in Nat :
         LET u == [r EXCEPT !.state = s, !.due = d, !.lease = 0]
         IN  u \in RowRecord /\ u.attempts = r.attempts /\ u.state = s
  <2> TAKE s \in {"delivered", "retry", "failed"}, d \in Nat
  <2>1. [r EXCEPT !.state = s] \in RowRecord
    BY DEF RowRecord
  <2>2. \A t \in RowRecord : /\ [t EXCEPT !.due = d] \in RowRecord
                             /\ [t EXCEPT !.due = d].attempts = t.attempts
                             /\ [t EXCEPT !.due = d].state = t.state
    BY DEF RowRecord
  <2>3. \A t \in RowRecord : /\ [t EXCEPT !.lease = 0] \in RowRecord
                             /\ [t EXCEPT !.lease = 0].attempts = t.attempts
                             /\ [t EXCEPT !.lease = 0].state = t.state
    BY OutboxAssumption DEF RowRecord
  <2>4. [r EXCEPT !.state = s].attempts = r.attempts /\ [r EXCEPT !.state = s].state = s
    BY DEF RowRecord
  <2>5. QED
    BY <2>1, <2>2, <2>3, <2>4
<1>2. CASE answer = "ok"
  BY <1>1, <1>2 DEF Settled
<1>3. CASE answer = "retryable" /\ a < MaxAttempts
  BY <1>1, <1>3, DelayType DEF Settled
<1>4. CASE answer # "ok" /\ ~(answer = "retryable" /\ a < MaxAttempts)
  BY <1>1, <1>4 DEF Settled
<1>5. QED
  BY <1>2, <1>3, <1>4

\* What a claim makes of a row.
LEMMA ClaimedRow ==
    ASSUME TypeOK, NEW j \in Job, row' = Claimed(j), row[j].attempts < MaxAttempts
    PROVE  /\ row' \in [Job -> RowRecord]
           /\ row'[j].state = "claimed" /\ row'[j].attempts = row[j].attempts + 1
           /\ \A k \in Job : k # j => row'[k] = row[k]
<1> DEFINE r == row[j]
<1>1. r \in RowRecord
  BY DEF TypeOK
<1>2. r.attempts + 1 \in 0..MaxAttempts /\ ClaimTTL + 1 \in 0..ClaimTTL + 1
  BY <1>1, OutboxAssumption DEF RowRecord
<1>3. [r EXCEPT !.state = "claimed"] \in RowRecord
  BY <1>1 DEF RowRecord
<1>4. \A t \in RowRecord, n \in 0..MaxAttempts :
         /\ [t EXCEPT !.attempts = n] \in RowRecord
         /\ [t EXCEPT !.attempts = n].attempts = n /\ [t EXCEPT !.attempts = n].state = t.state
  BY DEF RowRecord
<1>5. \A t \in RowRecord, n \in 0..ClaimTTL + 1 :
         /\ [t EXCEPT !.lease = n] \in RowRecord
         /\ [t EXCEPT !.lease = n].attempts = t.attempts /\ [t EXCEPT !.lease = n].state = t.state
  BY DEF RowRecord
<1>6. [r EXCEPT !.state = "claimed"].attempts = r.attempts /\ [r EXCEPT !.state = "claimed"].state = "claimed"
  BY <1>1 DEF RowRecord
<1>7. row' = [row EXCEPT ![j] = [[[r EXCEPT !.state = "claimed"] EXCEPT !.attempts = r.attempts + 1]
                                    EXCEPT !.lease = ClaimTTL + 1]]
  BY <1>1, <1>6 DEF Claimed, TypeOK
<1> DEFINE u == [[[r EXCEPT !.state = "claimed"] EXCEPT !.attempts = r.attempts + 1]
                                    EXCEPT !.lease = ClaimTTL + 1]
<1>8. u \in RowRecord /\ u.state = "claimed" /\ u.attempts = r.attempts + 1
  <2> DEFINE t1 == [r EXCEPT !.state = "claimed"]
             t2 == [t1 EXCEPT !.attempts = r.attempts + 1]
  <2>1. t1 \in RowRecord /\ t1.state = "claimed"
    BY <1>3, <1>6
  <2> HIDE DEF t1
  <2>2. t2 \in RowRecord /\ t2.attempts = r.attempts + 1 /\ t2.state = "claimed"
    BY <1>2, <1>4, <2>1
  <2> HIDE DEF t2
  <2>3. u = [t2 EXCEPT !.lease = ClaimTTL + 1]
    BY DEF t1, t2
  <2>4. QED
    BY <1>2, <1>5, <2>2, <2>3
<1> HIDE DEF u
<1>9. row' = [row EXCEPT ![j] = u]
  BY <1>7 DEF u
<1>10. QED
  BY <1>8, <1>9 DEF TypeOK

-----------------------------------------------------------------------------

LEMMA InsertStep ==
    ASSUME IInv, NEW j \in Job, Insert(j)
    PROVE  IInv'
<1> DEFINE fresh == [state |-> "pending", attempts |-> 0, due |-> 1, lease |-> 0]
<1>1. /\ row[j].state = "absent"
      /\ row' = [row EXCEPT ![j] = fresh]
      /\ fresh \in RowRecord
      /\ UNCHANGED <<process, queue, found, scanned, worker, received, refused, faults>>
  BY OutboxAssumption DEF Insert, RowRecord
<1>2. /\ row'[j] = fresh /\ row[j].attempts = 0
      /\ \A k \in Job : k # j => row'[k] = row[k]
  BY <1>1 DEF IInv, TypeOK, CleanSlate
<1>3. TypeOK'
  BY <1>1 DEF Insert, IInv, TypeOK
<1>4. Holding'
  BY <1>1, <1>2 DEF IInv, Holding
<1>5. Budgeted'
  <2>1. \A k \in Job : Unsent(k)' = Unsent(k) /\ row'[k].attempts = row[k].attempts
    BY <1>1, <1>2 DEF Unsent
  <2>2. QED
    BY <1>1, <2>1 DEF IInv, Budgeted
<1>6. CleanSlate'
  BY <1>2 DEF IInv, CleanSlate
<1>7. QED
  BY <1>3, <1>4, <1>5, <1>6 DEF IInv

LEMMA PurgeStep ==
    ASSUME IInv, NEW j \in Job, Purge(j)
    PROVE  IInv'
<1>1. /\ row' = [row EXCEPT ![j] = NoRow]
      /\ NoRow \in RowRecord /\ NoRow.attempts = 0
      /\ received' = [received EXCEPT ![j] = 0]
      /\ refused' = refused \ {j}
      /\ \A w \in Worker : worker[w].job # j
      /\ UNCHANGED <<process, inserted, queue, found, scanned, worker, faults>>
  BY OutboxAssumption DEF Purge, memory, NoRow, RowRecord
<1>2. /\ row'[j] = NoRow /\ received'[j] = 0
      /\ \A k \in Job : k # j => row'[k] = row[k] /\ received'[k] = received[k]
  BY <1>1 DEF IInv, TypeOK
<1>3. TypeOK'
  BY <1>1 DEF IInv, TypeOK
<1>4. Holding'
  BY <1>1, <1>2 DEF IInv, Holding
<1>5. Budgeted'
  <2>1. \A k \in Job : Unsent(k)' = Unsent(k)
    BY <1>1 DEF Unsent
  <2>2. Unsent(j) = {}
    BY <1>1 DEF Unsent
  <2>3. received'[j] + Cardinality(Unsent(j)') <= row'[j].attempts
    BY <1>1, <1>2, <2>1, <2>2, FS_EmptySet
  <2>4. \A k \in Job : k # j => received'[k] + Cardinality(Unsent(k)') <= row'[k].attempts
    BY <1>2, <2>1 DEF IInv, Budgeted
  <2>5. QED
    BY <2>3, <2>4 DEF Budgeted
<1>6. CleanSlate'
  BY <1>1, <1>2 DEF IInv, CleanSlate
<1>7. QED
  BY <1>3, <1>4, <1>5, <1>6 DEF IInv

\* A claim charges one attempt and owes one POST.
LEMMA ClaimStep ==
    ASSUME IInv, NEW w \in Worker, Claim(w)
    PROVE  IInv'
<1>0. PICK j \in Job : j = Head(queue)
  BY HeadOfQueue DEF Claim, IInv
<1>1. /\ queue # <<>> /\ worker[w].stage = "idle"
      /\ row' = Claimed(j) /\ row[j].attempts < MaxAttempts /\ row[j].state # "absent"
      /\ worker' = [worker EXCEPT ![w] =
            [job |-> j, attempt |-> row'[j].attempts, stage |-> "claimed", reached |-> FALSE]]
      /\ queue' = Tail(queue)
      /\ UNCHANGED <<process, inserted, found, scanned, received, refused, faults>>
  BY <1>0 DEF Claim, Claimable
<1>2. /\ row' \in [Job -> RowRecord]
      /\ row'[j].state = "claimed" /\ row'[j].attempts = row[j].attempts + 1
      /\ \A k \in Job : k # j => row'[k] = row[k]
  BY <1>1, ClaimedRow DEF IInv
<1>3. row[j].attempts \in Nat /\ row'[j].attempts \in 0..MaxAttempts
  BY <1>1, <1>2, OutboxAssumption DEF IInv, TypeOK, RowRecord
<1>4. /\ worker'[w].job = j /\ worker'[w].attempt = row'[j].attempts
      /\ worker'[w].stage = "claimed" /\ ~worker'[w].reached
      /\ \A v \in Worker : v # w => worker'[v] = worker[v]
      /\ worker' \in [Worker -> WorkerRecord]
  BY <1>1, <1>3 DEF IInv, TypeOK, WorkerRecord
<1>5. TypeOK'
  <2>1. queue' \in Seq(Job) /\ Len(queue') <= QueueSize
    BY <1>1, QueueType DEF IInv
  <2>2. QED
    BY <1>1, <1>2, <1>4, <2>1 DEF IInv, TypeOK
<1>6. Holding'
  <2> SUFFICES ASSUME NEW v \in Worker, worker'[v] # Idle
               PROVE  /\ worker'[v].stage \in {"claimed", "sending"}
                      /\ worker'[v].job \in Job
                      /\ row'[worker'[v].job].state # "absent"
                      /\ worker'[v].attempt <= row'[worker'[v].job].attempts
                      /\ worker'[v].reached =>
                            worker'[v].stage = "sending" /\ received'[worker'[v].job] > 0
    BY DEF Holding
  <2>1. CASE v = w
    BY <1>1, <1>2, <1>3, <1>4, <2>1
  <2>2. CASE v # w
    <3>1. worker'[v] = worker[v] /\ worker[v].job \in Job /\ worker[v].attempt \in Nat
      BY <1>4, <2>2, OutboxAssumption DEF IInv, Holding, TypeOK, WorkerRecord
    <3>2. CASE worker[v].job = j
      BY <1>1, <1>2, <1>3, <3>1, <3>2 DEF IInv, Holding
    <3>3. CASE worker[v].job # j
      BY <1>1, <1>2, <3>1, <3>3 DEF IInv, Holding
    <3>4. QED
      BY <3>2, <3>3
  <2>3. QED
    BY <2>1, <2>2
<1>7. Budgeted'
  <2>1. /\ Unsent(j)' = Unsent(j) \cup {w} /\ w \notin Unsent(j)
        /\ \A k \in Job : k # j => Unsent(k)' = Unsent(k)
    BY <1>1, <1>4 DEF Unsent
  <2>2. Cardinality(Unsent(j)') = Cardinality(Unsent(j)) + 1 /\ Cardinality(Unsent(j)) \in Nat
    BY <2>1, UnsentFinite, FS_AddElement
  <2>3. received'[j] + Cardinality(Unsent(j)') <= row'[j].attempts
    BY <1>1, <1>2, <1>3, <2>2 DEF IInv, Budgeted, TypeOK
  <2>4. \A k \in Job : k # j => received'[k] + Cardinality(Unsent(k)') <= row'[k].attempts
    BY <1>1, <1>2, <2>1 DEF IInv, Budgeted
  <2>5. QED
    BY <2>3, <2>4 DEF Budgeted
<1>8. CleanSlate'
  BY <1>2 DEF IInv, CleanSlate
<1>9. QED
  BY <1>5, <1>6, <1>7, <1>8 DEF IInv

\* A POST pays the debt of its worker.
LEMMA SendStep ==
    ASSUME IInv, NEW w \in Worker, Send(w)
    PROVE  IInv'
<1>1. PICK reached \in BOOLEAN :
         /\ worker' = [worker EXCEPT ![w].stage = "sending", ![w].reached = reached]
         /\ received' = [received EXCEPT ![worker[w].job] = IF reached THEN @ + 1 ELSE @]
  BY DEF Send
<1>2. /\ worker[w] \in WorkerRecord /\ worker[w].stage = "claimed" /\ worker[w] # Idle
      /\ UNCHANGED <<row, process, inserted, queue, found, scanned, refused, faults>>
  BY DEF Send, IInv, TypeOK, Idle
<1>3. PICK j \in Job : j = worker[w].job
  BY <1>2 DEF IInv, Holding
<1>4. /\ worker'[w] \in WorkerRecord
      /\ worker'[w].stage = "sending" /\ worker'[w].reached = reached
      /\ worker'[w].job = j /\ worker'[w].attempt = worker[w].attempt
  <2>1. [worker[w] EXCEPT !.stage = "sending"] \in WorkerRecord
    BY <1>2 DEF WorkerRecord
  <2>2. \A r \in WorkerRecord : /\ [r EXCEPT !.reached = reached] \in WorkerRecord
                                /\ [r EXCEPT !.reached = reached].reached = reached
                                /\ [r EXCEPT !.reached = reached].stage = r.stage
                                /\ [r EXCEPT !.reached = reached].job = r.job
                                /\ [r EXCEPT !.reached = reached].attempt = r.attempt
    BY DEF WorkerRecord
  <2>3. worker'[w] = [[worker[w] EXCEPT !.stage = "sending"] EXCEPT !.reached = reached]
    BY <1>1 DEF IInv, TypeOK
  <2>4. /\ [worker[w] EXCEPT !.stage = "sending"].stage = "sending"
        /\ [worker[w] EXCEPT !.stage = "sending"].job = worker[w].job
        /\ [worker[w] EXCEPT !.stage = "sending"].attempt = worker[w].attempt
    BY <1>2 DEF WorkerRecord
  <2>5. QED
    BY <1>3, <2>1, <2>2, <2>3, <2>4
<1>5. /\ \A v \in Worker : v # w => worker'[v] = worker[v]
      /\ \A v \in Worker : worker'[v] \in WorkerRecord
      /\ worker' \in [Worker -> WorkerRecord]
  BY <1>1, <1>4 DEF IInv, TypeOK
<1>6. /\ received' \in [Job -> Nat]
      /\ received'[j] = received[j] + (IF reached THEN 1 ELSE 0)
      /\ \A k \in Job : k # j => received'[k] = received[k]
  BY <1>1, <1>3 DEF IInv, TypeOK
<1>7. TypeOK'
  BY <1>2, <1>5, <1>6 DEF IInv, TypeOK
<1>8. Holding'
  <2>1. \A k \in Job : received[k] > 0 => received'[k] > 0
    BY <1>6 DEF IInv, TypeOK
  <2>2. reached => received'[j] > 0
    BY <1>6 DEF IInv, TypeOK
  <2>3. \A v \in Worker : v # w => worker'[v] = worker[v]
    BY <1>5
  <2>4. row' = row
    BY <1>2
  <2>5. /\ row[j].state # "absent" /\ worker[w].attempt <= row[j].attempts
    BY <1>2, <1>3 DEF IInv, Holding
  <2>6. QED
    BY <1>4, <2>1, <2>2, <2>3, <2>4, <2>5 DEF IInv, Holding
<1>9. Budgeted'
  <2>1. /\ Unsent(j)' = Unsent(j) \ {w} /\ w \in Unsent(j)
        /\ \A k \in Job : k # j => Unsent(k)' = Unsent(k)
    BY <1>2, <1>3, <1>4, <1>5 DEF Unsent
  <2>2. Cardinality(Unsent(j)') = Cardinality(Unsent(j)) - 1 /\ Cardinality(Unsent(j)) \in Nat
    BY <2>1, UnsentFinite, FS_RemoveElement
  <2>3. received[j] \in Nat /\ row[j].attempts \in Nat /\ row' = row
    BY <1>2, OutboxAssumption DEF IInv, TypeOK, RowRecord
  <2>4. received'[j] + Cardinality(Unsent(j)') <= row'[j].attempts
    BY <1>6, <2>2, <2>3 DEF IInv, Budgeted
  <2>5. \A k \in Job : k # j => received'[k] + Cardinality(Unsent(k)') <= row'[k].attempts
    BY <1>2, <1>6, <2>1 DEF IInv, Budgeted
  <2>6. QED
    BY <2>4, <2>5 DEF Budgeted
<1>10. CleanSlate'
  BY <1>2 DEF IInv, CleanSlate
<1>11. QED
  BY <1>7, <1>8, <1>9, <1>10 DEF IInv

LEMMA IdleType == Idle \in WorkerRecord
BY OutboxAssumption DEF Idle, WorkerRecord

\* A worker lets go of a row, with or without an outcome.
LEMMA ReleaseStep ==
    ASSUME IInv, NEW w \in Worker, LeaveClaimed(w) \/ CompleteFails(w) \/ Complete(w)
    PROVE  IInv'
<1>1. /\ worker' = [worker EXCEPT ![w] = Idle]
      /\ worker[w] # Idle
      /\ UNCHANGED <<process, inserted, queue, found, scanned, received>>
  BY DEF LeaveClaimed, CompleteFails, Complete, Idle
<1>2. /\ worker[w].job \in Job /\ worker[w].attempt \in 0..MaxAttempts
      /\ row[worker[w].job].state # "absent"
  BY <1>1 DEF IInv, TypeOK, Holding, WorkerRecord
<1>3. /\ row' \in [Job -> RowRecord] /\ refused' \subseteq Job
      /\ \A j \in Job : /\ row'[j].attempts = row[j].attempts
                        /\ row'[j].state = "absent" <=> row[j].state = "absent"
  <2>1. CASE UNCHANGED row /\ refused' \in {refused, refused \cup {worker[w].job}}
    BY <1>2, <2>1 DEF IInv, TypeOK
  <2>2. CASE /\ \E answer : row' = [row EXCEPT ![worker[w].job] =
                                       Settled(@, worker[w].attempt, answer)]
             /\ refused' \in {refused, refused \cup {worker[w].job}}
    <3>1. PICK answer : row' = [row EXCEPT ![worker[w].job] =
                                   Settled(row[worker[w].job], worker[w].attempt, answer)]
      BY <2>2
    <3>2. row[worker[w].job] \in RowRecord
      BY <1>2 DEF IInv, TypeOK
    <3> DEFINE u == Settled(row[worker[w].job], worker[w].attempt, answer)
    <3>3. /\ u \in RowRecord /\ u.attempts = row[worker[w].job].attempts /\ u.state # "absent"
      BY <1>2, <3>2, SettledRow
    <3> HIDE DEF u
    <3>4. row' = [row EXCEPT ![worker[w].job] = u]
      BY <3>1 DEF u
    <3>5. QED
      BY <1>2, <2>2, <3>3, <3>4 DEF IInv, TypeOK
  <2>3. QED
    BY <2>1, <2>2 DEF LeaveClaimed, CompleteFails, Complete
<1>4. faults' \in 0..MaxFaults
  BY OutboxAssumption DEF LeaveClaimed, CompleteFails, Complete, Fault, IInv, TypeOK
<1>5. TypeOK'
  BY <1>1, <1>3, <1>4, IdleType DEF IInv, TypeOK
<1>6. worker' = [v \in Worker |-> IF v \in {w} THEN Idle ELSE worker[v]]
  BY <1>1 DEF IInv, TypeOK
<1>7. QED
  BY <1>1, <1>3, <1>5, <1>6, LetGo

LEMMA ExitStep ==
    ASSUME IInv, Exit \/ Crash
    PROVE  IInv'
<1>1. MemoryIsLost
  BY DEF Exit, Crash
<1>2. faults' \in 0..MaxFaults
  BY OutboxAssumption DEF Exit, Crash, Fault, IInv, TypeOK
<1>3. <<>> \in Seq(Job) /\ Len(<<>>) <= QueueSize
  BY OutboxAssumption
<1>4. TypeOK'
  BY <1>1, <1>2, <1>3, IdleType DEF MemoryIsLost, IInv, TypeOK
<1>5. worker' = [v \in Worker |-> IF v \in Worker THEN Idle ELSE worker[v]]
  BY <1>1 DEF MemoryIsLost
<1>6. QED
  BY <1>1, <1>4, <1>5, LetGo DEF MemoryIsLost

-----------------------------------------------------------------------------

\* Every step of the outbox, and every stutter, preserves the invariant.
LEMMA NextIInv == IInv /\ [Next]_vars => IInv'
<1> SUFFICES ASSUME IInv, [Next]_vars
             PROVE  IInv'
  OBVIOUS
<1>1. CASE UNCHANGED vars
  <2>1. TypeOK'
    BY <1>1 DEF vars, memory, IInv, TypeOK
  <2>2. QED
    BY <1>1, <2>1, Quiet DEF vars, memory
<1>2. CASE \E j \in Job : Insert(j) \/ OfferInserted(j) \/ Purge(j)
  BY <1>2, InsertStep, MemoryStep, PurgeStep
<1>3. CASE Scan \/ OfferFound
  BY <1>3, ScanStep, MemoryStep
<1>4. CASE \E w \in Worker : Work(w)
  BY <1>4, ClaimStep, MemoryStep, SendStep, ReleaseStep DEF Work
<1>5. CASE Tick \/ Exit \/ Restart \/ Failure
  BY <1>5, TickStep, ExitStep, MemoryStep, ReleaseStep DEF Failure
<1>6. QED
  BY <1>1, <1>2, <1>3, <1>4, <1>5 DEF Next

LEMMA Invariance == Spec => []IInv
BY InitIInv, NextIInv, PTL DEF Spec

\* The outbox keeps its types: the channel its capacity, a row its attempts
\* within the maximum, through every crash, takeover and retention.
THEOREM TypeCorrect == Spec => []TypeOK
<1>1. IInv => TypeOK
  BY DEF IInv
<1>2. QED
  BY <1>1, Invariance, PTL

\* No receiver sees a notification more often than attempts were charged to it.
THEOREM ChargedSends == Spec => []SendsAreCharged
<1>1. IInv => SendsAreCharged
  <2> SUFFICES ASSUME IInv, NEW j \in Job
               PROVE  received[j] <= row[j].attempts
    BY DEF SendsAreCharged
  <2>1. Cardinality(Unsent(j)) \in Nat /\ received[j] \in Nat /\ row[j].attempts \in Nat
    BY UnsentFinite, OutboxAssumption DEF IInv, TypeOK, RowRecord
  <2>2. QED
    BY <2>1 DEF IInv, Budgeted
<1>2. QED
  BY <1>1, Invariance, PTL

-----------------------------------------------------------------------------
(* The refinement of the ledger. *)

\* A step that changes no row in the eyes of the ledger, reaches no receiver
\* and hears no refusal is a stutter of the ledger.
LEMMA LedgerStutters ==
    ASSUME UNCHANGED <<received, refused>>,
           \A j \in Job : Entry(row'[j]) = Entry(row[j]) /\ row'[j].attempts = row[j].attempts
    PROVE  UNCHANGED Ledger!vars
BY DEF Ledger!vars

LEMMA LedgerInsert ==
    ASSUME IInv, NEW j \in Job, Insert(j)
    PROVE  Ledger!Accept(j)
<1>1. /\ row[j].state = "absent" /\ row[j].attempts = 0
      /\ row'[j] = [state |-> "pending", attempts |-> 0, due |-> 1, lease |-> 0]
      /\ \A k \in Job : k # j => row'[k] = row[k]
      /\ UNCHANGED <<received, refused>>
  BY DEF Insert, IInv, TypeOK, CleanSlate
<1>2. Entry(row[j]) = "none" /\ Entry(row'[j]) = "open"
  BY <1>1 DEF Entry, Unfinished
<1>3. [k \in Job |-> row'[k].attempts] = [k \in Job |-> row[k].attempts]
  BY <1>1
<1>4. [k \in Job |-> Entry(row'[k])] = [[k \in Job |-> Entry(row[k])] EXCEPT ![j] = "open"]
  BY <1>1, <1>2
<1>5. QED
  BY <1>1, <1>2, <1>3, <1>4 DEF Ledger!Accept

LEMMA LedgerClaim ==
    ASSUME IInv, NEW w \in Worker, Claim(w)
    PROVE  \E j \in Job : Ledger!Charge(j)
<1>1. PICK j \in Job : j = Head(queue)
  BY HeadOfQueue DEF Claim, IInv
<1>2. /\ row' = Claimed(j) /\ row[j].attempts < MaxAttempts
      /\ row[j].state \in Unfinished
      /\ UNCHANGED <<received, refused>>
  BY <1>1 DEF Claim, Claimable, Unfinished
<1>3. /\ row'[j].state = "claimed" /\ row'[j].attempts = row[j].attempts + 1
      /\ \A k \in Job : k # j => row'[k] = row[k]
  BY <1>2, ClaimedRow DEF IInv
<1>4. Entry(row[j]) = "open" /\ Entry(row'[j]) = "open"
  BY <1>2, <1>3 DEF Entry, Unfinished
<1>5. [k \in Job |-> Entry(row'[k])] = [k \in Job |-> Entry(row[k])]
  BY <1>3, <1>4
<1>6. [k \in Job |-> row'[k].attempts] =
         [[k \in Job |-> row[k].attempts] EXCEPT ![j] = row[j].attempts + 1]
  BY <1>3
<1>7. Ledger!Charge(j)
  BY <1>2, <1>4, <1>5, <1>6 DEF Ledger!Charge
<1>8. QED
  BY <1>7

LEMMA LedgerSend ==
    ASSUME IInv, NEW w \in Worker, Send(w)
    PROVE  UNCHANGED Ledger!vars \/ \E j \in Job : Ledger!Reach(j)
<1>1. PICK j \in Job : j = worker[w].job
  BY DEF Send, IInv, Holding, Idle
<1>2. /\ worker[w].stage = "claimed"
      /\ UNCHANGED <<row, refused>>
      /\ received' = received \/ received' = [received EXCEPT ![j] = received[j] + 1]
  <2>1. PICK reached \in BOOLEAN :
           received' = [received EXCEPT ![j] = IF reached THEN received[j] + 1 ELSE received[j]]
    BY <1>1 DEF Send
  <2>2. QED
    BY <2>1 DEF Send, IInv, TypeOK
<1>3. CASE received' = received
  BY <1>2, <1>3 DEF Ledger!vars
<1>4. CASE received' = [received EXCEPT ![j] = received[j] + 1]
  <2>1. Unsent(j) # {} /\ IsFiniteSet(Unsent(j)) /\ Cardinality(Unsent(j)) \in Nat
    BY <1>1, <1>2, UnsentFinite DEF Unsent
  <2>2. Cardinality(Unsent(j)) > 0
    BY <2>1, FS_EmptySet
  <2>3. received[j] < row[j].attempts
    BY <2>1, <2>2, OutboxAssumption DEF IInv, Budgeted, TypeOK, RowRecord
  <2>4. Ledger!Reach(j)
    BY <1>2, <1>4, <2>3 DEF Ledger!Reach
  <2>5. QED
    BY <2>4
<1>5. QED
  BY <1>2, <1>3, <1>4

LEMMA LedgerPurge ==
    ASSUME IInv, NEW j \in Job, Purge(j)
    PROVE  Ledger!Forget(j)
<1>1. /\ row[j].state \in {"delivered", "failed"}
      /\ row'[j] = NoRow
      /\ \A k \in Job : k # j => row'[k] = row[k]
      /\ received' = [received EXCEPT ![j] = 0] /\ refused' = refused \ {j}
  BY DEF Purge, IInv, TypeOK
<1>2. Entry(row[j]) = row[j].state /\ Entry(row'[j]) = "none" /\ row'[j].attempts = 0
  BY <1>1 DEF Entry, Unfinished, NoRow
<1>3. [k \in Job |-> Entry(row'[k])] = [[k \in Job |-> Entry(row[k])] EXCEPT ![j] = "none"]
  BY <1>1, <1>2
<1>4. [k \in Job |-> row'[k].attempts] = [[k \in Job |-> row[k].attempts] EXCEPT ![j] = 0]
  BY <1>1, <1>2
<1>5. QED
  BY <1>1, <1>2, <1>3, <1>4 DEF Ledger!Forget

LEMMA LedgerScan ==
    ASSUME IInv, Scan
    PROVE  \E S \in SUBSET Job : Ledger!Exhaust(S)
<1>1. PICK S \in SUBSET Job :
         /\ row' = [j \in Job |-> IF j \in S
                                  THEN [row[j] EXCEPT !.state = "failed", !.lease = 0] ELSE row[j]]
         /\ \A j \in S : Abandoned(j, 1)
  BY DEF Scan, Between
<1>2. \A j \in S : /\ row[j].state = "claimed" /\ row[j].attempts = MaxAttempts
                   /\ row'[j].state = "failed" /\ row'[j].attempts = row[j].attempts
  <2> SUFFICES ASSUME NEW j \in S
               PROVE  /\ row[j].state = "claimed" /\ row[j].attempts = MaxAttempts
                      /\ row'[j].state = "failed" /\ row'[j].attempts = row[j].attempts
    OBVIOUS
  <2>1. row[j] \in RowRecord /\ j \in Job
    BY DEF IInv, TypeOK
  <2>2. row[j].state = "claimed" /\ row[j].attempts = MaxAttempts
    <3>1. Abandoned(j, 1)
      BY <1>1
    <3>2. QED
      BY <2>1, <3>1, OutboxAssumption DEF Abandoned, RowRecord
  <2>3. row'[j] = [[row[j] EXCEPT !.state = "failed"] EXCEPT !.lease = 0]
    BY <1>1, <2>1
  <2>4. [row[j] EXCEPT !.state = "failed"] \in RowRecord
    BY <2>1 DEF RowRecord
  <2>5. /\ [row[j] EXCEPT !.state = "failed"].state = "failed"
        /\ [row[j] EXCEPT !.state = "failed"].attempts = row[j].attempts
    BY <2>1 DEF RowRecord
  <2>6. \A r \in RowRecord : /\ [r EXCEPT !.lease = 0].state = r.state
                             /\ [r EXCEPT !.lease = 0].attempts = r.attempts
    BY DEF RowRecord
  <2>7. QED
    BY <2>2, <2>3, <2>4, <2>5, <2>6
<1>3. \A j \in Job : j \notin S => row'[j] = row[j]
  BY <1>1
<1>4. /\ \A j \in S : Entry(row[j]) = "open" /\ Entry(row'[j]) = "failed"
  BY <1>2 DEF Entry, Unfinished
<1>5. [j \in Job |-> Entry(row'[j])] =
         [j \in Job |-> IF j \in S THEN "failed" ELSE [k \in Job |-> Entry(row[k])][j]]
  BY <1>3, <1>4
<1>6. [j \in Job |-> row'[j].attempts] = [j \in Job |-> row[j].attempts]
  BY <1>2, <1>3
<1>7. Ledger!Exhaust(S)
  BY <1>2, <1>4, <1>5, <1>6 DEF Ledger!Exhaust, Scan
<1>8. QED
  BY <1>7

\* The outcome of a POST closes the entry, leaves it open for a retry, or finds
\* the claim lost.
LEMMA LedgerComplete ==
    ASSUME IInv, NEW w \in Worker, Complete(w)
    PROVE  \/ UNCHANGED Ledger!vars
           \/ \E j \in Job : Ledger!Deliver(j) \/ Ledger!Refuse(j) \/ Ledger!Exhaust({j})
<1>1. PICK j \in Job : j = worker[w].job
  BY DEF Complete, IInv, Holding, Idle
<1>2. PICK answer \in {"ok", "retryable", "refused"} :
         /\ answer \in {"ok", "refused"} => worker[w].reached
         /\ row' = IF Owns(w) THEN [row EXCEPT ![j] = Settled(row[j], worker[w].attempt, answer)]
                   ELSE row
         /\ refused' = IF answer = "refused" THEN refused \cup {j} ELSE refused
  BY <1>1 DEF Complete
<1>3. /\ received' = received
      /\ worker[w].reached => received[j] > 0
      /\ worker[w].attempt \in 0..MaxAttempts
      /\ row[j] \in RowRecord
  BY <1>1 DEF Complete, IInv, TypeOK, Holding, WorkerRecord, Idle
<1>4. CASE ~Owns(w) /\ answer # "refused"
  BY <1>2, <1>3, <1>4 DEF Ledger!vars
<1>5. CASE ~Owns(w) /\ answer = "refused"
  <2>1. Ledger!Refuse(j)
    BY <1>2, <1>3, <1>5 DEF Ledger!Refuse
  <2>2. QED
    BY <2>1
<1>6. CASE Owns(w)
  <2> DEFINE u == Settled(row[j], worker[w].attempt, answer)
  <2>1. /\ u.attempts = row[j].attempts
        /\ \/ answer = "ok" /\ u.state = "delivered"
           \/ answer = "retryable" /\ worker[w].attempt < MaxAttempts /\ u.state = "retry"
           \/ /\ answer # "ok" /\ ~(answer = "retryable" /\ worker[w].attempt < MaxAttempts)
              /\ u.state = "failed"
    BY <1>3, SettledRow
  <2>2. row' = [row EXCEPT ![j] = u]
    BY <1>2, <1>6
  <2> HIDE DEF u
  <2>3. row'[j] = u /\ \A k \in Job : k # j => row'[k] = row[k]
    BY <2>2 DEF IInv, TypeOK
  <2>4. row[j].state = "claimed" /\ row[j].attempts = worker[w].attempt
    BY <1>1, <1>6 DEF Owns
  <2>5. Entry(row[j]) = "open"
    BY <2>4 DEF Entry, Unfinished
  <2>6. [k \in Job |-> row'[k].attempts] = [k \in Job |-> row[k].attempts]
    BY <2>1, <2>3
  <2>7. \A s : Entry(u) = s => [k \in Job |-> Entry(row'[k])] =
                                  [[k \in Job |-> Entry(row[k])] EXCEPT ![j] = s]
    BY <2>3
  <2>8. CASE answer = "ok"
    <3>1. Entry(u) = "delivered"
      BY <2>1, <2>8 DEF Entry, Unfinished
    <3>2. Ledger!Deliver(j)
      BY <1>2, <1>3, <2>5, <2>6, <2>7, <2>8, <3>1 DEF Ledger!Deliver
    <3>3. QED
      BY <3>2
  <2>9. CASE answer = "retryable" /\ worker[w].attempt < MaxAttempts
    <3>1. Entry(u) = "open"
      BY <2>1, <2>9 DEF Entry, Unfinished
    <3>2. \A k \in Job : Entry(row'[k]) = Entry(row[k]) /\ row'[k].attempts = row[k].attempts
      BY <2>1, <2>3, <2>5, <3>1
    <3>3. QED
      BY <1>2, <1>3, <2>9, <3>2, LedgerStutters
  <2>10. CASE answer = "refused"
    <3>1. Entry(u) = "failed"
      BY <2>1, <2>10 DEF Entry, Unfinished
    <3>2. Ledger!Refuse(j)
      BY <1>2, <1>3, <2>5, <2>6, <2>7, <2>10, <3>1 DEF Ledger!Refuse
    <3>3. QED
      BY <3>2
  <2>11. CASE answer = "retryable" /\ ~(worker[w].attempt < MaxAttempts)
    <3>1. Entry(u) = "failed"
      BY <2>1, <2>11 DEF Entry, Unfinished
    <3>2. row[j].attempts = MaxAttempts
      BY <1>3, <2>4, <2>11, OutboxAssumption
    <3>3. [k \in Job |-> Entry(row'[k])] =
             [k \in Job |-> IF k \in {j} THEN "failed" ELSE [q \in Job |-> Entry(row[q])][k]]
      BY <2>3, <3>1
    <3>4. Ledger!Exhaust({j})
      BY <1>2, <1>3, <2>5, <2>6, <2>11, <3>2, <3>3 DEF Ledger!Exhaust
    <3>5. QED
      BY <3>4
  <2>12. QED
    BY <2>8, <2>9, <2>10, <2>11
<1>7. QED
  BY <1>4, <1>5, <1>6

LEMMA LedgerInit == Init => Ledger!Init
<1> SUFFICES ASSUME Init
             PROVE  Ledger!Init
  OBVIOUS
<1>1. \A j \in Job : Entry(row[j]) = "none" /\ row[j].attempts = 0
  BY DEF Init, NoRow, Entry
<1>2. QED
  BY <1>1 DEF Init, Ledger!Init

LEMMA LedgerNext == IInv /\ [Next]_vars => [Ledger!Next]_(Ledger!vars)
<1> SUFFICES ASSUME IInv, [Next]_vars
             PROVE  [Ledger!Next]_(Ledger!vars)
  OBVIOUS
<1>1. CASE UNCHANGED <<row, received, refused>>
  BY <1>1 DEF Ledger!vars
<1>2. CASE Tick
  <2>1. \A j \in Job : Entry(row'[j]) = Entry(row[j]) /\ row'[j].attempts = row[j].attempts
    <3> SUFFICES ASSUME NEW j \in Job
                 PROVE  Entry(row'[j]) = Entry(row[j]) /\ row'[j].attempts = row[j].attempts
      OBVIOUS
    <3>1. row[j] \in RowRecord /\ row'[j] = [row[j] EXCEPT !.due = Minus(@), !.lease = Minus(@)]
      BY <1>2 DEF Tick, IInv, TypeOK
    <3>2. row'[j].state = row[j].state /\ row'[j].attempts = row[j].attempts
      BY <3>1 DEF RowRecord
    <3>3. QED
      BY <3>2 DEF Entry
  <2>2. QED
    BY <1>2, <2>1, LedgerStutters DEF Tick
<1>3. CASE \E j \in Job : Insert(j) \/ Purge(j)
  BY <1>3, LedgerInsert, LedgerPurge DEF Ledger!Next
<1>4. CASE \E w \in Worker : Claim(w) \/ Send(w)
  BY <1>4, LedgerClaim, LedgerSend DEF Ledger!Next
<1>5. CASE Scan
  BY <1>5, LedgerScan DEF Ledger!Next
<1>6. CASE \E w \in Worker : Complete(w)
  <2>1. \A j \in Job : {j} \in SUBSET Job
    OBVIOUS
  <2>2. QED
    BY <1>6, <2>1, LedgerComplete DEF Ledger!Next
<1>7. ASSUME \/ UNCHANGED vars
             \/ \E j \in Job : OfferInserted(j)
             \/ OfferFound
             \/ \E w \in Worker : ClaimRefused(w) \/ LeaveClaimed(w) \/ ClaimFails(w) \/ CompleteFails(w)
             \/ Exit \/ Restart \/ Stop \/ Crash \/ ScanFails
      PROVE  UNCHANGED <<row, received, refused>>
  BY <1>7 DEF vars, OfferInserted, OfferFound, ClaimRefused, LeaveClaimed, ClaimFails,
              CompleteFails, Exit, Crash, MemoryIsLost, Restart, Stop, ScanFails
<1>8. QED
  BY <1>1, <1>2, <1>3, <1>4, <1>5, <1>6, <1>7 DEF Next, Work, Failure

\* The outbox implements the delivery ledger: bounded cost, at most one receipt
\* per charge, one closing, for the reason the ledger gives.
THEOREM LedgerImplemented == Spec => ImplementsLedger
<1>1. Spec => Ledger!Spec
  BY LedgerInit, LedgerNext, Invariance, PTL DEF Spec, Ledger!Spec
<1>2. QED
  BY <1>1 DEF ImplementsLedger

-----------------------------------------------------------------------------

\* Who ends a claim in a step.
LEMMA OwnerEnds ==
    ASSUME IInv, [Next]_vars, NEW j \in Job,
           row[j].state = "claimed", row[j].lease > 1, row'[j].state # "claimed"
    PROVE  \E w \in Worker : /\ worker[w].stage = "sending" /\ worker'[w] = Idle
                             /\ worker[w].job = j /\ worker[w].attempt = row[j].attempts
<1>1. row'[j] # row[j]
  OBVIOUS
<1>2. ASSUME NEW k \in Job, Insert(k) \/ Purge(k)
      PROVE  FALSE
  <2>1. k # j
    BY <1>2 DEF Insert, Purge
  <2>2. row'[j] = row[j]
    BY <1>2, <2>1 DEF Insert, Purge, IInv, TypeOK
  <2>3. QED
    BY <1>1, <2>2
<1>3. ASSUME NEW w \in Worker, Claim(w)
      PROVE  FALSE
  <2>1. PICK k \in Job : k = Head(queue)
    BY <1>3, HeadOfQueue DEF Claim, IInv
  <2>2. row' = Claimed(k) /\ row[k].attempts < MaxAttempts
    BY <1>3, <2>1 DEF Claim, Claimable
  <2>3. row'[k].state = "claimed" /\ \A q \in Job : q # k => row'[q] = row[q]
    BY <2>2, ClaimedRow DEF IInv
  <2>4. QED
    BY <1>1, <2>3
<1>4. ASSUME Tick
      PROVE  FALSE
  <2>1. row[j] \in RowRecord /\ row'[j] = [row[j] EXCEPT !.due = Minus(@), !.lease = Minus(@)]
    BY <1>4 DEF Tick, IInv, TypeOK
  <2>2. row'[j].state = row[j].state
    BY <2>1 DEF RowRecord
  <2>3. QED
    BY <2>2
<1>5. ASSUME Scan
      PROVE  FALSE
  <2>1. PICK S \in SUBSET Job :
           /\ row' = [k \in Job |-> IF k \in S
                                    THEN [row[k] EXCEPT !.state = "failed", !.lease = 0] ELSE row[k]]
           /\ \A k \in S : Abandoned(k, 1)
    BY <1>5 DEF Scan, Between
  <2>2. j \in S
    BY <1>1, <2>1
  <2>3. row[j].lease <= 1
    BY <2>1, <2>2 DEF Abandoned
  <2>4. row[j].lease \in Nat
    BY OutboxAssumption DEF IInv, TypeOK, RowRecord
  <2>5. QED
    BY <2>3, <2>4
<1>6. ASSUME NEW w \in Worker, Complete(w)
      PROVE  /\ worker[w].stage = "sending" /\ worker'[w] = Idle
             /\ worker[w].job = j /\ worker[w].attempt = row[j].attempts
  <2>1. Owns(w) /\ worker[w].job = j
    <3>1. \/ row' = row
          \/ Owns(w) /\ \E u : row' = [row EXCEPT ![worker[w].job] = u]
      BY <1>6 DEF Complete
    <3>2. QED
      BY <1>1, <3>1 DEF IInv, TypeOK
  <2>2. QED
    BY <1>6, <2>1 DEF Complete, Owns, IInv, TypeOK
<1>7. \/ \E k \in Job : Insert(k) \/ Purge(k)
      \/ Tick \/ Scan
      \/ \E w \in Worker : Claim(w) \/ Complete(w)
      \/ row' = row
  BY DEF Next, Work, Failure, vars, OfferInserted, OfferFound, ClaimRefused, Send, LeaveClaimed,
         ClaimFails, CompleteFails, Exit, Crash, MemoryIsLost, Restart, Stop, ScanFails
<1>8. QED
  BY <1>1, <1>2, <1>3, <1>4, <1>5, <1>6, <1>7

\* A claim whose lease still runs is ended by its owner only.
THEOREM OwnersOnly == Spec => OnlyOwnerEndsClaim
<1> DEFINE Owned == \A j \in Job :
          row[j].state = "claimed" /\ row[j].lease > 1 /\ row'[j].state # "claimed" =>
              \E w \in Worker : /\ worker[w].stage = "sending" /\ worker'[w] = Idle
                                /\ worker[w].job = j /\ worker[w].attempt = row[j].attempts
<1>1. IInv /\ [Next]_vars => Owned
  BY OwnerEnds
<1> HIDE DEF Owned
<1>2. Spec => [][Owned]_vars
  BY <1>1, Invariance, PTL DEF Spec
<1>3. QED
  BY <1>2 DEF OnlyOwnerEndsClaim, Owned

-----------------------------------------------------------------------------
(* Timely workers.  That two of them never hold the same row is not        *)
(* inductive alone: it needs the claim of each to be the one in the row,   *)
(* under a lease that runs, and no two claims of a row to have the same    *)
(* number.                                                                 *)

ClaimsDiffer ==
    \A v, w \in Worker :
        Busy(v) /\ worker[v].job = worker[w].job /\ worker[v].attempt = worker[w].attempt => v = w

Timely ==
    \A w \in Prompt : Busy(w) => Owns(w) /\ row[worker[w].job].lease > 1

HoldInv == ClaimsDiffer /\ Timely

\* Whoever is busy holds a job.
LEMMA BusyHolds ==
    ASSUME IInv, NEW w \in Worker
    PROVE  /\ ~Busy(w) => worker[w] = Idle
           /\ Busy(w) => /\ worker[w].job \in Job
                         /\ row[worker[w].job].state # "absent"
                         /\ worker[w].attempt <= row[worker[w].job].attempts
                         /\ worker[w].attempt \in Nat
<1>1. worker[w].attempt \in Nat
  BY OutboxAssumption DEF IInv, TypeOK, WorkerRecord
<1>2. worker[w] # Idle => worker[w].stage # "idle"
  BY DEF IInv, Holding
<1>3. worker[w] = Idle => worker[w].stage = "idle"
  BY DEF Idle
<1>4. QED
  BY <1>1, <1>2, <1>3 DEF IInv, Holding, Busy

\* What a worker has after a step it has from before, or it is idle.
Keeps(w) ==
    \/ worker'[w] = Idle
    \/ /\ Busy(w) /\ Busy(w)'
       /\ worker'[w].job = worker[w].job /\ worker'[w].attempt = worker[w].attempt

LEMMA Unmoved ==
    ASSUME IInv, NEW w \in Worker, worker'[w] = worker[w]
    PROVE  Keeps(w)
BY BusyHolds DEF Keeps, Busy

\* A step in which nobody claims anything and the claims of timely workers
\* stay in their rows.
LEMMA NoNewClaim ==
    ASSUME IInv, HoldInv, \A w \in Worker : Keeps(w),
           \A w \in Prompt : Busy(w) /\ Busy(w)' =>
               LET j == worker[w].job
               IN  /\ row'[j].state = row[j].state /\ row'[j].attempts = row[j].attempts
                   /\ row'[j].lease > 1
    PROVE  HoldInv'
<1>1. ASSUME NEW w \in Worker, Busy(w)'
      PROVE  Busy(w) /\ worker'[w].job = worker[w].job /\ worker'[w].attempt = worker[w].attempt
  BY <1>1 DEF Keeps, Busy, Idle
<1>2. ClaimsDiffer'
  <2> SUFFICES ASSUME NEW v \in Worker, NEW w \in Worker, Busy(v)',
                      worker'[v].job = worker'[w].job, worker'[v].attempt = worker'[w].attempt
               PROVE  v = w
    BY DEF ClaimsDiffer, Busy
  <2>1. worker'[v].job \in Job
    BY <1>1, BusyHolds
  <2>2. Busy(w)'
    BY <2>1, OutboxAssumption DEF Keeps, Busy, Idle
  <2>3. QED
    BY <1>1, <2>2 DEF HoldInv, ClaimsDiffer
<1>3. Timely'
  <2> SUFFICES ASSUME NEW w \in Prompt, Busy(w)'
               PROVE  Owns(w)' /\ row'[worker'[w].job].lease > 1
    BY DEF Timely, Busy
  <2>1. w \in Worker
    BY OutboxAssumption
  <2>2. Busy(w) /\ worker'[w].job = worker[w].job /\ worker'[w].attempt = worker[w].attempt
    BY <1>1, <2>1
  <2>3. Owns(w)
    BY <2>2 DEF HoldInv, Timely
  <2>4. QED
    BY <2>2, <2>3 DEF Owns
<1>4. QED
  BY <1>2, <1>3 DEF HoldInv

\* The number of a new claim is greater than that of every other, and no row
\* is claimed while a lease runs.
LEMMA ClaimHolds ==
    ASSUME IInv, HoldInv, NEW w \in Worker, Claim(w)
    PROVE  HoldInv'
<1>1. PICK j \in Job : j = Head(queue)
  BY HeadOfQueue DEF Claim, IInv
<1>2. row' = Claimed(j) /\ row[j].attempts < MaxAttempts /\ Claimable(j, 1)
  BY <1>1 DEF Claim, Claimable
<1>3. /\ row'[j].state = "claimed" /\ row'[j].attempts = row[j].attempts + 1
      /\ \A k \in Job : k # j => row'[k] = row[k]
  BY <1>2, ClaimedRow DEF IInv
<1>4. row'[j].lease = ClaimTTL + 1
  BY <1>2 DEF Claimed, IInv, TypeOK, RowRecord
<1>5. /\ worker'[w] = [job |-> j, attempt |-> row'[j].attempts, stage |-> "claimed", reached |-> FALSE]
      /\ \A v \in Worker : v # w => worker'[v] = worker[v]
      /\ ~Busy(w)
  BY <1>1 DEF Claim, Busy, IInv, TypeOK
<1>6. row[j].attempts \in Nat
  BY OutboxAssumption DEF IInv, TypeOK, RowRecord
<1>7. ASSUME NEW v \in Worker, v # w, worker[v].job = j
      PROVE  Busy(v) /\ worker[v].attempt < row'[j].attempts /\ worker[v].attempt # row'[j].attempts
  <2>1. Busy(v)
    BY <1>7, BusyHolds, OutboxAssumption DEF Idle
  <2>2. worker[v].attempt \in Nat /\ worker[v].attempt <= row[j].attempts
    BY <1>7, <2>1, BusyHolds
  <2>3. QED
    BY <1>3, <1>6, <2>1, <2>2
<1>8. ClaimsDiffer'
  <2> SUFFICES ASSUME NEW u \in Worker, NEW v \in Worker, Busy(u)',
                      worker'[u].job = worker'[v].job, worker'[u].attempt = worker'[v].attempt
               PROVE  u = v
    BY DEF ClaimsDiffer, Busy
  <2>1. CASE u = w /\ v # w
    BY <1>5, <1>7, <2>1
  <2>2. CASE u # w /\ v = w
    BY <1>5, <1>7, <2>2
  <2>3. CASE u # w /\ v # w
    BY <1>5, <2>3 DEF HoldInv, ClaimsDiffer, Busy
  <2>4. QED
    BY <2>1, <2>2, <2>3
<1>9. Timely'
  <2> SUFFICES ASSUME NEW v \in Prompt, Busy(v)'
               PROVE  Owns(v)' /\ row'[worker'[v].job].lease > 1
    BY DEF Timely, Busy
  <2>1. v \in Worker
    BY OutboxAssumption
  <2>2. CASE v = w
    <3>1. ClaimTTL + 1 > 1
      BY OutboxAssumption
    <3>2. QED
      BY <1>3, <1>4, <1>5, <2>2, <3>1 DEF Owns
  <2>3. CASE v # w
    <3>1. worker'[v] = worker[v] /\ Busy(v)
      BY <1>5, <2>1, <2>3 DEF Busy
    <3>2. Owns(v) /\ row[worker[v].job].lease > 1 /\ worker[v].job \in Job
      BY <2>1, <3>1, BusyHolds DEF HoldInv, Timely
    <3>3. worker[v].job # j
      <4>1. row[j].lease \in Nat
        BY OutboxAssumption DEF IInv, TypeOK, RowRecord
      <4>2. QED
        BY <1>2, <3>2, <4>1 DEF Claimable, Owns
    <3>4. row'[worker[v].job] = row[worker[v].job]
      BY <1>3, <3>2, <3>3
    <3>5. QED
      BY <3>1, <3>2, <3>4 DEF Owns
  <2>4. QED
    BY <2>2, <2>3
<1>10. QED
  BY <1>8, <1>9 DEF HoldInv

\* A timely worker is given up to SendTime, which is less than the lease.
LEMMA TickHolds ==
    ASSUME IInv, HoldInv, Tick
    PROVE  HoldInv'
<1>1. \A w \in Worker : Keeps(w)
  BY Unmoved DEF Tick
<1>2. ASSUME NEW w \in Prompt, Busy(w)
      PROVE  LET j == worker[w].job
             IN  /\ row'[j].state = row[j].state /\ row'[j].attempts = row[j].attempts
                 /\ row'[j].lease > 1
  <2> DEFINE j == worker[w].job
  <2>1. j \in Job
    BY <1>2, BusyHolds, OutboxAssumption
  <2>2. row[j] \in RowRecord /\ row'[j] = [row[j] EXCEPT !.due = Minus(@), !.lease = Minus(@)]
    BY <2>1 DEF Tick, IInv, TypeOK
  <2>3. row[j].lease > ClaimTTL + 1 - SendTime
    BY <1>2 DEF Tick, WithinTimeouts
  <2>4. Minus(row[j].lease) > 1
    BY <2>2, <2>3, OutboxAssumption DEF Minus, RowRecord
  <2> HIDE DEF j
  <2>5. /\ row'[j].state = row[j].state /\ row'[j].attempts = row[j].attempts
        /\ row'[j].lease = Minus(row[j].lease)
    BY <2>2 DEF RowRecord
  <2>6. QED
    BY <2>4, <2>5 DEF j
<1>3. QED
  BY <1>1, <1>2, NoNewClaim

\* Nobody else ends the claim of a timely worker.
LEMMA CompleteHolds ==
    ASSUME IInv, HoldInv, NEW w \in Worker, Complete(w)
    PROVE  HoldInv'
<1>1. worker' = [worker EXCEPT ![w] = Idle] /\ Busy(w)
  BY DEF Complete, Busy
<1>2. \A v \in Worker : Keeps(v)
  BY <1>1, Unmoved DEF Keeps, IInv, TypeOK
<1>3. ASSUME NEW v \in Prompt, Busy(v), Busy(v)'
      PROVE  row'[worker[v].job] = row[worker[v].job] /\ row[worker[v].job].lease > 1
  <2>1. v \in Worker /\ v # w
    BY <1>1, <1>3, OutboxAssumption DEF Busy, Idle, IInv, TypeOK
  <2>2. Owns(v) /\ row[worker[v].job].lease > 1
    BY <1>3 DEF HoldInv, Timely
  <2>3. Owns(w) => worker[w].job # worker[v].job
    BY <1>1, <2>1, <2>2 DEF Owns, HoldInv, ClaimsDiffer
  <2>4. \/ row' = row
        \/ Owns(w) /\ \E u : row' = [row EXCEPT ![worker[w].job] = u]
    BY DEF Complete
  <2>5. QED
    BY <2>2, <2>3, <2>4, BusyHolds, <1>3, <2>1 DEF IInv, TypeOK
<1>4. QED
  BY <1>2, <1>3, NoNewClaim

LEMMA ScanHolds ==
    ASSUME IInv, HoldInv, Scan
    PROVE  HoldInv'
<1>1. PICK S \in SUBSET Job :
         /\ row' = [k \in Job |-> IF k \in S
                                  THEN [row[k] EXCEPT !.state = "failed", !.lease = 0] ELSE row[k]]
         /\ \A k \in S : Abandoned(k, 1)
  BY DEF Scan, Between
<1>2. \A w \in Worker : Keeps(w)
  BY Unmoved DEF Scan
<1>3. ASSUME NEW v \in Prompt, Busy(v)
      PROVE  row'[worker[v].job] = row[worker[v].job] /\ row[worker[v].job].lease > 1
  <2>1. worker[v].job \in Job /\ row[worker[v].job].lease > 1
    BY <1>3, BusyHolds, OutboxAssumption DEF HoldInv, Timely
  <2>2. row[worker[v].job].lease \in Nat
    BY <2>1, OutboxAssumption DEF IInv, TypeOK, RowRecord
  <2>3. worker[v].job \notin S
    <3> SUFFICES ASSUME worker[v].job \in S
                 PROVE  FALSE
      OBVIOUS
    <3>1. row[worker[v].job].lease <= 1
      BY <1>1 DEF Abandoned
    <3>2. QED
      BY <2>1, <2>2, <3>1
  <2>4. QED
    BY <1>1, <2>1, <2>3
<1>4. QED
  BY <1>2, <1>3, NoNewClaim

\* A row that a worker holds is neither new nor old enough to be removed.
LEMMA RowHolds ==
    ASSUME IInv, HoldInv, NEW j \in Job, Insert(j) \/ Purge(j)
    PROVE  HoldInv'
<1>1. \A w \in Worker : Keeps(w)
  BY Unmoved DEF Insert, Purge, memory
<1>2. ASSUME NEW v \in Prompt, Busy(v)
      PROVE  row'[worker[v].job] = row[worker[v].job] /\ row[worker[v].job].lease > 1
  <2>1. /\ worker[v].job \in Job /\ row[worker[v].job].state # "absent"
        /\ row[worker[v].job].lease > 1
    BY <1>2, BusyHolds, OutboxAssumption DEF HoldInv, Timely
  <2>2. worker[v].job # j
    BY <2>1, OutboxAssumption DEF Insert, Purge
  <2>3. QED
    BY <2>1, <2>2 DEF Insert, Purge, IInv, TypeOK
<1>3. QED
  BY <1>1, <1>2, NoNewClaim

\* The steps that change no row.
LEMMA RestHolds ==
    ASSUME IInv, HoldInv, row' = row, \A w \in Worker : Keeps(w)
    PROVE  HoldInv'
BY NoNewClaim DEF HoldInv, Timely

LEMMA InitHolds == Init => HoldInv
BY OutboxAssumption DEF Init, HoldInv, ClaimsDiffer, Timely, Busy, Idle

LEMMA NextHolds == IInv /\ HoldInv /\ [Next]_vars => HoldInv'
<1> SUFFICES ASSUME IInv, HoldInv, [Next]_vars
             PROVE  HoldInv'
  OBVIOUS
<1>1. CASE \E w \in Worker : Claim(w) \/ Complete(w)
  BY <1>1, ClaimHolds, CompleteHolds
<1>2. CASE Tick \/ Scan \/ \E j \in Job : Insert(j) \/ Purge(j)
  BY <1>2, TickHolds, ScanHolds, RowHolds
<1>3. ASSUME \/ UNCHANGED vars
             \/ \E j \in Job : OfferInserted(j)
             \/ OfferFound \/ Restart \/ Stop \/ ScanFails
             \/ \E w \in Worker : ClaimRefused(w) \/ ClaimFails(w)
      PROVE  UNCHANGED <<row, worker>>
  BY <1>3 DEF vars, memory, OfferInserted, OfferFound, Restart, Stop, ScanFails, ClaimRefused,
              ClaimFails
<1>4. CASE UNCHANGED <<row, worker>>
  BY <1>4, Unmoved, RestHolds
<1>5. CASE Exit \/ Crash
  BY <1>5, RestHolds DEF Exit, Crash, MemoryIsLost, Keeps
<1>6. CASE \E w \in Worker : LeaveClaimed(w) \/ CompleteFails(w) \/ Send(w)
  <2>1. PICK w \in Worker : LeaveClaimed(w) \/ CompleteFails(w) \/ Send(w)
    BY <1>6
  <2>2. row' = row /\ Busy(w)
    BY <2>1 DEF LeaveClaimed, CompleteFails, Send, Busy
  <2>3. Keeps(w) /\ \A v \in Worker : v # w => worker'[v] = worker[v]
    BY <2>1, <2>2 DEF LeaveClaimed, CompleteFails, Send, Keeps, Busy, IInv, TypeOK, WorkerRecord
  <2>4. QED
    BY <2>2, <2>3, Unmoved, RestHolds
<1>7. QED
  BY <1>1, <1>2, <1>3, <1>4, <1>5, <1>6 DEF Next, Work, Failure

\* Two workers that keep to their timeouts never hold the same notification,
\* for any number of jobs, of workers, timely or not, and any lease that is
\* longer than the timeouts.
THEOREM TimelyHolders == Spec => []OneHolder
<1>1. IInv /\ HoldInv => OneHolder
  <2> SUFFICES ASSUME IInv, HoldInv, NEW v \in Prompt, NEW w \in Prompt,
                      Busy(v), worker[v].job = worker[w].job
               PROVE  v = w
    BY DEF OneHolder
  <2>1. v \in Worker /\ w \in Worker
    BY OutboxAssumption
  <2>2. Busy(w)
    BY <2>1, BusyHolds, OutboxAssumption DEF Idle
  <2>3. worker[v].attempt = worker[w].attempt
    BY <2>2 DEF HoldInv, Timely, Owns
  <2>4. QED
    BY <2>1, <2>3 DEF HoldInv, ClaimsDiffer
<1>2. QED
  BY <1>1, InitHolds, NextHolds, Invariance, PTL DEF Spec
=============================================================================
