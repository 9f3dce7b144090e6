-------------------------- MODULE RecoveryExecution --------------------------
(***************************************************************************)
(* Recovery commands under idempotency keys (recovery.go).                 *)
(*                                                                         *)
(* executeRecovery reserves the key with a receipt in SQLite, sends the    *)
(* command to Redis and records the outcome in the receipt: three steps    *)
(* that no transaction spans.  The client of Redis repeats a command whose *)
(* reply is lost (MaxRetries, redis_manager.go).  Content is what the      *)
(* request hash covers.  "claim" stands for the commands that Redis        *)
(* carries out whenever they arrive (XACK, XCLAIM, XAUTOCLAIM without idle *)
(* time), "setid" for the compare-and-set script.                          *)
(***************************************************************************)
EXTENDS Naturals

CONSTANTS
    Executor,    \* concurrent requests
    Key,         \* idempotency keys
    Id,          \* stream ids the group may stand at
    Content,     \* normalized requests
    MaxRetries,  \* retries of the Redis client
    MaxMishaps   \* faults of a behaviour

ASSUME RecoveryAssumption ==
    /\ Content # {} /\ Id # {} /\ Key # {}
    /\ Content \subseteq [action: {"claim", "setid"}, expected: Id, target: Id]
    /\ MaxRetries \in Nat /\ MaxMishaps \in Nat

VARIABLES
    receipt,    \* recovery_executions by key
    group,      \* last-delivered-id of the consumer group
    applied,    \* how often Redis carried out the command of a receipt
    execution,  \* the requests, each in executeRecovery
    mishaps

executionVars == <<receipt, group, applied, execution, mishaps>>

ReceiptStatus == {"none", "running", "succeeded", "failed"}
Outcome == {"none", "ok", "stale", "redis_error", "refused"}
ReceiptRecord == [status: ReceiptStatus, content: Content, outcome: Outcome]

\* A request reserves its key, or reads the receipt that has it; it executes
\* and records.  An answered one keeps what it was answered.
Stage == {"idle", "load", "execute", "record", "answered"}
Answer == {"none", "ok", "replay", "conflict", "running", "failed", "unknown"}
ExecutionRecord == [stage: Stage, key: Key, content: Content, tries: 0..MaxRetries,
                    outcome: Outcome, answer: Answer]

NoExecution == [stage |-> "idle", key |-> CHOOSE k \in Key : TRUE,
                content |-> CHOOSE c \in Content : TRUE, tries |-> 0,
                outcome |-> "none", answer |-> "none"]
NoReceipt == [status |-> "none", content |-> CHOOSE c \in Content : TRUE,
              outcome |-> "none"]

ExecutionTypeOK ==
    /\ receipt \in [Key -> ReceiptRecord]
    /\ group \in Id
    /\ applied \in [Key -> Nat]
    /\ execution \in [Executor -> ExecutionRecord]
    /\ mishaps \in 0..MaxMishaps

ExecutionInit ==
    /\ receipt = [k \in Key |-> NoReceipt]
    /\ group \in Id
    /\ applied = [k \in Key |-> 0]
    /\ execution = [r \in Executor |-> NoExecution]
    /\ mishaps = MaxMishaps

Mishap == mishaps > 0 /\ mishaps' = mishaps - 1

-----------------------------------------------------------------------------
(* Reserving the key.                                                        *)

\* Fault: INSERT OR REPLACE.
Free_Always(k) == TRUE

\* Fault: what has failed may be tried again under its key.
Free_Failed(k) == receipt[k].status \in {"none", "failed"}

Free(k) == receipt[k].status = "none"

\* beginRecoveryExecution: INSERT OR IGNORE, and a read of its own if the key
\* was in use.
Begin(r, k, c) ==
    /\ execution[r].stage \in {"idle", "answered"}
    /\ receipt' = IF Free(k)
                  THEN [receipt EXCEPT ![k] =
                          [status |-> "running", content |-> c, outcome |-> "none"]]
                  ELSE receipt
    /\ execution' = [execution EXCEPT ![r] =
          [NoExecution EXCEPT !.stage = IF Free(k) THEN "execute" ELSE "load",
                              !.key = k, !.content = c]]
    /\ UNCHANGED <<group, applied, mishaps>>

\* Fault: the hash of the request is not compared.
ReplayOf_AnyContent(stored, c) ==
    IF stored.status = "running" THEN "running"
    ELSE IF stored.status = "succeeded" THEN "replay"
    ELSE "failed"

\* What a request that did not get the key is told; no receipt is an error.
ReplayOf(stored, c) ==
    IF stored.status = "none" THEN "failed"
    ELSE IF stored.content # c THEN "conflict"
    ELSE IF stored.status = "running" THEN "running"
    ELSE IF stored.status = "succeeded" THEN "replay"
    ELSE "failed"

LoadReceipt(r) ==
    /\ execution[r].stage = "load"
    /\ execution' = [execution EXCEPT ![r].stage = "answered",
                                  ![r].answer =
                      ReplayOf(receipt[execution[r].key], execution[r].content)]
    /\ UNCHANGED <<receipt, group, applied, mishaps>>
-----------------------------------------------------------------------------
(* Carrying out the command.                                                 *)

\* atomicGroupSetIDScript compares with the id of the plan; the other commands
\* are carried out as they arrive.
Accepts(c) == c.action = "setid" => group = c.expected

Carry(k) ==
    LET c == receipt[k].content
    IN  IF Accepts(c)
        THEN /\ group' = IF c.action = "setid" THEN c.target ELSE group
             /\ applied' = [applied EXCEPT ![k] = @ + 1]
        ELSE UNCHANGED <<group, applied>>

Reply(r, outcome) ==
    execution' = [execution EXCEPT ![r].stage = "record", ![r].outcome = outcome]

\* Redis carries the command out or refuses it, and the reply arrives.
Execute(r) ==
    /\ execution[r].stage = "execute"
    /\ Carry(execution[r].key)
    /\ Reply(r, IF Accepts(execution[r].content) THEN "ok" ELSE "stale")
    /\ UNCHANGED <<receipt, mishaps>>

\* The client tries again as often as it may and then reports the error.
Retry(r) ==
    IF execution[r].tries = MaxRetries
    THEN Reply(r, "redis_error")
    ELSE execution' = [execution EXCEPT ![r].tries = @ + 1]

\* The command does not reach Redis.
Unreachable(r) ==
    /\ Mishap
    /\ execution[r].stage = "execute"
    /\ Retry(r)
    /\ UNCHANGED <<receipt, group, applied>>

\* Redis carries it out and the reply is lost.
LostReply(r) ==
    /\ Mishap
    /\ execution[r].stage = "execute"
    /\ Carry(execution[r].key)
    /\ Retry(r)
    /\ UNCHANGED receipt

\* The connection is not configured (any more), or the group is gone.
Refused(r) ==
    /\ Mishap
    /\ execution[r].stage = "execute"
    /\ Reply(r, "refused")
    /\ UNCHANGED <<receipt, group, applied>>

-----------------------------------------------------------------------------
(* Recording the outcome.                                                    *)

Answered(r, answer) ==
    execution' = [execution EXCEPT ![r].stage = "answered", ![r].answer = answer]

\* completeRecoveryExecution and failRecoveryExecution: the UPDATE asks that the
\* receipt is running.
RecordOutcome(r) ==
    LET k == execution[r].key
        o == execution[r].outcome
        Running == receipt[k].status = "running"
    IN  /\ execution[r].stage = "record"
        /\ receipt' = IF Running
                      THEN [receipt EXCEPT
                              ![k].status = IF o = "ok" THEN "succeeded" ELSE "failed",
                              ![k].outcome = o]
                      ELSE receipt
        /\ Answered(r, IF o # "ok" THEN "failed" ELSE IF Running THEN "ok" ELSE "unknown")
        /\ UNCHANGED <<group, applied, mishaps>>

\* The UPDATE fails, or the client has gone and its context with it: the
\* receipt goes on running.
RecordFails(r) ==
    /\ Mishap
    /\ execution[r].stage = "record"
    /\ Answered(r, IF execution[r].outcome = "ok" THEN "unknown" ELSE "failed")
    /\ UNCHANGED <<receipt, group, applied>>

\* The client goes while the command is under way.
Abandon(r) ==
    /\ Mishap
    /\ execution[r].stage \in {"load", "execute"}
    /\ \/ Answered(r, "failed") /\ UNCHANGED <<group, applied>>
       \/ /\ execution[r].stage = "execute"
          /\ Carry(execution[r].key)
          /\ Answered(r, "failed")
    /\ UNCHANGED receipt

ProcessStops ==
    /\ Mishap
    /\ execution' = [r \in Executor |-> NoExecution]
    /\ UNCHANGED <<receipt, group, applied>>

-----------------------------------------------------------------------------
(* Around it.                                                                *)

\* Consumers read on, and others move the group by their own commands.
Move(i) ==
    /\ i # group
    /\ group' = i
    /\ UNCHANGED <<receipt, applied, execution, mishaps>>

\* Fault: receipts of an unknown outcome are forgotten as well.
Prunable_Running(k) == receipt[k].status # "none"

Prunable(k) == receipt[k].status \in {"succeeded", "failed"}

\* pruneRecoveryHistory after 30 days; no request lasts that long.
PruneReceipt(k) ==
    /\ Prunable(k)
    /\ \A r \in Executor : execution[r].key = k => execution[r].stage \in {"idle", "answered"}
    /\ receipt' = [receipt EXCEPT ![k] = NoReceipt]
    /\ applied' = [applied EXCEPT ![k] = 0]
    /\ UNCHANGED <<group, execution, mishaps>>

ExecutionNext ==
    \/ \E r \in Executor, k \in Key, c \in Content : Begin(r, k, c)
    \/ \E r \in Executor :
          \/ LoadReceipt(r) \/ Execute(r) \/ Unreachable(r) \/ LostReply(r) \/ Refused(r)
          \/ RecordOutcome(r) \/ RecordFails(r) \/ Abandon(r)
    \/ ProcessStops
    \/ \E i \in Id : Move(i)
    \/ \E k \in Key : PruneReceipt(k)

ExecutionSpec == ExecutionInit /\ [][ExecutionNext]_executionVars

-----------------------------------------------------------------------------
(* Properties.                                                               *)

Executing(r) == execution[r].stage \in {"execute", "record"}

\* At most one request is past the reservation of a key, and its receipt runs
\* with what it was asked: neither a racing request, nor a crash, nor retention
\* hands a command out twice.
OneExecutor ==
    /\ \A r, s \in Executor :
          Executing(r) /\ Executing(s) /\ execution[r].key = execution[s].key => r = s
    /\ \A r \in Executor :
          Executing(r) => /\ receipt[execution[r].key].status = "running"
                          /\ receipt[execution[r].key].content = execution[r].content

\* Whatever is lost, repeated or crashes, a receipt stands for at most one
\* execution and the retries of its client.
AppliedWithinRetries ==
    \A k \in Key :
        applied[k] <= 1 + MaxRetries /\ (receipt[k].status = "none" => applied[k] = 0)

\* A success is recorded, told or replayed only for a command that Redis carried
\* out, and only for the very request that it was.
AnswersAreTrue ==
    [][\A r \in Executor :
          /\ execution[r].stage # "answered"
          /\ execution'[r].stage = "answered" /\ execution'[r].answer \in {"ok", "replay"}
          => LET k == execution[r].key
             IN  /\ applied[k] > 0
                 /\ receipt'[k].status = "succeeded"
                 /\ receipt'[k].content = execution[r].content]_executionVars

\* recovery.go:546 "The running marker deliberately blocks an automatic retry":
\* a receipt whose request is gone is not changed any more.
UnknownIsKept ==
    [][\A k \in Key :
          /\ receipt[k].status = "running"
          /\ \A r \in Executor : Executing(r) => execution[r].key # k
          => receipt'[k] = receipt[k]]_executionVars
=============================================================================
