----------------------------- MODULE Quarantine -----------------------------
(***************************************************************************)
(* Quarantine of stream entries and their replay (recovery.go).            *)
(*                                                                         *)
(* quarantineEntries copies an entry to a dead letter stream, saves a      *)
(* record of it in SQLite and then acknowledges it at its source;          *)
(* executeQuarantineAction replays or skips records.  Redis and SQLite do  *)
(* not commit together: a marker in Redis with a life of 30 days makes the *)
(* copies once-only.  Every request here has got its idempotency key       *)
(* (RecoveryExecution); the same entries may be asked for under many keys. *)
(* An origin is an entry and a dead letter stream, the rest of its key     *)
(* (connection, source stream and group) is fixed.                         *)
(***************************************************************************)
EXTENDS Naturals

CONSTANTS
    Entry,      \* entries of the source stream
    Dlq,        \* dead letter streams
    Target,     \* streams to replay to
    Request,    \* concurrent requests
    MaxRecord,  \* records of a behaviour; ids are never used again
    MaxFaults,
    None

Origin == Entry \X Dlq
Record == 1..MaxRecord

ASSUME QuarantineAssumption ==
    /\ MaxRecord \in Nat /\ MaxFaults \in Nat
    /\ None \notin Entry /\ None \notin Record /\ None \notin Dlq \cup Target

VARIABLES
    stored,    \* entries the source stream still has
    pending,   \* entries pending in the source group
    acked,     \* entries acknowledged by a quarantine
    copies,    \* copies of an origin in its dead letter stream: 2 is more
    marker,    \* origins with a marker
    record,    \* quarantine_records by id
    nextId,
    replays,   \* replays of a record to a target: 2 is more
    mark,      \* replays with a marker
    lapsed,    \* origins and replays whose marker ended
    request, faults

redis == <<stored, pending, acked, copies, marker, replays, mark, lapsed>>
vars == <<redis, record, nextId, request, faults>>

Status == {"absent", "quarantined", "replayed", "skipped"}
NoRecord == [status |-> "absent", origin |-> None, acked |-> FALSE, target |-> None]
RecordRow == {NoRecord} \cup
    [status: Status \ {"absent"}, origin: Origin, acked: BOOLEAN, target: Target \cup {None}]

\* A quarantine walks through its entries and a replay or a skip through the
\* records it has read, one (item) after the other.
Idle == [stage |-> "idle", todo |-> {}, item |-> None, dest |-> None,
         acknowledge |-> FALSE, rec |-> None]
QuarantineRow ==
    [stage: {"idle", "load", "entry", "copy", "save", "ack", "flag"},
     todo: SUBSET Entry, item: Entry \cup {None}, dest: Dlq \cup {None},
     acknowledge: BOOLEAN, rec: Record \cup {None}]
ActionRow ==
    [stage: {"replay", "close", "skip"},
     todo: SUBSET Record, item: Record \cup {None}, dest: Target \cup {None},
     acknowledge: BOOLEAN, rec: {None}]
RequestRow == QuarantineRow \cup ActionRow

TypeOK ==
    /\ stored \subseteq Entry /\ pending \subseteq Entry /\ acked \subseteq Entry
    /\ copies \in [Origin -> 0..2]
    /\ marker \subseteq Origin
    /\ record \in [Record -> RecordRow]
    /\ nextId \in 1..(MaxRecord + 1)
    /\ replays \in [Record \X Target -> 0..2]
    /\ mark \subseteq Record \X Target
    /\ lapsed \subseteq Origin \cup (Record \X Target)
    /\ request \in [Request -> RequestRow]
    /\ faults \in 0..MaxFaults

Init ==
    /\ stored = Entry /\ pending \in SUBSET Entry /\ acked = {}
    /\ copies = [o \in Origin |-> 0] /\ marker = {}
    /\ record = [i \in Record |-> NoRecord] /\ nextId = 1
    /\ replays = [m \in Record \X Target |-> 0] /\ mark = {}
    /\ lapsed = {}
    /\ request = [r \in Request |-> Idle]
    /\ faults = MaxFaults

More(n) == IF n = 2 THEN n ELSE n + 1

Becomes(r, q) == request' = [request EXCEPT ![r] = q]

Fault == faults > 0 /\ faults' = faults - 1

-----------------------------------------------------------------------------
(* quarantineEntries.                                                        *)

Quarantine(r, E, d, ack) ==
    /\ request[r].stage = "idle"
    /\ E # {}
    /\ Becomes(r, [Idle EXCEPT !.stage = "load", !.todo = E, !.dest = d,
                               !.acknowledge = ack])
    /\ UNCHANGED <<redis, record, nextId, faults>>

\* Every entry is read before the first is copied; one that is gone ends the
\* request.  Entries only vanish, so that the reads count as one.
Load(r) ==
    LET q == request[r]
    IN  /\ q.stage = "load"
        /\ Becomes(r, IF q.todo \subseteq stored THEN [q EXCEPT !.stage = "entry"] ELSE Idle)
        /\ UNCHANGED <<redis, record, nextId, faults>>

IdsOf(o) == {i \in Record : record[i].status # "absent" /\ record[i].origin = o}

NextEntry(q) ==
    [q EXCEPT !.stage = "entry", !.todo = @ \ {q.item}, !.item = None, !.rec = None]

\* The record is there: acknowledge if asked to.
Saved(q, i) ==
    IF q.acknowledge THEN [q EXCEPT !.stage = "ack", !.rec = i] ELSE NextEntry(q)

\* Fault: a new entry is acknowledged before it is copied.
Copying_AckFirst(q) == [q EXCEPT !.stage = IF q.acknowledge THEN "ack" ELSE "copy"]

Copying(q) == [q EXCEPT !.stage = "copy"]

\* loadQuarantineRecordByOrigin.
LookUp(r, e) ==
    LET q == [request[r] EXCEPT !.item = e]
        found == IdsOf(<<e, q.dest>>)
    IN  /\ q.stage = "entry"
        /\ e \in q.todo
        /\ Becomes(r, IF found = {} THEN Copying(q) ELSE Saved(q, CHOOSE i \in found : TRUE))
        /\ UNCHANGED <<redis, record, nextId, faults>>

\* Fault: the script does not look for the marker.
Once_NoMarker(n, marked) == More(n)

\* redisXAddOnceScript adds an entry unless there is a marker.
Once(n, marked) == IF marked THEN n ELSE More(n)

AddCopy(o) ==
    /\ copies' = [copies EXCEPT ![o] = Once(@, o \in marker)]
    /\ marker' = marker \cup {o}
    /\ UNCHANGED <<stored, pending, acked, replays, mark, lapsed>>

Copy(r) ==
    LET q == request[r]
    IN  /\ q.stage = "copy"
        /\ AddCopy(<<q.item, q.dest>>)
        /\ Becomes(r, [q EXCEPT !.stage = "save"])
        /\ UNCHANGED <<record, nextId, faults>>

\* saveQuarantineRecord: INSERT OR IGNORE and a read by origin.
Save(r) ==
    LET q == request[r]
        o == <<q.item, q.dest>>
        found == IdsOf(o)
    IN  /\ q.stage = "save"
        /\ IF found = {}
           THEN /\ nextId <= MaxRecord
                /\ record' = [record EXCEPT ![nextId] =
                      [NoRecord EXCEPT !.status = "quarantined", !.origin = o]]
                /\ nextId' = nextId + 1
                /\ Becomes(r, Saved(q, nextId))
           ELSE /\ Becomes(r, Saved(q, CHOOSE i \in found : TRUE))
                /\ UNCHANGED <<record, nextId>>
        /\ UNCHANGED <<redis, faults>>

Acknowledge(e) ==
    /\ pending' = pending \ {e}
    /\ acked' = IF e \in pending THEN acked \cup {e} ELSE acked
    /\ UNCHANGED <<stored, copies, marker, replays, mark, lapsed>>

\* Fault: a count of zero is taken for an acknowledgement.
Counts_Anything(e) == TRUE

Counts(e) == e \in pending

Ack(r) ==
    LET q == request[r]
    IN  /\ q.stage = "ack"
        /\ Acknowledge(q.item)
        /\ Becomes(r, IF Counts(q.item) THEN [q EXCEPT !.stage = "flag"] ELSE NextEntry(q))
        /\ UNCHANGED <<record, nextId, faults>>

\* markQuarantineSourceAcked: an UPDATE by id, of a row that may be pruned.
Flag(r) ==
    LET q == request[r]
    IN  /\ q.stage = "flag"
        /\ record' = IF record[q.rec].status = "absent"
                     THEN record ELSE [record EXCEPT ![q.rec].acked = TRUE]
        /\ Becomes(r, NextEntry(q))
        /\ UNCHANGED <<redis, nextId, faults>>

-----------------------------------------------------------------------------
(* executeQuarantineAction.                                                  *)

\* The records are read in one query; those that are not quarantined any more
\* are passed over.
Act(r, S, stage, t) ==
    /\ request[r].stage = "idle"
    /\ S # {}
    /\ \A i \in S : record[i].status # "absent"
    /\ Becomes(r, [Idle EXCEPT !.stage = stage, !.dest = t,
                               !.todo = {i \in S : record[i].status = "quarantined"}])
    /\ UNCHANGED <<redis, record, nextId, faults>>

AddReplay(m) ==
    /\ replays' = [replays EXCEPT ![m] = Once(@, m \in mark)]
    /\ mark' = mark \cup {m}
    /\ UNCHANGED <<stored, pending, acked, copies, marker, lapsed>>

Replay(r, i) ==
    LET q == request[r]
    IN  /\ q.stage = "replay"
        /\ i \in q.todo
        /\ AddReplay(<<i, q.dest>>)
        /\ Becomes(r, [q EXCEPT !.stage = "close", !.todo = @ \ {i}, !.item = i])
        /\ UNCHANGED <<record, nextId, faults>>

\* Fault: the UPDATE does not ask for the status.
Open_Anything(i) == TRUE

Open(i) == record[i].status = "quarantined"

\* markQuarantineReplayed: no row changed ends the request.
Close(r) ==
    LET q == request[r]
    IN  /\ q.stage = "close"
        /\ IF Open(q.item)
           THEN /\ record' = [record EXCEPT ![q.item].status = "replayed",
                                            ![q.item].target = q.dest]
                /\ Becomes(r, [q EXCEPT !.stage = "replay", !.item = None])
           ELSE Becomes(r, Idle) /\ UNCHANGED record
        /\ UNCHANGED <<redis, nextId, faults>>

\* markQuarantineSkipped.
Skip(r, i) ==
    LET q == request[r]
    IN  /\ q.stage = "skip"
        /\ i \in q.todo
        /\ IF Open(i)
           THEN /\ record' = [record EXCEPT ![i].status = "skipped"]
                /\ Becomes(r, [q EXCEPT !.todo = @ \ {i}])
           ELSE Becomes(r, Idle) /\ UNCHANGED record
        /\ UNCHANGED <<redis, nextId, faults>>

Done(r) ==
    /\ request[r].stage \in {"entry", "replay", "skip"}
    /\ request[r].todo = {}
    /\ Becomes(r, Idle)
    /\ UNCHANGED <<redis, record, nextId, faults>>

-----------------------------------------------------------------------------
(* Failures, and what goes on around.                                        *)

\* A call to Redis or SQLite fails without effect, or the client has gone.
Fails(r) ==
    /\ Fault
    /\ request[r].stage # "idle"
    /\ Becomes(r, Idle)
    /\ UNCHANGED <<redis, record, nextId>>

\* Redis did what it was asked and the reply is lost: the client of Redis asks
\* again, or the request fails.
ReplyLost(r) ==
    LET q == request[r]
    IN  /\ Fault
        /\ \/ q.stage = "copy" /\ AddCopy(<<q.item, q.dest>>)
           \/ q.stage = "ack" /\ Acknowledge(q.item)
           \/ q.stage = "replay" /\ \E i \in q.todo : AddReplay(<<i, q.dest>>)
        /\ Becomes(r, q) \/ Becomes(r, Idle)
        /\ UNCHANGED <<record, nextId>>

Crash ==
    /\ Fault
    /\ request' = [r \in Request |-> Idle]
    /\ UNCHANGED <<redis, record, nextId>>

\* A consumer acknowledges an entry itself; the stream is trimmed.
Consume(e) ==
    /\ e \in pending
    /\ pending' = pending \ {e}
    /\ UNCHANGED <<stored, acked, copies, marker, replays, mark, lapsed>>
    /\ UNCHANGED <<record, nextId, request, faults>>

Trim(e) ==
    /\ e \in stored
    /\ stored' = stored \ {e}
    /\ UNCHANGED <<pending, acked, copies, marker, replays, mark, lapsed>>
    /\ UNCHANGED <<record, nextId, request, faults>>

\* A marker lives for 30 days after it was last asked for, longer than the
\* request that asked.
MarkerLapses(o) ==
    /\ o \in marker
    /\ \A r \in Request :
          request[r].stage \in {"copy", "save"} => <<request[r].item, request[r].dest>> # o
    /\ marker' = marker \ {o}
    /\ lapsed' = lapsed \cup {o}
    /\ UNCHANGED <<stored, pending, acked, copies, replays, mark>>
    /\ UNCHANGED <<record, nextId, request, faults>>

Replaying(r, i) ==
    /\ request[r].stage \in {"replay", "close", "skip"}
    /\ i \in request[r].todo \/ i = request[r].item

MarkLapses(m) ==
    /\ m \in mark
    /\ \A r \in Request : Replaying(r, m[1]) => request[r].dest # m[2]
    /\ mark' = mark \ {m}
    /\ lapsed' = lapsed \cup {m}
    /\ UNCHANGED <<stored, pending, acked, copies, marker, replays>>
    /\ UNCHANGED <<record, nextId, request, faults>>

\* pruneRecoveryHistory: 30 days after a record was replayed or skipped no
\* request that found it quarantined is left.
Prune(i) ==
    /\ record[i].status \in {"replayed", "skipped"}
    /\ \A r \in Request : ~Replaying(r, i)
    /\ record' = [record EXCEPT ![i] = NoRecord]
    /\ UNCHANGED <<redis, nextId, request, faults>>

Next ==
    \/ \E r \in Request, E \in SUBSET Entry, d \in Dlq, ack \in BOOLEAN : Quarantine(r, E, d, ack)
    \/ \E r \in Request, S \in SUBSET Record :
          \/ \E t \in Target : Act(r, S, "replay", t)
          \/ Act(r, S, "skip", None)
    \/ \E r \in Request :
          \/ Load(r) \/ Copy(r) \/ Save(r) \/ Ack(r) \/ Flag(r) \/ Close(r) \/ Done(r)
          \/ Fails(r) \/ ReplyLost(r)
          \/ \E e \in Entry : LookUp(r, e)
          \/ \E i \in Record : Replay(r, i) \/ Skip(r, i)
    \/ Crash
    \/ \E e \in Entry : Consume(e) \/ Trim(e)
    \/ \E o \in Origin : MarkerLapses(o)
    \/ \E m \in Record \X Target : MarkLapses(m)
    \/ \E i \in Record : Prune(i)

Spec == Init /\ [][Next]_vars

-----------------------------------------------------------------------------
(* Properties.                                                               *)

\* recovery.go:923 "never an acknowledged entry without a DLQ copy", whatever
\* fails, is lost or is repeated between Redis and SQLite.
AckedHasCopy ==
    \A e \in acked : \E d \in Dlq : copies[<<e, d>>] > 0

\* However many requests under however many keys ask for an entry, it is copied
\* once to a dead letter stream until its marker ends.
OneCopy ==
    \A o \in Origin : copies[o] > 1 => o \in lapsed

\* A record is replayed once to a target until that marker ends, also if the
\* request that replayed it failed before it could say so.
OneReplay ==
    \A m \in Record \X Target : replays[m] > 1 => m \in lapsed

\* What a record says is true of the streams: the entry was copied, it was
\* acknowledged by a quarantine, the record was replayed to its target; and an
\* origin has one record.
RecordsAreTrue ==
    \A i \in Record :
        record[i].status # "absent" =>
            /\ copies[record[i].origin] > 0
            /\ IdsOf(record[i].origin) = {i}
            /\ record[i].acked => record[i].origin[1] \in acked
            /\ record[i].status = "replayed" => replays[<<i, record[i].target>>] > 0

\* recovery.go:1479 "already replayed or skipped records remain unchanged",
\* whichever requests race: a later one may only note the acknowledgement.
TerminalIsFinal ==
    [][\A i \in Record :
          record[i].status \in {"replayed", "skipped"}
          => record'[i] \in {NoRecord, record[i], [record[i] EXCEPT !.acked = TRUE]}]_vars
=============================================================================
