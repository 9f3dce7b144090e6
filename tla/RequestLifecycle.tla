-------------------------- MODULE RequestLifecycle --------------------------
(***************************************************************************)
(* Request lifecycles and trace spans: events that services report are     *)
(* merged into request_lifecycles (lifecycle.go) and trace_spans           *)
(* (insights.go), listed page by page and pruned (retention.go).           *)
(*                                                                         *)
(* Services retry: events arrive late, twice, out of order and in batches  *)
(* that are stored whole or not at all.  A batch takes its time when it is *)
(* read and waits for the one writer of SQLite after that, so rows can be  *)
(* written in another order than their times.                              *)
(*                                                                         *)
(* An event that names no span is about the request and is merged into the *)
(* request's row and its root span; any other event only into its span.    *)
(* The connection and the stream are one value, the home; group stands for *)
(* the ids that are filled in once (group, entry, parent span).  Services, *)
(* operations, attributes and the search of a listing are left out, and so *)
(* is the bearer token, which is checked before the batch is read.         *)
(***************************************************************************)
EXTENDS Integers, Sequences, FiniteSets

CONSTANTS
    Trace,      \* ids, in their order as text
    SpanId,     \* ids of spans, the root's among them
    Root,
    Event,      \* what services report
    Batch,      \* sequences of events that arrive together
    Client,     \* batches in progress
    Limit,      \* rows of a page
    Retention,  \* lifecycleHistoryRetention, in ticks
    MaxClock,   \* bound of a behaviour
    None

ASSUME LifecycleAssumption ==
    /\ Trace \subseteq Nat /\ IsFiniteSet(Trace)
    /\ Root \in SpanId /\ "" \notin SpanId
    /\ Batch \subseteq Seq(Event)
    /\ Limit \in Nat \ {0} /\ Retention \in Nat /\ MaxClock \in Nat
    /\ None \notin Int /\ None \notin Client

Instant == Nat \cup {None}

ASSUME EventAssumption ==
    \A e \in Event :
       /\ e.trace \in Trace /\ e.span \in SpanId \cup {""} /\ e.attempt \in Nat
       /\ {e.registered, e.started, e.processed, e.acknowledged} \subseteq Instant

VARIABLES
    clock,
    db,        \* the two tables, as committed
    request,   \* what each request has read and when
    tx,        \* the transaction that holds the writer slot
    listing    \* a client that pages through the requests

vars == <<clock, db, request, tx, listing>>

\* "from" is the set of events merged into the row since it was inserted.
NoRow ==
    [present |-> FALSE, home |-> None, group |-> "", consumer |-> "",
     outcome |-> "", error |-> "", attempt |-> 0, registered |-> None,
     started |-> None, processed |-> None, acknowledged |-> None,
     updated |-> 0, from |-> {}]

NoRequest == [stage |-> "none", batch |-> <<>>, now |-> 0]

NoTables == [life |-> [t \in Trace |-> NoRow],
             span |-> [key \in Trace \X SpanId |-> NoRow]]

NoTx == [client |-> None, rest |-> <<>>, now |-> 0, db |-> NoTables]

NoListing == [stage |-> "none", last |-> <<0, 0>>, seen |-> [t \in Trace |-> 0], stable |-> {}]

RowRecord ==
    [present: BOOLEAN, home: {e.home : e \in Event} \cup {None},
     group: {e.group : e \in Event} \cup {""},
     consumer: {e.consumer : e \in Event} \cup {""},
     outcome: {e.outcome : e \in Event} \cup {""},
     error: {e.error : e \in Event} \cup {""}, attempt: Nat,
     registered: Instant, started: Instant, processed: Instant, acknowledged: Instant,
     updated: Nat, from: SUBSET Event]

Tables == [life: [Trace -> RowRecord], span: [Trace \X SpanId -> RowRecord]]

TypeOK ==
    /\ clock \in 0..MaxClock
    /\ db \in Tables
    /\ request \in [Client -> [stage: {"none", "read", "storing"}, batch: Seq(Event), now: Nat]]
    /\ tx \in [client: Client \cup {None}, rest: Seq(Event), now: Nat, db: Tables]
    /\ listing \in [stage: {"none", "first", "more", "done"}, last: Nat \X Nat,
                    seen: [Trace -> Nat], stable: SUBSET Trace]

-----------------------------------------------------------------------------
(* Merging one event into one row.                                         *)

NotBefore(a, b) == a # None /\ b # None => a <= b

ValidOrder(r) ==
    /\ NotBefore(r.registered, r.started)
    /\ NotBefore(r.started, r.processed)
    /\ NotBefore(r.processed, r.acknowledged)
    /\ NotBefore(r.registered, r.processed)
    /\ NotBefore(r.registered, r.acknowledged)

Earlier(a, b) == IF a = None THEN b ELSE IF b # None /\ b < a THEN b ELSE a

\* Fault: a later report replaces the time whatever it is.
Later_Replaced(a, b) == IF b = None THEN a ELSE b

Later(a, b) == IF a = None THEN b ELSE IF b # None /\ b > a THEN b ELSE a

Succeeded(outcome) == outcome = "success"

Inserted(e, now) ==
    [present |-> TRUE, home |-> e.home, group |-> e.group, consumer |-> e.consumer,
     outcome |-> e.outcome, error |-> e.error, attempt |-> e.attempt,
     registered |-> e.registered, started |-> e.started, processed |-> e.processed,
     acknowledged |-> e.acknowledged, updated |-> now, from |-> {e}]

\* Fault: every event counts as one of the newest attempt.
Merged_AsNewest(r, e, now, fills) ==
    [r EXCEPT !.consumer = IF e.consumer = "" THEN @ ELSE e.consumer,
              !.outcome = IF e.outcome = "" THEN @ ELSE e.outcome,
              !.error = IF e.error = "" THEN @ ELSE e.error,
              !.attempt = e.attempt, !.updated = now, !.from = @ \cup {e},
              !.registered = Earlier(@, e.registered), !.started = Earlier(@, e.started),
              !.processed = Later(@, e.processed), !.acknowledged = Later(@, e.acknowledged)]

\* fills: an older attempt may fill in what no attempt has given yet; the
\* request's row takes that, the span does not.
Merged(r, e, now, fills) ==
    LET newest   == e.attempt >= r.attempt
        consumes == e.consumer # "" /\ (newest \/ (fills /\ r.consumer = ""))
        ends     == e.outcome # "" /\ (newest \/ (fills /\ r.outcome = ""))
    IN [present |-> TRUE, home |-> r.home,
        group |-> IF r.group = "" THEN e.group ELSE r.group,
        consumer |-> IF consumes THEN e.consumer ELSE r.consumer,
        outcome |-> IF ends THEN e.outcome ELSE r.outcome,
        error |-> IF e.error # "" /\ newest THEN e.error
                  ELSE IF ends /\ Succeeded(e.outcome) /\ e.error = "" THEN ""
                  ELSE r.error,
        attempt |-> IF newest THEN e.attempt ELSE r.attempt,
        registered |-> Earlier(r.registered, e.registered),
        started |-> Earlier(r.started, e.started),
        processed |-> Later(r.processed, e.processed),
        acknowledged |-> Later(r.acknowledged, e.acknowledged),
        updated |-> now, from |-> r.from \cup {e}]

Upserted(r, e, now, fills) == IF r.present THEN Merged(r, e, now, fills) ELSE Inserted(e, now)

\* Another home, another group, or times that contradict those stored.
Contradicts(r, e) ==
    /\ r.present
    /\ \/ r.home # e.home
       \/ r.group # "" /\ e.group # "" /\ r.group # e.group
       \/ ~ValidOrder(Merged(r, e, 0, TRUE))

SpanOf(e) == IF e.span = "" THEN Root ELSE e.span

AboutRequest(e) == e.span = ""

Refused(d, e) ==
    \/ AboutRequest(e) /\ Contradicts(d.life[e.trace], e)
    \/ Contradicts(d.span[<<e.trace, SpanOf(e)>>], e)

Ingested(d, e, now) ==
    [life |-> IF AboutRequest(e)
              THEN [d.life EXCEPT ![e.trace] = Upserted(@, e, now, TRUE)]
              ELSE d.life,
     span |-> [d.span EXCEPT ![<<e.trace, SpanOf(e)>>] = Upserted(@, e, now, FALSE)]]

-----------------------------------------------------------------------------
Init ==
    /\ clock = 0
    /\ db = NoTables
    /\ request = [c \in Client |-> NoRequest]
    /\ tx = NoTx
    /\ listing = NoListing

\* Validated before anything is stored.
ReadBatch(c, b) ==
    /\ request[c].stage = "none"
    /\ b # <<>>
    /\ \A i \in DOMAIN b : ValidOrder(b[i])
    /\ request' = [request EXCEPT ![c] = [stage |-> "read", batch |-> b, now |-> clock]]
    /\ UNCHANGED <<clock, db, tx, listing>>

BeginTransaction(c) ==
    /\ request[c].stage = "read" /\ tx.client = None
    /\ tx' = [client |-> c, rest |-> request[c].batch, now |-> request[c].now, db |-> db]
    /\ request' = [request EXCEPT ![c].stage = "storing"]
    /\ UNCHANGED <<clock, db, listing>>

UpsertEvent ==
    /\ tx.client # None /\ tx.rest # <<>>
    /\ ~Refused(tx.db, Head(tx.rest))
    /\ tx' = [tx EXCEPT !.rest = Tail(@), !.db = Ingested(@, Head(tx.rest), tx.now)]
    /\ UNCHANGED <<clock, db, request, listing>>

\* A refused event, a database error or a client that goes away.
RollBack ==
    /\ tx.client # None
    /\ tx' = NoTx
    /\ request' = [request EXCEPT ![tx.client] = NoRequest]
    /\ UNCHANGED <<clock, db, listing>>

Commit ==
    /\ tx.client # None /\ tx.rest = <<>>
    /\ db' = tx.db
    /\ tx' = NoTx
    /\ request' = [request EXCEPT ![tx.client] = NoRequest]
    /\ listing' = [listing EXCEPT !.stable = {t \in @ : tx.db.life[t] = db.life[t]}]
    /\ UNCHANGED clock

Expired(r) == r.updated < clock - Retention

\* Once a minute; both tables in one transaction.
MaintainOperationalHistory ==
    /\ tx.client = None
    /\ db' = [life |-> [t \in Trace |-> IF Expired(db.life[t]) THEN NoRow ELSE db.life[t]],
              span |-> [key \in Trace \X SpanId |->
                          IF Expired(db.span[key]) THEN NoRow ELSE db.span[key]]]
    /\ db' # db
    /\ listing' = [listing EXCEPT !.stable = {t \in @ : ~Expired(db.life[t])}]
    /\ UNCHANGED <<clock, request, tx>>

Tick ==
    /\ clock < MaxClock
    /\ clock' = clock + 1
    /\ UNCHANGED <<db, request, tx, listing>>

\* Batches in progress are lost; a request whose root span is gone, pruned
\* before it, gets one from its row.
Restart ==
    /\ request' = [c \in Client |-> NoRequest]
    /\ tx' = NoTx
    /\ db' = [db EXCEPT !.span = [key \in Trace \X SpanId |->
                 IF key[2] = Root /\ ~db.span[key].present
                 THEN db.life[key[1]] ELSE db.span[key]]]
    /\ UNCHANGED <<clock, listing>>

-----------------------------------------------------------------------------
(* A client lists the requests, the latest update first, page by page.     *)

Present(d) == {t \in Trace : d.life[t].present}

Key(d, t) == <<d.life[t].updated, t>>

Below(x, y) == x[1] < y[1] \/ (x[1] = y[1] /\ x[2] < y[2])

\* Fault: the cursor goes on after the time of the last row.
Remaining_TimeOnly ==
    {t \in Present(db) : listing.stage = "more" => Key(db, t)[1] < listing.last[1]}

\* The rows after the cursor, and the first of them that fill a page.
Remaining ==
    {t \in Present(db) : listing.stage = "more" => Below(Key(db, t), listing.last)}

PageOf(S) == {t \in S : Cardinality({u \in S : Below(Key(db, t), Key(db, u))}) < Limit}

IsLowest(t, S) == t \in S /\ \A u \in S : ~Below(Key(db, u), Key(db, t))

StartListing ==
    /\ listing.stage \in {"none", "done"}
    /\ listing' = [NoListing EXCEPT !.stage = "first", !.stable = Present(db)]
    /\ UNCHANGED <<clock, db, request, tx>>

\* The last row of a page is the cursor of the next one.
ListPage ==
    LET page == PageOf(Remaining)
        more == Cardinality(Remaining) > Limit
        counted == [t \in Trace |-> listing.seen[t] + IF t \in page THEN 1 ELSE 0]
    IN /\ listing.stage \in {"first", "more"}
       /\ \/ /\ ~more
             /\ listing' = [listing EXCEPT !.stage = "done", !.last = <<0, 0>>, !.seen = counted]
          \/ /\ more
             /\ \E t \in Trace :
                   /\ IsLowest(t, page)
                   /\ listing' = [listing EXCEPT !.stage = "more", !.last = Key(db, t),
                                                 !.seen = counted]
       /\ UNCHANGED <<clock, db, request, tx>>

Next ==
    \/ \E c \in Client, b \in Batch : ReadBatch(c, b)
    \/ \E c \in Client : BeginTransaction(c)
    \/ UpsertEvent
    \/ RollBack
    \/ Commit
    \/ MaintainOperationalHistory
    \/ Restart
    \/ Tick
    \/ StartListing
    \/ ListPage

Spec == Init /\ [][Next]_vars

-----------------------------------------------------------------------------
RowsOf(d) ==
    {d.life[t] : t \in Trace} \cup {d.span[key] : key \in Trace \X SpanId}

IsFirst(x, S) == IF S = {} THEN x = None ELSE x \in S /\ \A y \in S : x <= y
IsLast(x, S) == IF S = {} THEN x = None ELSE x \in S /\ \A y \in S : y <= x

TimesOf(r) ==
    /\ IsFirst(r.registered, {e.registered : e \in r.from} \ {None})
    /\ IsFirst(r.started, {e.started : e \in r.from} \ {None})
    /\ IsLast(r.processed, {e.processed : e \in r.from} \ {None})
    /\ IsLast(r.acknowledged, {e.acknowledged : e \in r.from} \ {None})

Final(r) == {e \in r.from : e.attempt = r.attempt}

FinalOf(r) ==
    LET outcomes == {e.outcome : e \in Final(r)} \ {""}
        consumers == {e.consumer : e \in Final(r)} \ {""}
    IN /\ Final(r) # {} /\ \A e \in r.from : e.attempt <= r.attempt
       /\ outcomes # {} => r.outcome \in outcomes
       /\ consumers # {} => r.consumer \in consumers

(* Late, repeated and reordered events leave the same times: a row holds   *)
(* the earliest registration and start and the latest processing and       *)
(* acknowledgement of what was merged into it.  (lifecycle_test.go: a      *)
(* retry must not "distort any timestamp" or "move completion backwards".) *)
TimesAreExtremes == \A r \in RowsOf(db) : r.present => TimesOf(r)

(* The last attempt has the last word: the attempt of a row is the highest *)
(* reported, and once that attempt has named a consumer or an outcome no   *)
(* event of an earlier attempt replaces it, however late it comes.         *)
(* (lifecycle_test.go: a delayed event "must not reduce the attempt,       *)
(* replace the final consumer".)                                           *)
FinalAttemptStands == \A r \in RowsOf(db) : r.present => FinalOf(r)

(* A listing has no duplicates and no gaps: a request that was stored when *)
(* it began and is not written or pruned before it ends is on one of its   *)
(* pages, and only on one, although others move and come meanwhile.        *)
ListedOnce ==
    \A t \in listing.stable :
       /\ listing.seen[t] <= 1
       /\ listing.stage = "done" => listing.seen[t] = 1
=============================================================================
