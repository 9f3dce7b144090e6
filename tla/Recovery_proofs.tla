------------------------- MODULE Recovery_proofs ---------------------------
(***************************************************************************)
(* Proofs about recovery.go: first Quarantine, then RecoveryExecution.     *)
(*                                                                         *)
(* Quarantine, for any entries, streams, requests and faults: the types,   *)
(* no acknowledged entry without a copy, copies and replays that are made  *)
(* once while their markers live, records that are true of the streams and *)
(* final ones that stay so.  None of these is inductive alone: what a      *)
(* request holds between two of its steps has to be true of the tables and *)
(* the streams (Sound), and what has been made once left a marker (Marked).*)
(*                                                                         *)
(* RecoveryExecution, for any requests, keys, contents, retries and        *)
(* faults: the types, one executor per key, the bound of its executions,   *)
(* and that answers are true and unknown outcomes kept.  The bound is not  *)
(* inductive alone: what Redis has done for a receipt is at most what its  *)
(* executor has tried, and that in turn needs the executor to be alone.    *)
(* The two modules share no state and are proved about apart.              *)
(***************************************************************************)
EXTENDS Quarantine, RecoveryExecution, TLAPS

\* What request r believes of the streams and of the records.
Sound(r) ==
    LET q == request[r]
    IN  /\ q.stage \in {"load", "entry", "copy", "save", "ack", "flag"} => q.dest \in Dlq
        /\ q.stage \in {"copy", "save", "ack", "flag"} => q.item \in Entry
        /\ q.stage \in {"save", "ack", "flag"} => copies[<<q.item, q.dest>>] > 0
        /\ q.stage \in {"ack", "flag"} =>
              /\ q.rec \in Record /\ q.rec < nextId
              /\ record[q.rec].status # "absent" => record[q.rec].origin = <<q.item, q.dest>>
        /\ q.stage = "flag" => q.item \in acked
        /\ q.stage \in {"replay", "close"} => q.dest \in Target
        /\ q.stage = "close" => q.item \in Record /\ replays[<<q.item, q.dest>>] > 0

\* A marker stands for something that was added, and what was added has its
\* marker until it ends.
Marked ==
    /\ \A o \in Origin : o \in marker => copies[o] > 0
    /\ \A o \in Origin : copies[o] > 0 => o \in marker \cup lapsed
    /\ \A m \in Record \X Target : m \in mark => replays[m] > 0
    /\ \A m \in Record \X Target : replays[m] > 0 => m \in mark \cup lapsed

TargetsKnown == \A i \in Record : record[i].status = "replayed" => record[i].target \in Target

\* Ids are never used again.
Fresh == \A i \in Record : i >= nextId => record[i] = NoRecord

\* The inductive invariant.
IInv ==
    /\ TypeOK /\ Marked /\ Fresh /\ TargetsKnown
    /\ AckedHasCopy /\ OneCopy /\ OneReplay /\ RecordsAreTrue
    /\ \A r \in Request : Sound(r)

-----------------------------------------------------------------------------

LEMMA InitialValues ==
    /\ Idle \in QuarantineRow /\ Idle.stage = "idle"
    /\ NoRecord \in RecordRow /\ NoRecord.status = "absent"
BY DEF Idle, QuarantineRow, NoRecord, RecordRow

LEMMA RowOf ==
    ASSUME NEW q \in RequestRow
    PROVE  IF q.stage \in {"replay", "close", "skip"} THEN q \in ActionRow ELSE q \in QuarantineRow
BY DEF RequestRow, QuarantineRow, ActionRow

LEMMA RecordOf ==
    ASSUME TypeOK, NEW i \in Record
    PROVE  /\ record[i].status \in Status
           /\ record[i].status # "absent" => record[i].origin \in Origin
           /\ record[i].status = "absent" <=> record[i] = NoRecord
           /\ record[i].target \in Target \cup {None}
           /\ record[i].acked \in BOOLEAN
<1>1. record[i] \in RecordRow
  BY DEF TypeOK
<1>2. CASE record[i] = NoRecord
  BY <1>2 DEF NoRecord, Status
<1>3. CASE record[i] \in [status: Status \ {"absent"}, origin: Origin, acked: BOOLEAN,
                          target: Target \cup {None}]
  <2>1. record[i].status # "absent" /\ NoRecord.status = "absent"
    BY <1>3 DEF NoRecord
  <2>2. QED
    BY <1>3, <2>1
<1>4. QED
  BY <1>1, <1>2, <1>3 DEF RecordRow

LEMMA InitIInv == Init => IInv
<1> SUFFICES ASSUME Init
             PROVE  IInv
  OBVIOUS
<1>1. TypeOK
  <2>1. nextId \in 1..(MaxRecord + 1) /\ faults \in 0..MaxFaults
    BY QuarantineAssumption DEF Init
  <2>2. QED
    BY <2>1, InitialValues DEF Init, TypeOK, RequestRow
<1>2. Marked /\ Fresh /\ AckedHasCopy /\ OneCopy /\ OneReplay
  BY DEF Init, Marked, Fresh, AckedHasCopy, OneCopy, OneReplay
<1>3. RecordsAreTrue /\ TargetsKnown
  BY InitialValues DEF Init, RecordsAreTrue, TargetsKnown
<1>4. \A r \in Request : Sound(r)
  BY InitialValues DEF Init, Sound
<1>5. QED
  BY <1>1, <1>2, <1>3, <1>4 DEF IInv

LEMMA MoreIsMore ==
    ASSUME NEW n \in 0..2, NEW x, NEW S
    PROVE  /\ Once(n, x \in S) \in 0..2 /\ Once(n, x \in S) >= n
           /\ x \in S => Once(n, x \in S) = n
           /\ x \notin S => Once(n, x \in S) > 0
           /\ x \notin S /\ n = 0 => Once(n, x \in S) = 1
BY DEF Once, More

-----------------------------------------------------------------------------
(* What every step does to the tables and the streams.                       *)

\* Copies, acknowledgements and replays only grow; a record keeps its origin
\* until it is pruned and an id is never used again.
Grows ==
    /\ \A o \in Origin : copies'[o] >= copies[o]
    /\ acked \subseteq acked'
    /\ \A m \in Record \X Target : replays'[m] >= replays[m]
    /\ nextId' >= nextId
    /\ \A i \in Record : i < nextId /\ record'[i].status # "absent" =>
          record[i].status # "absent" /\ record'[i].origin = record[i].origin

\* A request that a step does not touch goes on being sound.
LEMMA OthersSound ==
    ASSUME IInv, TypeOK', Grows, NEW r \in Request, request'[r] = request[r]
    PROVE  Sound(r)'
<1> DEFINE q == request[r]
<1>1. Sound(r)
  BY DEF IInv
<1>2. q.stage \in {"save", "ack", "flag"} => copies'[<<q.item, q.dest>>] > 0
  <2>1. q.stage \in {"save", "ack", "flag"} => <<q.item, q.dest>> \in Origin
    BY <1>1 DEF Sound, Origin
  <2>2. copies \in [Origin -> 0..2] /\ copies' \in [Origin -> 0..2]
    BY DEF IInv, TypeOK
  <2>3. QED
    BY <1>1, <2>1, <2>2 DEF Sound, Grows
<1>3. q.stage = "close" => replays'[<<q.item, q.dest>>] > 0
  <2>1. q.stage = "close" => <<q.item, q.dest>> \in Record \X Target
    BY <1>1 DEF Sound
  <2>2. replays \in [Record \X Target -> 0..2] /\ replays' \in [Record \X Target -> 0..2]
    BY DEF IInv, TypeOK
  <2>3. QED
    BY <1>1, <2>1, <2>2 DEF Sound, Grows
<1>4. q.stage \in {"ack", "flag"} =>
         /\ q.rec \in Record /\ q.rec < nextId'
         /\ record'[q.rec].status # "absent" => record'[q.rec].origin = <<q.item, q.dest>>
  <2> SUFFICES ASSUME q.stage \in {"ack", "flag"}
               PROVE  /\ q.rec \in Record /\ q.rec < nextId'
                      /\ record'[q.rec].status # "absent"
                            => record'[q.rec].origin = <<q.item, q.dest>>
    OBVIOUS
  <2>1. nextId \in Nat /\ nextId' \in Nat /\ Record \subseteq Nat
    BY QuarantineAssumption DEF IInv, TypeOK, Record
  <2>2. /\ q.rec \in Record /\ q.rec < nextId
        /\ record[q.rec].status # "absent" => record[q.rec].origin = <<q.item, q.dest>>
    BY <1>1 DEF Sound
  <2>3. q.rec < nextId' /\ q.rec \in Record
    <3>1. nextId' >= nextId
      BY DEF Grows
    <3>2. q.rec \in Nat
      BY <2>1, <2>2
    <3>3. QED
      BY <2>1, <2>2, <3>1, <3>2
  <2>4. record'[q.rec].status # "absent" => record'[q.rec].origin = <<q.item, q.dest>>
    <3>1. \A i \in Record : i < nextId /\ record'[i].status # "absent" =>
              record[i].status # "absent" /\ record'[i].origin = record[i].origin
      BY DEF Grows
    <3>2. QED
      BY <2>2, <3>1
  <2>5. QED
    BY <2>3, <2>4
<1>5. QED
  BY <1>1, <1>2, <1>3, <1>4 DEF Sound, Grows

LEMMA NothingShrinks ==
    ASSUME TypeOK
    PROVE  /\ \A o \in Origin : copies[o] >= copies[o]
           /\ \A m \in Record \X Target : replays[m] >= replays[m]
           /\ nextId >= nextId
           /\ UNCHANGED <<redis, record, nextId>> => Grows
<1>1. /\ \A o \in Origin : copies[o] \in 0..2
      /\ \A m \in Record \X Target : replays[m] \in 0..2
  BY DEF TypeOK
<1>2. nextId \in Nat
  BY QuarantineAssumption DEF TypeOK
<1>3. /\ \A o \in Origin : copies[o] >= copies[o]
      /\ \A m \in Record \X Target : replays[m] >= replays[m]
      /\ nextId >= nextId
  BY <1>1, <1>2
<1>4. QED
  BY <1>3 DEF Grows, redis

\* A step that leaves the streams and the records alone.
LEMMA LocalStep ==
    ASSUME IInv, NEW r \in Request, NEW q \in RequestRow, Becomes(r, q),
           UNCHANGED <<redis, record, nextId>>, faults' \in 0..MaxFaults, Sound(r)'
    PROVE  IInv'
<1>1. TypeOK'
  BY DEF IInv, TypeOK, Becomes, redis
<1>2. Grows
  BY NothingShrinks DEF IInv, redis
<1>3. \A s \in Request : Sound(s)'
  BY <1>1, <1>2, OthersSound DEF Becomes, IInv, TypeOK
<1>4. /\ Marked' /\ Fresh' /\ TargetsKnown'
      /\ AckedHasCopy' /\ OneCopy' /\ OneReplay' /\ RecordsAreTrue'
  BY DEF IInv, Marked, Fresh, TargetsKnown, AckedHasCopy, OneCopy, OneReplay, RecordsAreTrue,
         IdsOf, redis
<1>5. QED
  BY <1>1, <1>3, <1>4 DEF IInv

LEMMA RequestOf ==
    ASSUME IInv, NEW r \in Request, NEW q, Becomes(r, q)
    PROVE  /\ request'[r] = q
           /\ request[r] \in RequestRow
           /\ \A s \in Request \ {r} : request'[s] = request[s]
           /\ q \in RequestRow => request' \in [Request -> RequestRow]
BY DEF IInv, TypeOK, Becomes

LEMMA FaultType ==
    ASSUME TypeOK, Fault
    PROVE  faults' \in 0..MaxFaults
BY QuarantineAssumption DEF TypeOK, Fault

LEMMA AllSound ==
    ASSUME IInv, TypeOK', Grows, NEW r \in Request, NEW q \in RequestRow, Becomes(r, q),
           Sound(r)'
    PROVE  \A s \in Request : Sound(s)'
BY RequestOf, OthersSound

LEMMA GoingIdle ==
    ASSUME IInv, NEW r \in Request, Becomes(r, Idle)
    PROVE  Sound(r)' /\ Idle \in RequestRow
BY RequestOf, InitialValues DEF Sound, RequestRow

-----------------------------------------------------------------------------
(* Steps that change a request only.                                         *)

LEMMA QuarantineKeeps ==
    ASSUME IInv, NEW r \in Request, NEW E \in SUBSET Entry, NEW d \in Dlq,
           NEW ack \in BOOLEAN, Quarantine(r, E, d, ack)
    PROVE  IInv'
<1> DEFINE q == [Idle EXCEPT !.stage = "load", !.todo = E, !.dest = d, !.acknowledge = ack]
<1>1. q \in RequestRow /\ q.stage = "load" /\ q.dest = d
  BY DEF Idle, RequestRow, QuarantineRow
<1>2. Becomes(r, q) /\ UNCHANGED <<redis, record, nextId, faults>>
  BY DEF Quarantine
<1>3. Sound(r)'
  BY <1>1, <1>2, RequestOf DEF Sound
<1>4. QED
  BY <1>1, <1>2, <1>3, LocalStep DEF IInv, TypeOK

LEMMA LoadKeeps ==
    ASSUME IInv, NEW r \in Request, Load(r)
    PROVE  IInv'
<1>1. CASE request[r].todo \subseteq stored
  <2> DEFINE q == [request[r] EXCEPT !.stage = "entry"]
  <2>1. Becomes(r, q) /\ UNCHANGED <<redis, record, nextId, faults>>
    BY <1>1 DEF Load
  <2>2. request[r].stage = "load" /\ request[r] \in QuarantineRow
    BY <2>1, RequestOf, RowOf DEF Load
  <2>3. q \in RequestRow /\ q.stage = "entry" /\ q.dest = request[r].dest
    BY <2>2 DEF QuarantineRow, RequestRow
  <2>4. request[r].dest \in Dlq
    BY <2>2 DEF IInv, Sound
  <2>5. Sound(r)'
    BY <2>1, <2>3, <2>4, RequestOf DEF Sound
  <2>6. QED
    BY <2>1, <2>3, <2>5, LocalStep DEF IInv, TypeOK
<1>2. CASE ~(request[r].todo \subseteq stored)
  <2>1. Becomes(r, Idle) /\ UNCHANGED <<redis, record, nextId, faults>>
    BY <1>2 DEF Load
  <2>2. QED
    BY <2>1, GoingIdle, LocalStep DEF IInv, TypeOK
<1>3. QED
  BY <1>1, <1>2

\* A request with a record at hand is sound, whether it acknowledges or goes on.
LEMMA SavedIsSound ==
    ASSUME IInv, NEW r \in Request, NEW q \in QuarantineRow, q.dest \in Dlq, q.item \in Entry,
           NEW i \in Record, Becomes(r, Saved(q, i)), i < nextId',
           copies'[<<q.item, q.dest>>] > 0,
           record'[i].status # "absent" => record'[i].origin = <<q.item, q.dest>>
    PROVE  Saved(q, i) \in RequestRow /\ Sound(r)'
<1>1. CASE q.acknowledge
  <2>1. Saved(q, i) = [q EXCEPT !.stage = "ack", !.rec = i]
    BY <1>1 DEF Saved
  <2>2. /\ Saved(q, i) \in RequestRow
        /\ Saved(q, i).stage = "ack" /\ Saved(q, i).rec = i
        /\ Saved(q, i).item = q.item /\ Saved(q, i).dest = q.dest
    BY <2>1 DEF QuarantineRow, RequestRow
  <2>3. Sound(r)'
    BY <2>2, RequestOf DEF Sound
  <2>4. QED
    BY <2>2, <2>3
<1>2. CASE ~q.acknowledge
  <2>1. Saved(q, i) = [q EXCEPT !.stage = "entry", !.todo = @ \ {q.item}, !.item = None, !.rec = None]
    BY <1>2 DEF Saved, NextEntry
  <2> DEFINE todo == q.todo \ {q.item}
  <2>2. /\ Saved(q, i) \in RequestRow
        /\ Saved(q, i).stage = "entry" /\ Saved(q, i).dest = q.dest
    <3>1. Saved(q, i) = [stage |-> "entry", todo |-> todo, item |-> None, dest |-> q.dest,
                         acknowledge |-> q.acknowledge, rec |-> None]
      BY <2>1 DEF QuarantineRow
    <3>2. todo \in SUBSET Entry /\ q.dest \in Dlq \cup {None} /\ q.acknowledge \in BOOLEAN
      BY DEF QuarantineRow
    <3> HIDE DEF todo
    <3>3. QED
      BY <3>1, <3>2 DEF QuarantineRow, RequestRow
  <2>3. Sound(r)'
    BY <2>2, RequestOf DEF Sound
  <2>4. QED
    BY <2>2, <2>3
<1>3. QED
  BY <1>1, <1>2

LEMMA LookUpKeeps ==
    ASSUME IInv, NEW r \in Request, NEW e \in Entry, LookUp(r, e)
    PROVE  IInv'
<1> DEFINE q == [request[r] EXCEPT !.item = e]
           found == IdsOf(<<e, q.dest>>)
<1>1. request[r].stage = "entry" /\ request[r] \in RequestRow
  BY DEF LookUp, IInv, TypeOK, RequestRow, QuarantineRow, ActionRow
<1>2. request[r] \in QuarantineRow /\ request[r].dest \in Dlq
  BY <1>1, RowOf DEF IInv, Sound
<1>3. /\ q \in QuarantineRow /\ q.dest \in Dlq /\ q.item = e /\ q.stage = "entry"
  BY <1>1, <1>2 DEF QuarantineRow
<1>4. UNCHANGED <<redis, record, nextId, faults>>
  BY DEF LookUp
<1>5. CASE found = {}
  <2> DEFINE p == [q EXCEPT !.stage = "copy"]
  <2>1. Becomes(r, p)
    BY <1>5 DEF LookUp, Copying
  <2>2. p \in RequestRow /\ p.stage = "copy" /\ p.dest \in Dlq /\ p.item = e
    BY <1>3 DEF QuarantineRow, RequestRow
  <2>3. Sound(r)'
    BY <2>1, <2>2, RequestOf DEF Sound
  <2>4. QED
    BY <1>4, <2>1, <2>2, <2>3, LocalStep DEF IInv, TypeOK
<1>6. CASE found # {}
  <2>1. PICK i \in found : Becomes(r, Saved(q, i))
    BY <1>6 DEF LookUp
  <2>2. i \in Record /\ record[i].status # "absent" /\ record[i].origin = <<e, q.dest>>
    BY <2>1 DEF IdsOf
  <2>3. copies[<<e, q.dest>>] > 0
    BY <2>2 DEF IInv, RecordsAreTrue
  <2>4. i < nextId
    BY <2>2, InitialValues, QuarantineAssumption DEF IInv, Fresh, TypeOK, Record
  <2>5. Saved(q, i) \in RequestRow /\ Sound(r)'
    BY <1>3, <1>4, <2>1, <2>2, <2>3, <2>4, SavedIsSound DEF redis
  <2>6. QED
    BY <1>4, <2>1, <2>5, LocalStep DEF IInv, TypeOK
<1>7. QED
  BY <1>5, <1>6

LEMMA ActKeeps ==
    ASSUME IInv, NEW r \in Request, NEW S \in SUBSET Record, NEW stage, NEW t, Act(r, S, stage, t),
           \/ stage = "replay" /\ t \in Target
           \/ stage = "skip" /\ t = None
    PROVE  IInv'
<1> DEFINE q == [Idle EXCEPT !.stage = stage, !.dest = t,
                             !.todo = {i \in S : record[i].status = "quarantined"}]
<1>1. q \in RequestRow /\ q.stage = stage /\ q.dest = t
  BY DEF Idle, RequestRow, ActionRow
<1>2. Becomes(r, q) /\ UNCHANGED <<redis, record, nextId, faults>>
  BY DEF Act
<1>3. Sound(r)'
  BY <1>1, <1>2, RequestOf DEF Sound
<1>4. QED
  BY <1>1, <1>2, <1>3, LocalStep DEF IInv, TypeOK

LEMMA DoneKeeps ==
    ASSUME IInv, NEW r \in Request, Done(r)
    PROVE  IInv'
<1>1. Becomes(r, Idle) /\ UNCHANGED <<redis, record, nextId, faults>>
  BY DEF Done
<1>2. QED
  BY <1>1, GoingIdle, LocalStep DEF IInv, TypeOK

LEMMA FailsKeeps ==
    ASSUME IInv, NEW r \in Request, Fails(r)
    PROVE  IInv'
<1>1. Becomes(r, Idle) /\ UNCHANGED <<redis, record, nextId>> /\ faults' \in 0..MaxFaults
  BY FaultType DEF Fails, IInv
<1>2. QED
  BY <1>1, GoingIdle, LocalStep

-----------------------------------------------------------------------------
(* Steps at the streams.                                                     *)

\* An entry or a record that is added to a stream under its marker.
LEMMA CopyKeeps ==
    ASSUME IInv, NEW r \in Request, NEW q, request[r].stage = "copy",
           AddCopy(<<request[r].item, request[r].dest>>), UNCHANGED <<record, nextId>>,
           faults' \in 0..MaxFaults, Becomes(r, q),
           q \in {request[r], Idle, [request[r] EXCEPT !.stage = "save"]}
    PROVE  IInv'
<1> DEFINE o == <<request[r].item, request[r].dest>>
<1>1. request[r] \in QuarantineRow /\ request[r].item \in Entry /\ request[r].dest \in Dlq
  BY RowOf DEF IInv, TypeOK, Sound
<1>2. /\ o \in Origin
      /\ copies \in [Origin -> 0..2]
      /\ copies' = [copies EXCEPT ![o] = Once(copies[o], o \in marker)]
      /\ marker' = marker \cup {o}
      /\ UNCHANGED <<stored, pending, acked, replays, mark, lapsed>>
  BY <1>1 DEF AddCopy, Origin, IInv, TypeOK
<1>3. /\ copies'[o] = Once(copies[o], o \in marker)
      /\ \A p \in Origin \ {o} : copies'[p] = copies[p]
  BY <1>2
<1>4. copies[o] > 0 => o \in marker \cup lapsed
  BY <1>2 DEF IInv, Marked
<1>5. copies'[o] \in 0..2 /\ copies'[o] >= copies[o] /\ copies'[o] > 0
      /\ (copies'[o] > 1 => o \in lapsed)
  <2>1. copies[o] \in 0..2 /\ (copies[o] > 1 => o \in lapsed)
    BY <1>2 DEF IInv, OneCopy
  <2>2. copies'[o] \in 0..2 /\ copies'[o] >= copies[o]
    BY <1>3, <2>1, MoreIsMore
  <2>3. CASE o \in marker
    <3>1. copies[o] > 0
      BY <1>2, <2>3 DEF IInv, Marked
    <3>2. QED
      BY <1>3, <2>1, <2>2, <2>3, <3>1, MoreIsMore
  <2>4. CASE o \notin marker
    BY <1>3, <1>4, <2>1, <2>2, <2>4, MoreIsMore
  <2>5. QED
    BY <2>2, <2>3, <2>4
<1>6. q \in RequestRow
  BY <1>1, InitialValues DEF RequestRow, QuarantineRow
<1>7. TypeOK'
  <2>1. copies' \in [Origin -> 0..2]
    BY <1>2, <1>3, <1>5
  <2>2. QED
    BY <1>2, <1>6, <2>1, RequestOf DEF IInv, TypeOK
<1>8. Grows
  <2>1. \A p \in Origin : copies'[p] >= copies[p]
    BY <1>3, <1>5, NothingShrinks DEF IInv
  <2>2. UNCHANGED <<acked, replays, record, nextId>>
    BY <1>2
  <2>3. QED
    BY <2>1, <2>2, NothingShrinks DEF Grows, IInv
<1>9. Sound(r)'
  <2>1. CASE q = Idle
    BY <2>1, GoingIdle
  <2>2. CASE q.stage \in {"copy", "save"} /\ q.item = request[r].item /\ q.dest = request[r].dest
    BY <1>1, <1>5, <2>2, RequestOf DEF Sound
  <2>3. QED
    BY <1>1, <2>1, <2>2 DEF QuarantineRow
<1>10. \A s \in Request : Sound(s)'
  BY <1>6, <1>7, <1>8, <1>9, AllSound
<1>11. Marked' /\ OneCopy'
  BY <1>2, <1>3, <1>5 DEF IInv, Marked, OneCopy
<1>12. AckedHasCopy'
  <2>1. \A e \in acked, d \in Dlq : copies[<<e, d>>] > 0 => copies'[<<e, d>>] > 0
    BY <1>2, <1>3, <1>5 DEF Origin, IInv, TypeOK
  <2>2. QED
    BY <1>2, <2>1 DEF IInv, AckedHasCopy
<1>13. RecordsAreTrue'
  <2>1. \A i \in Record : record[i].status # "absent" => copies'[record[i].origin] > 0
    BY <1>3, <1>5, RecordOf DEF IInv, RecordsAreTrue
  <2>2. QED
    BY <1>2, <2>1 DEF IInv, RecordsAreTrue, IdsOf
<1>14. Fresh' /\ TargetsKnown' /\ OneReplay'
  BY <1>2 DEF IInv, Fresh, TargetsKnown, OneReplay
<1>15. QED
  BY <1>7, <1>10, <1>11, <1>12, <1>13, <1>14 DEF IInv

\* The mirror image for replays.
LEMMA ReplayKeeps ==
    ASSUME IInv, NEW r \in Request, NEW q, request[r].stage = "replay", NEW i \in request[r].todo,
           AddReplay(<<i, request[r].dest>>), UNCHANGED <<record, nextId>>,
           faults' \in 0..MaxFaults, Becomes(r, q),
           q \in {request[r], Idle,
                  [request[r] EXCEPT !.stage = "close", !.todo = @ \ {i}, !.item = i]}
    PROVE  IInv'
<1> DEFINE m == <<i, request[r].dest>>
<1>1. request[r] \in ActionRow /\ i \in Record /\ request[r].dest \in Target
  BY RowOf DEF IInv, TypeOK, Sound, ActionRow
<1>2. /\ m \in Record \X Target
      /\ replays \in [Record \X Target -> 0..2]
      /\ replays' = [replays EXCEPT ![m] = Once(replays[m], m \in mark)]
      /\ mark' = mark \cup {m}
      /\ UNCHANGED <<stored, pending, acked, copies, marker, lapsed>>
  BY <1>1 DEF AddReplay, IInv, TypeOK
<1>3. /\ replays'[m] = Once(replays[m], m \in mark)
      /\ \A p \in (Record \X Target) \ {m} : replays'[p] = replays[p]
  BY <1>2
<1>4. /\ replays[m] > 0 => m \in mark \cup lapsed
      /\ m \in mark => replays[m] > 0
  BY <1>2 DEF IInv, Marked
<1>5. replays'[m] \in 0..2 /\ replays'[m] >= replays[m] /\ replays'[m] > 0
      /\ (replays'[m] > 1 => m \in lapsed)
  <2>1. replays[m] \in 0..2 /\ (replays[m] > 1 => m \in lapsed)
    BY <1>2 DEF IInv, OneReplay
  <2>2. replays'[m] \in 0..2 /\ replays'[m] >= replays[m]
    BY <1>3, <2>1, MoreIsMore
  <2>3. CASE m \in mark
    BY <1>3, <1>4, <2>1, <2>2, <2>3, MoreIsMore
  <2>4. CASE m \notin mark
    BY <1>3, <1>4, <2>1, <2>2, <2>4, MoreIsMore
  <2>5. QED
    BY <2>2, <2>3, <2>4
<1>6. q \in RequestRow /\ (q = request[r] \/ q = Idle \/ (/\ q.stage = "close" /\ q.item = i
                                                        /\ q.dest = request[r].dest))
  <2> DEFINE p == [request[r] EXCEPT !.stage = "close", !.todo = @ \ {i}, !.item = i]
  <2>1. request[r].todo \ {i} \in SUBSET Record
    BY <1>1 DEF ActionRow
  <2>2. p \in ActionRow /\ p.stage = "close" /\ p.item = i /\ p.dest = request[r].dest
    <3>1. "close" \in {"replay", "close", "skip"} /\ i \in Record \cup {None}
      BY <1>1
    <3> HIDE DEF p
    <3>2. p = [request[r] EXCEPT !.stage = "close", !.todo = request[r].todo \ {i}, !.item = i]
      BY DEF p
    <3>3. QED
      BY <1>1, <2>1, <3>1, <3>2 DEF ActionRow
  <2> HIDE DEF p
  <2>3. q \in {request[r], Idle, p}
    BY DEF p
  <2>4. QED
    BY <1>1, <2>2, <2>3, InitialValues DEF RequestRow
<1>7. TypeOK'
  <2>1. replays' \in [Record \X Target -> 0..2]
    BY <1>2, <1>3, <1>5
  <2>2. QED
    BY <1>2, <1>6, <2>1, RequestOf DEF IInv, TypeOK
<1>8. Grows
  <2>1. \A p \in Record \X Target : replays'[p] >= replays[p]
    BY <1>3, <1>5, NothingShrinks DEF IInv
  <2>2. UNCHANGED <<acked, copies, record, nextId>>
    BY <1>2
  <2>3. QED
    BY <2>1, <2>2, NothingShrinks DEF Grows, IInv
<1>9. Sound(r)'
  <2>1. CASE q = Idle
    BY <2>1, GoingIdle
  <2>2. CASE q = request[r]
    BY <1>1, <2>2, RequestOf DEF Sound
  <2>3. CASE q.stage = "close" /\ q.item = i /\ q.dest = request[r].dest
    BY <1>1, <1>5, <2>3, RequestOf DEF Sound
  <2>4. QED
    BY <1>6, <2>1, <2>2, <2>3
<1>10. \A s \in Request : Sound(s)'
  BY <1>6, <1>7, <1>8, <1>9, AllSound
<1>11. Marked' /\ OneReplay'
  BY <1>2, <1>3, <1>5 DEF IInv, Marked, OneReplay
<1>12. RecordsAreTrue'
  <2>1. ASSUME NEW j \in Record, record[j].status = "replayed"
        PROVE  replays'[<<j, record[j].target>>] > 0
    <3>1. replays[<<j, record[j].target>>] > 0
      BY <2>1 DEF IInv, RecordsAreTrue
    <3>2. record[j].target \in Target
      BY <2>1 DEF IInv, TargetsKnown
    <3>3. QED
      BY <1>3, <1>5, <3>1, <3>2
  <2>2. QED
    BY <1>2, <2>1 DEF IInv, RecordsAreTrue, IdsOf
<1>13. Fresh' /\ TargetsKnown' /\ OneCopy' /\ AckedHasCopy'
  BY <1>2 DEF IInv, Fresh, TargetsKnown, OneCopy, AckedHasCopy
<1>14. QED
  BY <1>7, <1>10, <1>11, <1>12, <1>13 DEF IInv

\* An acknowledged entry has a copy because the request saw to it before.
LEMMA AckKeeps ==
    ASSUME IInv, NEW r \in Request, NEW q, request[r].stage = "ack",
           Acknowledge(request[r].item), UNCHANGED <<record, nextId>>,
           faults' \in 0..MaxFaults, Becomes(r, q),
           \/ q \in {request[r], Idle, NextEntry(request[r])}
           \/ q = [request[r] EXCEPT !.stage = "flag"] /\ request[r].item \in pending
    PROVE  IInv'
<1> DEFINE e == request[r].item
           d == request[r].dest
<1>1. /\ request[r] \in QuarantineRow /\ e \in Entry /\ d \in Dlq
      /\ copies[<<e, d>>] > 0
      /\ request[r].rec \in Record /\ request[r].rec < nextId
      /\ record[request[r].rec].status # "absent" => record[request[r].rec].origin = <<e, d>>
  BY RowOf DEF IInv, TypeOK, Sound
<1>2. /\ pending' = pending \ {e}
      /\ acked' = IF e \in pending THEN acked \cup {e} ELSE acked
      /\ UNCHANGED <<stored, copies, marker, replays, mark, lapsed>>
  BY DEF Acknowledge
<1>3. q \in RequestRow /\ (\/ q = request[r] \/ q = Idle
                           \/ q.stage = "entry" /\ q.dest = d
                           \/ q = [request[r] EXCEPT !.stage = "flag"] /\ e \in pending)
  <2>1. request[r].todo \ {e} \in SUBSET Entry
    BY <1>1 DEF QuarantineRow
  <2>2. /\ NextEntry(request[r]) \in RequestRow
        /\ NextEntry(request[r]).stage = "entry" /\ NextEntry(request[r]).dest = d
    BY <1>1, <2>1 DEF NextEntry, QuarantineRow, RequestRow
  <2>3. [request[r] EXCEPT !.stage = "flag"] \in RequestRow
    BY <1>1 DEF QuarantineRow, RequestRow
  <2>4. QED
    BY <1>1, <2>2, <2>3, InitialValues DEF RequestRow
<1>4. TypeOK'
  BY <1>1, <1>2, <1>3, RequestOf DEF IInv, TypeOK
<1>5. Grows
  BY <1>2, NothingShrinks DEF Grows, IInv
<1>6. Sound(r)'
  <2>1. CASE q = Idle
    BY <2>1, GoingIdle
  <2>2. CASE q = request[r]
    BY <1>1, <1>2, <2>2, RequestOf DEF Sound
  <2>3. CASE q.stage = "entry" /\ q.dest = d
    BY <1>1, <2>3, RequestOf DEF Sound
  <2>4. CASE q = [request[r] EXCEPT !.stage = "flag"] /\ e \in pending
    <3>1. q.stage = "flag" /\ q.item = e /\ q.dest = d /\ q.rec = request[r].rec
      BY <1>1, <2>4 DEF QuarantineRow
    <3>2. e \in acked' /\ copies'[<<e, d>>] > 0
      BY <1>1, <1>2, <2>4
    <3>3. QED
      BY <1>1, <3>1, <3>2, RequestOf DEF Sound
  <2>5. QED
    BY <1>3, <2>1, <2>2, <2>3, <2>4
<1>7. \A s \in Request : Sound(s)'
  BY <1>3, <1>4, <1>5, <1>6, AllSound
<1>8. AckedHasCopy'
  BY <1>1, <1>2 DEF IInv, AckedHasCopy
<1>9. /\ Marked' /\ Fresh' /\ TargetsKnown' /\ OneCopy' /\ OneReplay' /\ RecordsAreTrue'
  BY <1>2 DEF IInv, Marked, Fresh, TargetsKnown, OneCopy, OneReplay, RecordsAreTrue, IdsOf
<1>10. QED
  BY <1>4, <1>7, <1>8, <1>9 DEF IInv

LEMMA ReplyLostKeeps ==
    ASSUME IInv, NEW r \in Request, ReplyLost(r)
    PROVE  IInv'
<1>1. PICK q \in {request[r], Idle} : Becomes(r, q)
  BY DEF ReplyLost
<1>2. faults' \in 0..MaxFaults /\ UNCHANGED <<record, nextId>>
  BY FaultType DEF ReplyLost, IInv
<1>3. CASE request[r].stage = "copy" /\ AddCopy(<<request[r].item, request[r].dest>>)
  BY <1>1, <1>2, <1>3, CopyKeeps
<1>4. CASE request[r].stage = "ack" /\ Acknowledge(request[r].item)
  BY <1>1, <1>2, <1>4, AckKeeps
<1>5. ASSUME request[r].stage = "replay", NEW i \in request[r].todo,
             AddReplay(<<i, request[r].dest>>)
      PROVE  IInv'
  BY <1>1, <1>2, <1>5, ReplayKeeps
<1>6. QED
  BY <1>3, <1>4, <1>5 DEF ReplyLost

-----------------------------------------------------------------------------
(* Steps at the records.                                                     *)

\* A step of request r that leaves the streams alone and changes record i, which
\* keeps its origin.
LEMMA RecordStep ==
    ASSUME IInv, NEW r \in Request, NEW q \in RequestRow, Becomes(r, q), Sound(r)',
           UNCHANGED <<redis, nextId, faults>>,
           NEW i \in Record, NEW row \in RecordRow, record' = [record EXCEPT ![i] = row],
           record[i].status # "absent", row.status # "absent", row.origin = record[i].origin,
           row.acked => row.origin[1] \in acked,
           row.status = "replayed" => row.target \in Target /\ replays[<<i, row.target>>] > 0
    PROVE  IInv'
<1>1. /\ record'[i] = row
      /\ \A j \in Record \ {i} : record'[j] = record[j]
      /\ UNCHANGED <<stored, pending, acked, copies, marker, replays, mark, lapsed, nextId, faults>>
  BY DEF IInv, TypeOK, redis
<1>2. TypeOK'
  BY <1>1, RequestOf DEF IInv, TypeOK
<1>3. Grows
  BY <1>1, NothingShrinks DEF Grows, IInv
<1>4. \A s \in Request : Sound(s)'
  BY <1>2, <1>3, AllSound
<1>5. \A j \in Record : /\ record'[j].status # "absent" <=> record[j].status # "absent"
                        /\ record'[j].status # "absent" => record'[j].origin = record[j].origin
  BY <1>1
<1>6. RecordsAreTrue'
  <2>1. ASSUME NEW j \in Record, record'[j].status # "absent"
        PROVE  copies'[record'[j].origin] > 0
    BY <1>1, <1>5, <2>1 DEF IInv, RecordsAreTrue
  <2>2. ASSUME NEW j \in Record, record'[j].status # "absent"
        PROVE  {k \in Record : record'[k].status # "absent" /\ record'[k].origin = record'[j].origin} = {j}
    <3>1. {k \in Record : record[k].status # "absent" /\ record[k].origin = record[j].origin} = {j}
      BY <1>5, <2>2 DEF IInv, RecordsAreTrue, IdsOf
    <3>2. QED
      BY <1>5, <2>2, <3>1
  <2>3. ASSUME NEW j \in Record, record'[j].status # "absent"
        PROVE  /\ record'[j].acked => record'[j].origin[1] \in acked'
               /\ record'[j].status = "replayed" => replays'[<<j, record'[j].target>>] > 0
    BY <1>1, <2>3 DEF IInv, RecordsAreTrue
  <2>4. QED
    BY <2>1, <2>2, <2>3 DEF RecordsAreTrue, IdsOf
<1>7. Fresh'
  BY <1>1, InitialValues DEF IInv, Fresh
<1>8. TargetsKnown'
  BY <1>1 DEF IInv, TargetsKnown
<1>9. Marked' /\ AckedHasCopy' /\ OneCopy' /\ OneReplay'
  BY <1>1 DEF IInv, Marked, AckedHasCopy, OneCopy, OneReplay
<1>10. QED
  BY <1>2, <1>4, <1>6, <1>7, <1>8, <1>9 DEF IInv

LEMMA FlagKeeps ==
    ASSUME IInv, NEW r \in Request, Flag(r)
    PROVE  IInv'
<1> DEFINE e == request[r].item
           d == request[r].dest
           i == request[r].rec
           q == NextEntry(request[r])
<1>1. /\ request[r] \in QuarantineRow /\ d \in Dlq /\ i \in Record
      /\ e \in acked
      /\ record[i].status # "absent" => record[i].origin = <<e, d>>
  BY RowOf DEF Flag, IInv, TypeOK, Sound
<1>2. Becomes(r, q) /\ UNCHANGED <<redis, nextId, faults>>
  BY DEF Flag
<1>3. request[r].todo \ {e} \in SUBSET Entry
  BY <1>1 DEF QuarantineRow
<1>4. q \in RequestRow /\ q.stage = "entry" /\ q.dest = d
  BY <1>1, <1>3 DEF NextEntry, QuarantineRow, RequestRow
<1>5. Sound(r)'
  BY <1>1, <1>2, <1>4, RequestOf DEF Sound
<1>6. CASE record[i].status = "absent"
  BY <1>2, <1>4, <1>5, <1>6, LocalStep DEF Flag, IInv, TypeOK
<1>7. CASE record[i].status # "absent"
  <2> DEFINE row == [record[i] EXCEPT !.acked = TRUE]
  <2>1. record' = [record EXCEPT ![i] = row]
    BY <1>7 DEF Flag
  <2>2. record[i] \in RecordRow \ {NoRecord}
    BY <1>1, <1>7, InitialValues DEF IInv, TypeOK
  <2>3. /\ row \in RecordRow /\ row.origin = record[i].origin /\ row.status = record[i].status
        /\ row.target = record[i].target
    BY <2>2 DEF RecordRow
  <2>4. row.origin[1] \in acked
    BY <1>1, <1>7, <2>3
  <2>5. row.status = "replayed" => row.target \in Target /\ replays[<<i, row.target>>] > 0
    BY <1>1, <2>3 DEF IInv, RecordsAreTrue, TargetsKnown
  <2> HIDE DEF row
  <2>6. QED
    BY <1>1, <1>2, <1>4, <1>5, <1>7, <2>1, <2>3, <2>4, <2>5, RecordStep
<1>8. QED
  BY <1>6, <1>7

LEMMA CloseKeeps ==
    ASSUME IInv, NEW r \in Request, Close(r)
    PROVE  IInv'
<1> DEFINE i == request[r].item
           t == request[r].dest
           q == [request[r] EXCEPT !.stage = "replay", !.item = None]
<1>1. /\ request[r] \in ActionRow /\ i \in Record /\ t \in Target
      /\ replays[<<i, t>>] > 0
  <2>1. request[r].stage = "close"
    BY DEF Close
  <2>2. i \in Record /\ replays[<<i, t>>] > 0
    BY <2>1 DEF IInv, Sound
  <2>3. request[r] \in ActionRow
    BY <2>1, RowOf DEF IInv, TypeOK
  <2>4. t \in Target
    BY <2>1 DEF IInv, Sound
  <2>5. QED
    BY <2>2, <2>3, <2>4
<1>2. UNCHANGED <<redis, nextId, faults>>
  BY DEF Close
<1>3. CASE Open(i)
  <2> DEFINE row == [record[i] EXCEPT !.status = "replayed", !.target = t]
  <2>1. record' = [record EXCEPT ![i] = row] /\ Becomes(r, q)
    BY <1>1, <1>3 DEF Close, IInv, TypeOK
  <2>2. record[i] \in RecordRow \ {NoRecord} /\ record[i].status = "quarantined"
    BY <1>1, <1>3, InitialValues DEF IInv, TypeOK, Open
  <2>3. /\ row \in RecordRow /\ row.origin = record[i].origin /\ row.status = "replayed"
        /\ row.target = t /\ row.acked = record[i].acked
    BY <1>1, <2>2 DEF RecordRow, Status
  <2>4. q \in RequestRow /\ q.stage = "replay" /\ q.dest = t
    BY <1>1 DEF ActionRow, RequestRow
  <2>5. Sound(r)'
    BY <1>1, <2>1, <2>4, RequestOf DEF Sound
  <2>6. row.acked => row.origin[1] \in acked
    BY <1>1, <2>2, <2>3 DEF IInv, RecordsAreTrue
  <2> HIDE DEF row, q
  <2>7. QED
    BY <1>1, <1>2, <2>1, <2>2, <2>3, <2>4, <2>5, <2>6, RecordStep
<1>4. CASE ~Open(i)
  <2>1. Becomes(r, Idle) /\ UNCHANGED record
    BY <1>4 DEF Close
  <2>2. QED
    BY <1>2, <2>1, GoingIdle, LocalStep DEF IInv, TypeOK
<1>5. QED
  BY <1>3, <1>4

LEMMA SkipKeeps ==
    ASSUME IInv, NEW r \in Request, NEW i \in Record, Skip(r, i)
    PROVE  IInv'
<1> DEFINE q == [request[r] EXCEPT !.todo = @ \ {i}]
<1>1. request[r] \in ActionRow /\ request[r].stage = "skip" /\ UNCHANGED <<redis, nextId, faults>>
  BY RowOf DEF Skip, IInv, TypeOK
<1>2. CASE Open(i)
  <2> DEFINE row == [record[i] EXCEPT !.status = "skipped"]
  <2>1. record' = [record EXCEPT ![i] = row] /\ Becomes(r, q)
    BY <1>2 DEF Skip, IInv, TypeOK
  <2>2. record[i] \in RecordRow \ {NoRecord} /\ record[i].status = "quarantined"
    BY <1>2, InitialValues DEF IInv, TypeOK, Open
  <2>3. /\ row \in RecordRow /\ row.origin = record[i].origin /\ row.status = "skipped"
        /\ row.acked = record[i].acked
    BY <2>2 DEF RecordRow, Status
  <2>4. q \in RequestRow /\ q.stage = "skip"
    <3>1. request[r].todo \ {i} \in SUBSET Record
      BY <1>1 DEF ActionRow
    <3>2. QED
      BY <1>1, <3>1 DEF ActionRow, RequestRow
  <2>5. Sound(r)'
    BY <2>1, <2>4, RequestOf DEF Sound
  <2>6. row.acked => row.origin[1] \in acked
    BY <2>2, <2>3 DEF IInv, RecordsAreTrue
  <2> HIDE DEF row, q
  <2>7. QED
    BY <1>1, <2>1, <2>2, <2>3, <2>4, <2>5, <2>6, RecordStep
<1>3. CASE ~Open(i)
  <2>1. Becomes(r, Idle) /\ UNCHANGED record
    BY <1>3 DEF Skip
  <2>2. QED
    BY <1>1, <2>1, GoingIdle, LocalStep DEF IInv, TypeOK
<1>4. QED
  BY <1>2, <1>3

\* A new record takes an id that was never used, for an origin that has none.
LEMMA SaveKeeps ==
    ASSUME IInv, NEW r \in Request, Save(r)
    PROVE  IInv'
<1> DEFINE q == request[r]
           o == <<q.item, q.dest>>
<1>1. /\ q \in QuarantineRow /\ q.item \in Entry /\ q.dest \in Dlq /\ o \in Origin
      /\ copies[o] > 0
      /\ UNCHANGED <<redis, faults>>
  <2>1. q.stage = "save" /\ UNCHANGED <<redis, faults>>
    BY DEF Save
  <2>2. q \in QuarantineRow
    BY <2>1, RowOf DEF IInv, TypeOK
  <2>3. q.item \in Entry /\ q.dest \in Dlq /\ copies[o] > 0
    BY <2>1 DEF IInv, Sound
  <2>4. QED
    BY <2>1, <2>2, <2>3 DEF Origin
<1>2. nextId \in Nat /\ Record \subseteq Nat
  BY QuarantineAssumption DEF IInv, TypeOK, Record
<1>3. CASE IdsOf(o) # {}
  <2>1. PICK i \in IdsOf(o) : Becomes(r, Saved(q, i)) /\ UNCHANGED <<record, nextId>>
    BY <1>3 DEF Save
  <2>2. i \in Record /\ record[i].status # "absent" /\ record[i].origin = o
    BY <2>1 DEF IdsOf
  <2>3. i < nextId
    BY <1>2, <2>2, InitialValues DEF IInv, Fresh
  <2>4. Saved(q, i) \in RequestRow /\ Sound(r)'
    BY <1>1, <2>1, <2>2, <2>3, SavedIsSound DEF redis
  <2>5. QED
    BY <1>1, <2>1, <2>4, LocalStep DEF IInv, TypeOK
<1>4. CASE IdsOf(o) = {}
  <2> DEFINE n == nextId
             row == [NoRecord EXCEPT !.status = "quarantined", !.origin = o]
  <2>1. /\ n <= MaxRecord /\ n \in Record
        /\ record' = [record EXCEPT ![n] = row] /\ nextId' = n + 1
        /\ Becomes(r, Saved(q, n))
    BY <1>2, <1>4, QuarantineAssumption DEF Save, IInv, TypeOK, Record
  <2>2. /\ row \in RecordRow /\ row.status = "quarantined" /\ row.origin = o
        /\ row.acked = FALSE
    BY <1>1 DEF NoRecord, RecordRow, Status
  <2>3. record[n].status = "absent"
    BY <1>2, <2>1, InitialValues DEF IInv, Fresh
  <2> HIDE DEF row
  <2>4. /\ record'[n] = row
        /\ \A j \in Record \ {n} : record'[j] = record[j]
        /\ record' \in [Record -> RecordRow]
    BY <2>1, <2>2 DEF IInv, TypeOK
  <2>5. nextId' \in 1..(MaxRecord + 1) /\ n < nextId' /\ nextId' >= nextId
    BY <1>2, <2>1, QuarantineAssumption DEF IInv, TypeOK
  <2>6. UNCHANGED <<stored, pending, acked, copies, marker, replays, mark, lapsed, faults>>
    BY <1>1 DEF redis
  <2>7. Saved(q, n) \in RequestRow /\ Sound(r)'
    BY <1>1, <2>1, <2>2, <2>4, <2>5, <2>6, SavedIsSound
  <2>8. TypeOK'
    BY <2>1, <2>4, <2>5, <2>6, <2>7, RequestOf DEF IInv, TypeOK
  <2>9. Grows
    <3>1. \A i \in Record : i < nextId => i # n
      BY <1>2
    <3>2. \A i \in Record : i < nextId /\ record'[i].status # "absent" =>
              record[i].status # "absent" /\ record'[i].origin = record[i].origin
      BY <2>4, <3>1
    <3>3. QED
      BY <2>5, <2>6, <3>2, NothingShrinks DEF Grows, IInv
  <2>10. \A s \in Request : Sound(s)'
    BY <2>1, <2>7, <2>8, <2>9, AllSound
  <2>11. Fresh'
    <3>1. \A i \in Record : i >= nextId' => i >= nextId /\ i # n
      BY <1>2, <2>1
    <3>2. QED
      BY <2>4, <3>1 DEF IInv, Fresh
  <2>12. TargetsKnown'
    BY <2>2, <2>4 DEF IInv, TargetsKnown
  <2>13. Marked' /\ AckedHasCopy' /\ OneCopy' /\ OneReplay'
    BY <2>6 DEF IInv, Marked, AckedHasCopy, OneCopy, OneReplay
  <2>14. RecordsAreTrue'
    <3>1. \A j \in Record : record[j].status # "absent" => record[j].origin # o
      BY <1>4 DEF IdsOf
    <3>2. ASSUME NEW j \in Record, record'[j].status # "absent"
          PROVE  {k \in Record : record'[k].status # "absent" /\ record'[k].origin = record'[j].origin} = {j}
      <4>1. CASE j = n
        BY <2>2, <2>4, <3>1, <4>1
      <4>2. CASE j # n
        <5>1. {k \in Record : record[k].status # "absent" /\ record[k].origin = record[j].origin} = {j}
          BY <2>4, <3>2, <4>2 DEF IInv, RecordsAreTrue, IdsOf
        <5>2. record[j].origin # o
          BY <2>4, <3>1, <3>2, <4>2
        <5>3. QED
          BY <2>2, <2>3, <2>4, <4>2, <5>1, <5>2
      <4>3. QED
        BY <4>1, <4>2
    <3>3. ASSUME NEW j \in Record, record'[j].status # "absent"
          PROVE  /\ copies'[record'[j].origin] > 0
                 /\ record'[j].acked => record'[j].origin[1] \in acked'
                 /\ record'[j].status = "replayed" => replays'[<<j, record'[j].target>>] > 0
      BY <1>1, <2>2, <2>4, <2>6, <3>3 DEF IInv, RecordsAreTrue
    <3>4. QED
      BY <3>2, <3>3 DEF RecordsAreTrue, IdsOf
  <2>15. QED
    BY <2>8, <2>10, <2>11, <2>12, <2>13, <2>14 DEF IInv
<1>5. QED
  BY <1>3, <1>4

-----------------------------------------------------------------------------
(* Steps around.                                                             *)

\* A step that moves no request and takes nothing from a request.
LEMMA AroundKeeps ==
    ASSUME IInv, TypeOK', UNCHANGED <<acked, copies, replays, record, nextId, request>>, Marked',
           OneCopy', OneReplay'
    PROVE  IInv'
<1>1. Grows
  BY NothingShrinks DEF Grows, IInv
<1>2. \A s \in Request : Sound(s)'
  BY <1>1, OthersSound
<1>3. Fresh' /\ TargetsKnown' /\ AckedHasCopy' /\ RecordsAreTrue'
  BY DEF IInv, Fresh, TargetsKnown, AckedHasCopy, RecordsAreTrue, IdsOf
<1>4. QED
  BY <1>2, <1>3 DEF IInv

LEMMA CrashKeeps ==
    ASSUME IInv, Crash
    PROVE  IInv'
<1>1. /\ \A s \in Request : request'[s] = Idle
      /\ UNCHANGED <<redis, record, nextId>> /\ faults' \in 0..MaxFaults
  BY FaultType DEF Crash, IInv
<1>2. TypeOK'
  BY <1>1, InitialValues DEF Crash, IInv, TypeOK, RequestRow, redis
<1>3. \A s \in Request : Sound(s)'
  BY <1>1, InitialValues DEF Sound
<1>4. /\ Marked' /\ Fresh' /\ TargetsKnown'
      /\ AckedHasCopy' /\ OneCopy' /\ OneReplay' /\ RecordsAreTrue'
  BY <1>1 DEF IInv, Marked, Fresh, TargetsKnown, AckedHasCopy, OneCopy, OneReplay,
              RecordsAreTrue, IdsOf, redis
<1>5. QED
  BY <1>2, <1>3, <1>4 DEF IInv

LEMMA EntriesGo ==
    ASSUME IInv, NEW e \in Entry, Consume(e) \/ Trim(e)
    PROVE  IInv'
<1>1. /\ TypeOK'
      /\ UNCHANGED <<acked, copies, marker, replays, mark, lapsed, record, nextId, request>>
  BY DEF Consume, Trim, IInv, TypeOK
<1>2. Marked' /\ OneCopy' /\ OneReplay'
  BY <1>1 DEF IInv, Marked, OneCopy, OneReplay
<1>3. QED
  BY <1>1, <1>2, AroundKeeps

LEMMA MarkersLapse ==
    ASSUME IInv, \/ \E o \in Origin : MarkerLapses(o)
                 \/ \E m \in Record \X Target : MarkLapses(m)
    PROVE  IInv'
<1>1. /\ TypeOK'
      /\ UNCHANGED <<acked, copies, replays, record, nextId, request>>
      /\ lapsed \subseteq lapsed' /\ marker' \subseteq marker /\ mark' \subseteq mark
      /\ marker \subseteq marker' \cup lapsed' /\ mark \subseteq mark' \cup lapsed'
  BY DEF MarkerLapses, MarkLapses, IInv, TypeOK
<1>2. Marked' /\ OneCopy' /\ OneReplay'
  BY <1>1 DEF IInv, Marked, OneCopy, OneReplay
<1>3. QED
  BY <1>1, <1>2, AroundKeeps

LEMMA PruneKeeps ==
    ASSUME IInv, NEW i \in Record, Prune(i)
    PROVE  IInv'
<1>1. /\ record'[i] = NoRecord
      /\ \A j \in Record \ {i} : record'[j] = record[j]
      /\ record' \in [Record -> RecordRow]
      /\ UNCHANGED <<redis, nextId, request, faults>>
  BY InitialValues DEF Prune, IInv, TypeOK
<1>2. UNCHANGED <<stored, pending, acked, copies, marker, replays, mark, lapsed>>
  BY <1>1 DEF redis
<1>3. TypeOK'
  BY <1>1, <1>2 DEF IInv, TypeOK
<1>4. Grows
  BY <1>1, <1>2, InitialValues, NothingShrinks DEF Grows, IInv
<1>5. \A s \in Request : Sound(s)'
  BY <1>1, <1>3, <1>4, OthersSound
<1>6. Marked' /\ Fresh' /\ TargetsKnown' /\ AckedHasCopy' /\ OneCopy' /\ OneReplay'
  BY <1>1, <1>2, InitialValues
     DEF IInv, Marked, Fresh, TargetsKnown, AckedHasCopy, OneCopy, OneReplay
<1>7. RecordsAreTrue'
  <2>1. ASSUME NEW j \in Record, record'[j].status # "absent"
        PROVE  {k \in Record : record'[k].status # "absent" /\ record'[k].origin = record'[j].origin} = {j}
    <3>1. j # i /\ record[j].status # "absent" /\ record'[j] = record[j]
      BY <1>1, <2>1, InitialValues
    <3>2. {k \in Record : record[k].status # "absent" /\ record[k].origin = record[j].origin} = {j}
      BY <3>1 DEF IInv, RecordsAreTrue, IdsOf
    <3>3. QED
      BY <1>1, <2>1, <3>1, <3>2, InitialValues
  <2>2. ASSUME NEW j \in Record, record'[j].status # "absent"
        PROVE  /\ copies'[record'[j].origin] > 0
               /\ record'[j].acked => record'[j].origin[1] \in acked'
               /\ record'[j].status = "replayed" => replays'[<<j, record'[j].target>>] > 0
    <3>1. j # i /\ record[j].status # "absent" /\ record'[j] = record[j]
      BY <1>1, <2>2, InitialValues
    <3>2. QED
      BY <1>2, <3>1 DEF IInv, RecordsAreTrue
  <2>3. QED
    BY <2>1, <2>2 DEF RecordsAreTrue, IdsOf
<1>8. QED
  BY <1>3, <1>5, <1>6, <1>7 DEF IInv

-----------------------------------------------------------------------------

LEMMA NextIInv == IInv /\ [Next]_vars => IInv'
<1> SUFFICES ASSUME IInv, [Next]_vars
             PROVE  IInv'
  OBVIOUS
<1>1. ASSUME NEW r \in Request, NEW E \in SUBSET Entry, NEW d \in Dlq, NEW ack \in BOOLEAN,
             Quarantine(r, E, d, ack)
      PROVE  IInv'
  BY <1>1, QuarantineKeeps
<1>2. ASSUME NEW r \in Request, NEW S \in SUBSET Record, NEW t \in Target, Act(r, S, "replay", t)
      PROVE  IInv'
  BY <1>2, ActKeeps
<1>3. ASSUME NEW r \in Request, NEW S \in SUBSET Record, Act(r, S, "skip", None)
      PROVE  IInv'
  BY <1>3, ActKeeps
<1>4. ASSUME NEW r \in Request, Load(r) \/ Save(r) \/ Flag(r) \/ Close(r) \/ Done(r) \/ Fails(r)
                                \/ ReplyLost(r)
      PROVE  IInv'
  BY <1>4, LoadKeeps, SaveKeeps, FlagKeeps, CloseKeeps, DoneKeeps, FailsKeeps, ReplyLostKeeps
<1>5. ASSUME NEW r \in Request, Copy(r)
      PROVE  IInv'
  <2>1. faults' \in 0..MaxFaults
    BY <1>5 DEF Copy, IInv, TypeOK
  <2>2. QED
    BY <1>5, <2>1, CopyKeeps DEF Copy
<1>6. ASSUME NEW r \in Request, Ack(r)
      PROVE  IInv'
  <2>1. faults' \in 0..MaxFaults
    BY <1>6 DEF Ack, IInv, TypeOK
  <2>2. CASE request[r].item \in pending
    BY <1>6, <2>1, <2>2, AckKeeps DEF Ack, Counts
  <2>3. CASE request[r].item \notin pending
    BY <1>6, <2>1, <2>3, AckKeeps DEF Ack, Counts
  <2>4. QED
    BY <2>2, <2>3
<1>7. ASSUME NEW r \in Request, NEW e \in Entry, LookUp(r, e)
      PROVE  IInv'
  BY <1>7, LookUpKeeps
<1>8. ASSUME NEW r \in Request, NEW i \in Record, Replay(r, i)
      PROVE  IInv'
  <2>1. faults' \in 0..MaxFaults
    BY <1>8 DEF Replay, IInv, TypeOK
  <2>2. QED
    BY <1>8, <2>1, ReplayKeeps DEF Replay
<1>9. ASSUME NEW r \in Request, NEW i \in Record, Skip(r, i)
      PROVE  IInv'
  BY <1>9, SkipKeeps
<1>10. CASE Crash
  BY <1>10, CrashKeeps
<1>11. ASSUME NEW e \in Entry, Consume(e) \/ Trim(e)
       PROVE  IInv'
  BY <1>11, EntriesGo
<1>12. CASE (\E o \in Origin : MarkerLapses(o)) \/ (\E m \in Record \X Target : MarkLapses(m))
  BY <1>12, MarkersLapse
<1>13. ASSUME NEW i \in Record, Prune(i)
       PROVE  IInv'
  BY <1>13, PruneKeeps
<1>14. CASE UNCHANGED vars
  <2>1. /\ TypeOK'
        /\ UNCHANGED <<acked, copies, marker, replays, mark, lapsed, record, nextId, request>>
    BY <1>14 DEF vars, redis, IInv, TypeOK
  <2>2. Marked' /\ OneCopy' /\ OneReplay'
    BY <2>1 DEF IInv, Marked, OneCopy, OneReplay
  <2>3. QED
    BY <2>1, <2>2, AroundKeeps
<1>15. QED
  BY <1>1, <1>2, <1>3, <1>4, <1>5, <1>6, <1>7, <1>8, <1>9, <1>10, <1>11, <1>12, <1>13, <1>14
     DEF Next

LEMMA Invariance == Spec => []IInv
BY InitIInv, NextIInv, PTL DEF Spec

\* Streams, markers, records and requests of the quarantine are well typed.
THEOREM TypeCorrect == Spec => []TypeOK
<1>1. IInv => TypeOK
  BY DEF IInv
<1>2. QED
  BY <1>1, Invariance, PTL

\* quarantineEntries never acknowledges an entry that has no copy in a dead
\* letter stream, whatever fails, is lost or is repeated.
THEOREM NoAckWithoutCopy == Spec => []AckedHasCopy
<1>1. IInv => AckedHasCopy
  BY DEF IInv
<1>2. QED
  BY <1>1, Invariance, PTL

\* redisXAddOnce adds an entry to a dead letter stream once while the marker
\* lives, for any number of requests.
THEOREM AddedOnce == Spec => []OneCopy
<1>1. IInv => OneCopy
  BY DEF IInv
<1>2. QED
  BY <1>1, Invariance, PTL

\* The same of a record and the stream it is replayed to.
THEOREM ReplayedOnce == Spec => []OneReplay
<1>1. IInv => OneReplay
  BY DEF IInv
<1>2. QED
  BY <1>1, Invariance, PTL

\* The records in SQLite are true of the streams in Redis, and an origin has one.
THEOREM TrueRecords == Spec => []RecordsAreTrue
<1>1. IInv => RecordsAreTrue
  BY DEF IInv
<1>2. QED
  BY <1>1, Invariance, PTL

\* Once replayed or skipped a record is only noted as acknowledged, or pruned:
\* markQuarantineReplayed and markQuarantineSkipped ask for the status.
THEOREM TerminalRecords == Spec => TerminalIsFinal
<1>1. ASSUME IInv, [Next]_vars, NEW i \in Record, record[i].status \in {"replayed", "skipped"}
      PROVE  record'[i] \in {NoRecord, record[i], [record[i] EXCEPT !.acked = TRUE]}
  <2>1. ASSUME NEW r \in Request, Save(r)
        PROVE  record'[i] = record[i]
    <3>1. nextId \in Record => nextId # i
      BY <1>1, InitialValues, QuarantineAssumption DEF IInv, Fresh, TypeOK, Record
    <3>2. UNCHANGED record \/ \E row : record' = [record EXCEPT ![nextId] = row]
      BY <2>1 DEF Save
    <3>3. QED
      BY <1>1, <3>1, <3>2 DEF IInv, TypeOK
  <2>2. ASSUME NEW r \in Request, Flag(r)
        PROVE  record'[i] \in {record[i], [record[i] EXCEPT !.acked = TRUE]}
    BY <1>1, <2>2 DEF Flag, IInv, TypeOK
  <2>3. ASSUME NEW r \in Request, Close(r)
        PROVE  record'[i] = record[i]
    <3>1. CASE Open(request[r].item)
      <4>1. request[r].item # i
        BY <1>1, <3>1 DEF Open
      <4>2. \E row : record' = [record EXCEPT ![request[r].item] = row]
        BY <2>3, <3>1, <1>1 DEF Close, IInv, TypeOK
      <4>3. QED
        BY <1>1, <4>1, <4>2 DEF IInv, TypeOK
    <3>2. CASE ~Open(request[r].item)
      BY <2>3, <3>2 DEF Close
    <3>3. QED
      BY <3>1, <3>2
  <2>4. ASSUME NEW r \in Request, NEW j \in Record, Skip(r, j)
        PROVE  record'[i] = record[i]
    <3>1. CASE Open(j)
      BY <1>1, <2>4, <3>1 DEF Skip, Open, IInv, TypeOK
    <3>2. CASE ~Open(j)
      BY <2>4, <3>2 DEF Skip
    <3>3. QED
      BY <3>1, <3>2
  <2>5. ASSUME NEW j \in Record, Prune(j)
        PROVE  record'[i] \in {NoRecord, record[i]}
    BY <1>1, <2>5 DEF Prune, IInv, TypeOK
  <2>6. QED
    BY <1>1, <2>1, <2>2, <2>3, <2>4, <2>5
       DEF Next, vars, Quarantine, Load, LookUp, Copy, Ack, Act, Replay, Done, Fails, ReplyLost,
           Crash, Consume, Trim, MarkerLapses, MarkLapses
<1>2. IInv /\ [Next]_vars =>
        [\A i \in Record : record[i].status \in {"replayed", "skipped"}
            => record'[i] \in {NoRecord, record[i], [record[i] EXCEPT !.acked = TRUE]}]_vars
  BY <1>1
<1>3. QED
  BY <1>2, Invariance, PTL DEF Spec, TerminalIsFinal

-----------------------------------------------------------------------------
(* The receipts of executed commands.                                      *)

\* A request that waits for Redis has tried as often as Redis may have acted,
\* and one that knows of a success has had one.
Tried ==
    \A r \in Executor :
        /\ execution[r].stage = "execute" => applied[execution[r].key] <= execution[r].tries
        /\ execution[r].stage = "record" /\ execution[r].outcome = "ok"
              => applied[execution[r].key] > 0

Succeeded == \A k \in Key : receipt[k].status = "succeeded" => applied[k] > 0

\* The inductive invariant.
ExecutionInv == ExecutionTypeOK /\ OneExecutor /\ AppliedWithinRetries /\ Tried /\ Succeeded

-----------------------------------------------------------------------------

LEMMA ExecutionValues ==
    /\ NoExecution \in ExecutionRecord /\ NoExecution.stage = "idle"
    /\ NoReceipt \in ReceiptRecord /\ NoReceipt.status = "none"
<1>1. (CHOOSE k \in Key : TRUE) \in Key
  BY RecoveryAssumption
<1>2. (CHOOSE c \in Content : TRUE) \in Content
  BY RecoveryAssumption
<1>3. QED
  BY <1>1, <1>2, RecoveryAssumption
     DEF NoExecution, ExecutionRecord, Stage, Answer, NoReceipt, ReceiptRecord,
         ReceiptStatus, Outcome

LEMMA InitExecution == ExecutionInit => ExecutionInv
<1> SUFFICES ASSUME ExecutionInit
             PROVE  ExecutionInv
  OBVIOUS
<1>1. ExecutionTypeOK
  BY ExecutionValues, RecoveryAssumption DEF ExecutionInit, ExecutionTypeOK
<1>2. OneExecutor /\ Tried
  BY ExecutionValues DEF ExecutionInit, OneExecutor, Executing, Tried
<1>3. AppliedWithinRetries /\ Succeeded
  BY ExecutionValues, RecoveryAssumption DEF ExecutionInit, AppliedWithinRetries, Succeeded
<1>4. QED
  BY <1>1, <1>2, <1>3 DEF ExecutionInv

LEMMA Contents ==
    ASSUME NEW c \in Content
    PROVE  c.target \in Id
BY RecoveryAssumption

\* What Redis does keeps the types and acts for one receipt at most once.
LEMMA CarryActsOnce ==
    ASSUME ExecutionTypeOK, NEW k \in Key, Carry(k)
    PROVE  /\ group' \in Id
           /\ applied' \in [Key -> Nat]
           /\ \A l \in Key : applied'[l] >= applied[l]
           /\ \A l \in Key \ {k} : applied'[l] = applied[l]
           /\ applied'[k] <= applied[k] + 1
           /\ Accepts(receipt[k].content) => applied'[k] > 0
<1>1. receipt[k].content \in Content
  BY DEF ExecutionTypeOK, ReceiptRecord
<1>2. receipt[k].content.target \in Id
  BY <1>1, Contents
<1>3. CASE Accepts(receipt[k].content)
  BY <1>2, <1>3 DEF ExecutionTypeOK, Carry
<1>4. CASE ~Accepts(receipt[k].content)
  BY <1>4 DEF ExecutionTypeOK, Carry
<1>5. QED
  BY <1>3, <1>4

\* A step of one request that leaves the receipts alone, after which it is past
\* Redis, or further on in its tries.
LEMMA ExecutionStep ==
    ASSUME ExecutionInv, UNCHANGED receipt, NEW r \in Executor,
           execution' \in [Executor -> ExecutionRecord],
           \A s \in Executor \ {r} : execution'[s] = execution[s],
           execution'[r].key = execution[r].key, execution'[r].content = execution[r].content,
           execution[r].stage = "execute", mishaps' \in 0..MaxMishaps,
           \/ Carry(execution[r].key)
           \/ UNCHANGED <<group, applied>>,
           \/ execution'[r].stage = "answered"
           \/ execution'[r].stage = "execute" /\ execution'[r].tries = execution[r].tries + 1
           \/ /\ execution'[r].stage = "record"
              /\ execution'[r].outcome = "ok" => /\ Carry(execution[r].key)
                                               /\ Accepts(receipt[execution[r].key].content)
    PROVE  ExecutionInv'
<1> DEFINE k == execution[r].key
<1>1. k \in Key /\ execution[r].tries \in 0..MaxRetries
  BY DEF ExecutionInv, ExecutionTypeOK, ExecutionRecord
<1>2. /\ group' \in Id /\ applied' \in [Key -> Nat]
      /\ \A l \in Key : applied'[l] >= applied[l]
      /\ \A l \in Key \ {k} : applied'[l] = applied[l]
      /\ applied'[k] <= applied[k] + 1
  BY <1>1, CarryActsOnce DEF ExecutionInv, ExecutionTypeOK
<1>3. applied \in [Key -> Nat] /\ applied[k] <= execution[r].tries /\ receipt[k].status = "running"
  BY <1>1 DEF ExecutionInv, ExecutionTypeOK, Tried, OneExecutor, Executing
<1>4. ExecutionTypeOK'
  BY <1>2 DEF ExecutionInv, ExecutionTypeOK
<1>5. OneExecutor'
  BY DEF ExecutionInv, OneExecutor, Executing
<1>6. AppliedWithinRetries'
  <2>1. applied'[k] <= 1 + MaxRetries
    BY <1>1, <1>2, <1>3, RecoveryAssumption
  <2>2. \A l \in Key : applied'[l] <= 1 + MaxRetries
    BY <1>2, <2>1 DEF ExecutionInv, AppliedWithinRetries
  <2>3. \A l \in Key : receipt'[l].status = "none" => applied'[l] = 0
    BY <1>2, <1>3 DEF ExecutionInv, AppliedWithinRetries
  <2>4. QED
    BY <2>2, <2>3 DEF AppliedWithinRetries
<1>7. Tried'
  <2>1. ASSUME NEW s \in Executor \ {r}, Executing(s)
        PROVE  applied'[execution[s].key] = applied[execution[s].key]
    <3>1. execution[s].key # k /\ execution[s].key \in Key
      BY <2>1 DEF ExecutionInv, OneExecutor, Executing, ExecutionTypeOK, ExecutionRecord
    <3>2. QED
      BY <1>2, <3>1
  <2>2. \A s \in Executor \ {r} :
            /\ execution'[s].stage = "execute" => applied'[execution'[s].key] <= execution'[s].tries
            /\ execution'[s].stage = "record" /\ execution'[s].outcome = "ok"
                  => applied'[execution'[s].key] > 0
    BY <2>1 DEF ExecutionInv, Tried, Executing
  <2>3. execution'[r].stage = "execute" => applied'[k] <= execution'[r].tries
    BY <1>1, <1>2, <1>3
  <2>4. execution'[r].stage = "record" /\ execution'[r].outcome = "ok" => applied'[k] > 0
    BY <1>1, CarryActsOnce DEF ExecutionInv
  <2>5. QED
    BY <2>2, <2>3, <2>4 DEF Tried
<1>8. Succeeded'
  BY <1>2, <1>3 DEF ExecutionInv, Succeeded
<1>9. QED
  BY <1>4, <1>5, <1>6, <1>7, <1>8 DEF ExecutionInv

\* A step that executes for nobody: requests may end or be told something.
LEMMA Quiet ==
    ASSUME ExecutionInv, ExecutionTypeOK', UNCHANGED <<receipt, applied>>,
           \A s \in Executor : Executing(s)' => execution'[s] = execution[s]
    PROVE  ExecutionInv'
<1>1. OneExecutor' /\ Tried'
  BY DEF ExecutionInv, OneExecutor, Executing, Tried
<1>2. AppliedWithinRetries' /\ Succeeded'
  BY DEF ExecutionInv, AppliedWithinRetries, Succeeded
<1>3. QED
  BY <1>1, <1>2 DEF ExecutionInv

LEMMA BeginKeeps ==
    ASSUME ExecutionInv, NEW r \in Executor, NEW k \in Key, NEW c \in Content, Begin(r, k, c)
    PROVE  ExecutionInv'
<1>1. /\ execution'[r] = [NoExecution EXCEPT !.stage = IF Free(k) THEN "execute" ELSE "load",
                                   !.key = k, !.content = c]
      /\ \A s \in Executor \ {r} : execution'[s] = execution[s]
  BY DEF Begin, ExecutionInv, ExecutionTypeOK
<1>2. execution'[r] \in ExecutionRecord
  BY <1>1, ExecutionValues DEF ExecutionRecord, Stage
<1>3. /\ execution'[r].key = k /\ execution'[r].content = c
      /\ execution'[r].stage = IF Free(k) THEN "execute" ELSE "load"
      /\ execution'[r].tries = 0
  BY <1>1, ExecutionValues DEF ExecutionRecord, NoExecution
<1>4. ExecutionTypeOK'
  BY <1>2 DEF Begin, ExecutionInv, ExecutionTypeOK, ReceiptRecord, ReceiptStatus, Outcome
<1>5. CASE Free(k)
  <2>1. /\ receipt'[k].status = "running" /\ receipt'[k].content = c
        /\ \A l \in Key \ {k} : receipt'[l] = receipt[l]
    BY <1>5 DEF Begin, ExecutionInv, ExecutionTypeOK
  <2>2. receipt[k].status = "none" /\ applied[k] = 0 /\ UNCHANGED applied
    BY <1>5 DEF Begin, Free, ExecutionInv, AppliedWithinRetries
  <2>3. \A s \in Executor : Executing(s) => execution[s].key # k
    BY <2>2 DEF ExecutionInv, OneExecutor
  <2>4. OneExecutor'
    <3>1. \A s \in Executor \ {r} : Executing(s)' => Executing(s) /\ execution'[s].key # k
      BY <1>1, <2>3 DEF Executing
    <3>2. \A s, t \in Executor :
              Executing(s)' /\ Executing(t)' /\ execution'[s].key = execution'[t].key => s = t
      BY <1>1, <1>3, <3>1 DEF ExecutionInv, OneExecutor
    <3>3. \A s \in Executor \ {r} : Executing(s)' =>
              /\ receipt'[execution'[s].key].status = "running"
              /\ receipt'[execution'[s].key].content = execution'[s].content
      BY <1>1, <2>1, <3>1 DEF ExecutionInv, OneExecutor, ExecutionTypeOK, ExecutionRecord
    <3>4. /\ receipt'[execution'[r].key].status = "running"
          /\ receipt'[execution'[r].key].content = execution'[r].content
      BY <1>3, <2>1
    <3>5. QED
      BY <3>2, <3>3, <3>4 DEF OneExecutor, Executing
  <2>5. Tried'
    <3>1. execution'[r].stage = "execute" /\ applied'[execution'[r].key] <= execution'[r].tries
      BY <1>3, <1>5, <2>2
    <3>2. QED
      BY <1>1, <2>2, <3>1 DEF ExecutionInv, Tried
  <2>6. AppliedWithinRetries' /\ Succeeded'
    BY <2>1, <2>2, RecoveryAssumption DEF ExecutionInv, AppliedWithinRetries, Succeeded
  <2>7. QED
    BY <1>4, <2>4, <2>5, <2>6 DEF ExecutionInv
<1>6. CASE ~Free(k)
  <2>1. UNCHANGED <<receipt, applied>> /\ ~Executing(r)'
    BY <1>3, <1>6 DEF Begin, Executing
  <2>2. QED
    BY <1>1, <1>4, <2>1, Quiet
<1>7. QED
  BY <1>5, <1>6

LEMMA ReplyTypes ==
    ASSUME ExecutionTypeOK, NEW r \in Executor, NEW o \in Outcome, Reply(r, o)
    PROVE  /\ execution' \in [Executor -> ExecutionRecord]
           /\ \A s \in Executor \ {r} : execution'[s] = execution[s]
           /\ execution'[r].key = execution[r].key /\ execution'[r].content = execution[r].content
           /\ execution'[r].stage = "record" /\ execution'[r].outcome = o
BY DEF ExecutionTypeOK, Reply, ExecutionRecord, Stage

LEMMA RetryTypes ==
    ASSUME ExecutionTypeOK, NEW r \in Executor, execution[r].stage = "execute", Retry(r)
    PROVE  /\ execution' \in [Executor -> ExecutionRecord]
           /\ \A s \in Executor \ {r} : execution'[s] = execution[s]
           /\ execution'[r].key = execution[r].key /\ execution'[r].content = execution[r].content
           /\ \/ execution'[r].stage = "execute" /\ execution'[r].tries = execution[r].tries + 1
              \/ execution'[r].stage = "record" /\ execution'[r].outcome = "redis_error"
<1>1. CASE execution[r].tries = MaxRetries
  BY <1>1, ReplyTypes DEF Retry, Outcome
<1>2. CASE execution[r].tries # MaxRetries
  <2>1. execution[r].tries + 1 \in 0..MaxRetries
    BY <1>2, RecoveryAssumption DEF ExecutionTypeOK, ExecutionRecord
  <2>2. QED
    BY <1>2, <2>1 DEF Retry, ExecutionTypeOK, ExecutionRecord
<1>3. QED
  BY <1>1, <1>2

LEMMA AnsweredTypes ==
    ASSUME ExecutionTypeOK, NEW r \in Executor, NEW a \in Answer, Answered(r, a)
    PROVE  /\ execution' \in [Executor -> ExecutionRecord]
           /\ \A s \in Executor \ {r} : execution'[s] = execution[s]
           /\ execution'[r].key = execution[r].key /\ execution'[r].content = execution[r].content
           /\ execution'[r].stage = "answered" /\ execution'[r].answer = a
BY DEF ExecutionTypeOK, Answered, ExecutionRecord, Stage

LEMMA MishapType ==
    ASSUME ExecutionTypeOK, Mishap
    PROVE  mishaps' \in 0..MaxMishaps
BY RecoveryAssumption DEF ExecutionTypeOK, Mishap

LEMMA RecordKeeps ==
    ASSUME ExecutionInv, NEW r \in Executor, RecordOutcome(r)
    PROVE  ExecutionInv'
<1> DEFINE k == execution[r].key
           o == execution[r].outcome
<1>1. /\ k \in Key /\ o \in Outcome
      /\ receipt[k].status = "running" /\ receipt[k].content = execution[r].content
      /\ Executing(r)
  BY
     DEF RecordOutcome, ExecutionInv, ExecutionTypeOK, ExecutionRecord, OneExecutor, Executing
<1>2. /\ receipt'[k].status = IF o = "ok" THEN "succeeded" ELSE "failed"
      /\ receipt'[k].content = receipt[k].content /\ receipt'[k] \in ReceiptRecord
      /\ \A l \in Key \ {k} : receipt'[l] = receipt[l]
      /\ receipt' \in [Key -> ReceiptRecord]
  <2>1. receipt' = [receipt EXCEPT ![k].status = IF o = "ok" THEN "succeeded" ELSE "failed",
                                   ![k].outcome = o]
    BY <1>1 DEF RecordOutcome
  <2>2. receipt[k] \in ReceiptRecord
    BY <1>1 DEF ExecutionInv, ExecutionTypeOK
  <2>3. receipt'[k] = [receipt[k] EXCEPT !.status = IF o = "ok" THEN "succeeded" ELSE "failed",
                                         !.outcome = o]
    BY <1>1, <2>1 DEF ExecutionInv, ExecutionTypeOK
  <2>4. \A l \in Key \ {k} : receipt'[l] = receipt[l]
    BY <1>1, <2>1 DEF ExecutionInv, ExecutionTypeOK
  <2>5. receipt'[k] = [status |-> IF o = "ok" THEN "succeeded" ELSE "failed",
                       content |-> receipt[k].content, outcome |-> o]
    BY <2>2, <2>3 DEF ReceiptRecord
  <2>6. receipt'[k] \in ReceiptRecord
    BY <1>1, <2>2, <2>5 DEF ReceiptRecord, ReceiptStatus
  <2>7. receipt' \in [Key -> ReceiptRecord]
    <3>1. receipt' = [l \in Key |-> receipt'[l]]
      BY <2>1 DEF ExecutionInv, ExecutionTypeOK
    <3>2. \A l \in Key : receipt'[l] \in ReceiptRecord
      BY <2>4, <2>6 DEF ExecutionInv, ExecutionTypeOK
    <3>3. QED
      BY <3>1, <3>2
  <2>8. QED
    BY <2>4, <2>5, <2>6, <2>7
<1>3. Answered(r, IF o = "ok" THEN "ok" ELSE "failed") /\ UNCHANGED <<group, applied, mishaps>>
  BY <1>1 DEF RecordOutcome
<1>4. /\ execution' \in [Executor -> ExecutionRecord]
      /\ \A s \in Executor \ {r} : execution'[s] = execution[s]
      /\ execution'[r].stage = "answered"
  BY <1>3, AnsweredTypes DEF ExecutionInv, Answer
<1>5. ExecutionTypeOK'
  BY <1>2, <1>3, <1>4 DEF ExecutionInv, ExecutionTypeOK
<1>6. \A s \in Executor : Executing(s)' => s # r /\ Executing(s) /\ execution'[s] = execution[s]
                                        /\ execution[s].key # k
  BY <1>1, <1>4 DEF ExecutionInv, OneExecutor, Executing
<1>7. OneExecutor'
  BY <1>2, <1>4, <1>6
     DEF ExecutionInv, OneExecutor, Executing, ExecutionTypeOK, ExecutionRecord
<1>8. Tried'
  BY <1>3, <1>4 DEF ExecutionInv, Tried
<1>9. AppliedWithinRetries'
  BY <1>2, <1>3 DEF ExecutionInv, AppliedWithinRetries
<1>10. Succeeded'
  BY <1>2, <1>3 DEF ExecutionInv, Succeeded, Tried, RecordOutcome
<1>11. QED
  BY <1>5, <1>7, <1>8, <1>9, <1>10 DEF ExecutionInv

LEMMA PruneReceiptKeeps ==
    ASSUME ExecutionInv, NEW k \in Key, PruneReceipt(k)
    PROVE  ExecutionInv'
<1>1. /\ receipt'[k] = NoReceipt /\ applied'[k] = 0
      /\ \A l \in Key \ {k} : receipt'[l] = receipt[l] /\ applied'[l] = applied[l]
      /\ UNCHANGED <<group, execution, mishaps>>
  BY DEF PruneReceipt, ExecutionInv, ExecutionTypeOK
<1>2. ExecutionTypeOK'
  BY ExecutionValues DEF PruneReceipt, ExecutionInv, ExecutionTypeOK
<1>3. \A r \in Executor : Executing(r) => execution[r].key # k
  BY DEF PruneReceipt, Executing
<1>4. OneExecutor'
  BY <1>1, <1>3 DEF ExecutionInv, OneExecutor, Executing, ExecutionTypeOK, ExecutionRecord
<1>5. Tried'
  BY <1>1, <1>3 DEF ExecutionInv, Tried, Executing, ExecutionTypeOK, ExecutionRecord
<1>6. AppliedWithinRetries' /\ Succeeded'
  BY <1>1, ExecutionValues, RecoveryAssumption
     DEF ExecutionInv, AppliedWithinRetries, Succeeded
<1>7. QED
  BY <1>2, <1>4, <1>5, <1>6 DEF ExecutionInv

LEMMA NextExecution == ExecutionInv /\ [ExecutionNext]_executionVars => ExecutionInv'
<1> SUFFICES ASSUME ExecutionInv, [ExecutionNext]_executionVars
             PROVE  ExecutionInv'
  OBVIOUS
<1>1. ASSUME NEW r \in Executor, NEW k \in Key, NEW c \in Content, Begin(r, k, c)
      PROVE  ExecutionInv'
  BY <1>1, BeginKeeps
<1>2. ASSUME NEW r \in Executor, LoadReceipt(r)
      PROVE  ExecutionInv'
  <2>1. PICK a \in Answer : Answered(r, a)
    <3>1. ReplayOf(receipt[execution[r].key], execution[r].content) \in Answer
      BY DEF ReplayOf, Answer
    <3>2. QED
      BY <1>2, <3>1 DEF LoadReceipt, Answered
  <2>2. ExecutionTypeOK' /\ UNCHANGED <<receipt, applied>>
    BY <1>2, <2>1, AnsweredTypes DEF LoadReceipt, ExecutionInv, ExecutionTypeOK
  <2>3. QED
    BY <2>1, <2>2, AnsweredTypes, Quiet DEF ExecutionInv, Executing
<1>3. ASSUME NEW r \in Executor, Execute(r)
      PROVE  ExecutionInv'
  <2>1. receipt[execution[r].key].content = execution[r].content
    BY <1>3 DEF Execute, ExecutionInv, OneExecutor, Executing
  <2>2. PICK o \in Outcome : Reply(r, o) /\ (o = "ok" => Accepts(execution[r].content))
    BY <1>3 DEF Execute, Outcome
  <2>3. QED
    BY <1>3, <2>1, <2>2, ReplyTypes, ExecutionStep
       DEF Execute, ExecutionInv, ExecutionTypeOK
<1>4. ASSUME NEW r \in Executor, Unreachable(r) \/ LostReply(r)
      PROVE  ExecutionInv'
  BY <1>4, RetryTypes, MishapType, ExecutionStep DEF Unreachable, LostReply, ExecutionInv
<1>5. ASSUME NEW r \in Executor, Refused(r)
      PROVE  ExecutionInv'
  BY <1>5, ReplyTypes, MishapType, ExecutionStep DEF Refused, ExecutionInv, Outcome
<1>6. ASSUME NEW r \in Executor, RecordOutcome(r)
      PROVE  ExecutionInv'
  BY <1>6, RecordKeeps
<1>7. ASSUME NEW r \in Executor, RecordFails(r)
      PROVE  ExecutionInv'
  <2>1. PICK a \in Answer : Answered(r, a)
    BY <1>7 DEF RecordFails, Answer
  <2>2. ExecutionTypeOK' /\ UNCHANGED <<receipt, applied>>
    BY <1>7, <2>1, AnsweredTypes, MishapType DEF RecordFails, ExecutionInv, ExecutionTypeOK
  <2>3. QED
    BY <2>1, <2>2, AnsweredTypes, Quiet DEF ExecutionInv, Executing
<1>8. ASSUME NEW r \in Executor, Abandon(r)
      PROVE  ExecutionInv'
  <2>1. Answered(r, "failed") /\ "failed" \in Answer
         /\ mishaps' \in 0..MaxMishaps /\ UNCHANGED receipt
    BY <1>8, MishapType DEF Abandon, Answer, ExecutionInv
  <2>2. CASE execution[r].stage = "execute"
    BY <1>8, <2>1, <2>2, AnsweredTypes, ExecutionStep DEF Abandon, ExecutionInv
  <2>3. CASE execution[r].stage # "execute"
    <3>1. ExecutionTypeOK' /\ UNCHANGED applied
      BY <1>8, <2>1, <2>3, AnsweredTypes DEF Abandon, ExecutionInv, ExecutionTypeOK
    <3>2. QED
      BY <2>1, <3>1, AnsweredTypes, Quiet DEF ExecutionInv, Executing
  <2>4. QED
    BY <2>2, <2>3
<1>9. CASE ProcessStops
  <2>1. ExecutionTypeOK' /\ UNCHANGED <<receipt, applied>>
    BY <1>9, ExecutionValues, MishapType DEF ProcessStops, ExecutionInv, ExecutionTypeOK
  <2>2. QED
    BY <1>9, <2>1, ExecutionValues, Quiet DEF ProcessStops, Executing
<1>10. ASSUME NEW i \in Id, Move(i)
       PROVE  ExecutionInv'
  <2>1. ExecutionTypeOK' /\ UNCHANGED <<receipt, applied, execution>>
    BY <1>10 DEF Move, ExecutionInv, ExecutionTypeOK
  <2>2. QED
    BY <2>1, Quiet
<1>11. ASSUME NEW k \in Key, PruneReceipt(k)
       PROVE  ExecutionInv'
  BY <1>11, PruneReceiptKeeps
<1>12. CASE UNCHANGED executionVars
  <2>1. ExecutionTypeOK' /\ UNCHANGED <<receipt, applied, execution>>
    BY <1>12 DEF executionVars, ExecutionInv, ExecutionTypeOK
  <2>2. QED
    BY <2>1, Quiet
<1>13. QED
  BY <1>1, <1>2, <1>3, <1>4, <1>5, <1>6, <1>7, <1>8, <1>9, <1>10, <1>11, <1>12
     DEF ExecutionNext

LEMMA ExecutionInvariance == ExecutionSpec => []ExecutionInv
BY InitExecution, NextExecution, PTL DEF ExecutionSpec

\* The receipts, the requests and the group are well typed in every state of
\* executeRecovery, for any number of requests and keys.
THEOREM ExecutionTypes == ExecutionSpec => []ExecutionTypeOK
<1>1. ExecutionInv => ExecutionTypeOK
  BY DEF ExecutionInv
<1>2. QED
  BY <1>1, ExecutionInvariance, PTL

\* A key is executed by one request at a time, with the content that it was
\* reserved for: beginRecoveryExecution hands it out once.
THEOREM OneExecutorPerKey == ExecutionSpec => []OneExecutor
<1>1. ExecutionInv => OneExecutor
  BY DEF ExecutionInv
<1>2. QED
  BY <1>1, ExecutionInvariance, PTL

\* A receipt stands for one execution and the retries of the Redis client
\* (MaxRetries, redis_manager.go), whatever is lost, repeated or crashes.
THEOREM BoundedExecutions == ExecutionSpec => []AppliedWithinRetries
<1>1. ExecutionInv => AppliedWithinRetries
  BY DEF ExecutionInv
<1>2. QED
  BY <1>1, ExecutionInvariance, PTL

\* A receipt whose outcome nobody knows goes on running: no racing request, no
\* restart and no retention changes it.
THEOREM UnknownOutcomesKept == ExecutionSpec => UnknownIsKept
<1>1. ASSUME ExecutionInv, [ExecutionNext]_executionVars,
             NEW k \in Key, receipt[k].status = "running",
             \A r \in Executor : Executing(r) => execution[r].key # k
      PROVE  receipt'[k] = receipt[k]
  <2>1. ASSUME NEW r \in Executor, NEW l \in Key, NEW c \in Content, Begin(r, l, c)
        PROVE  receipt'[k] = receipt[k]
    BY <1>1, <2>1 DEF Begin, Free, ExecutionInv, ExecutionTypeOK
  <2>2. ASSUME NEW r \in Executor, RecordOutcome(r)
        PROVE  receipt'[k] = receipt[k]
    <3>1. execution[r].key # k
      BY <1>1, <2>2 DEF RecordOutcome, Executing
    <3>2. QED
      BY <2>2, <3>1, <1>1 DEF RecordOutcome, ExecutionInv, ExecutionTypeOK
  <2>3. ASSUME NEW l \in Key, PruneReceipt(l)
        PROVE  receipt'[k] = receipt[k]
    BY <1>1, <2>3 DEF PruneReceipt, Prunable, ExecutionInv, ExecutionTypeOK
  <2>4. QED
    BY <1>1, <2>1, <2>2, <2>3
       DEF ExecutionNext, executionVars, LoadReceipt, Execute, Unreachable, LostReply,
           Refused, RecordFails,
           Abandon, ProcessStops, Move
<1>2. ExecutionInv /\ [ExecutionNext]_executionVars =>
        [\A k \in Key :
            /\ receipt[k].status = "running"
            /\ \A r \in Executor : Executing(r) => execution[r].key # k
            => receipt'[k] = receipt[k]]_executionVars
  BY <1>1
<1>3. QED
  BY <1>2, ExecutionInvariance, PTL DEF ExecutionSpec, UnknownIsKept

\* A success is told, or replayed from the receipt, only to the request that it
\* is the outcome of, and only for a command that Redis carried out.
THEOREM TrueAnswers == ExecutionSpec => AnswersAreTrue
<1>1. ASSUME ExecutionInv, [ExecutionNext]_executionVars,
             NEW r \in Executor, execution[r].stage # "answered",
             execution'[r].stage = "answered", execution'[r].answer \in {"ok", "replay"}
      PROVE  LET k == execution[r].key
             IN  /\ applied[k] > 0
                 /\ receipt'[k].status = "succeeded"
                 /\ receipt'[k].content = execution[r].content
  <2> DEFINE k == execution[r].key
  <2>1. CASE LoadReceipt(r)
    <3>1. Answered(r, ReplayOf(receipt[k], execution[r].content)) /\ UNCHANGED receipt
      BY <2>1 DEF LoadReceipt, Answered
    <3>2. k \in Key /\ ReplayOf(receipt[k], execution[r].content) \in Answer
      BY <1>1 DEF ExecutionInv, ExecutionTypeOK, ExecutionRecord, ReplayOf, Answer
    <3>3. ReplayOf(receipt[k], execution[r].content) = "replay"
      <4>1. ReplayOf(receipt[k], execution[r].content) # "ok"
        BY DEF ReplayOf
      <4>2. QED
        BY <1>1, <3>1, <3>2, <4>1, AnsweredTypes DEF ExecutionInv
    <3>4. receipt[k].status = "succeeded" /\ receipt[k].content = execution[r].content
      BY <3>3 DEF ReplayOf
    <3>5. QED
      BY <1>1, <3>1, <3>2, <3>4 DEF ExecutionInv, Succeeded
  <2>2. CASE RecordOutcome(r)
    <3>1. k \in Key /\ receipt[k].status = "running" /\ receipt[k].content = execution[r].content
      BY <1>1, <2>2
         DEF RecordOutcome, ExecutionInv, ExecutionTypeOK, ExecutionRecord, OneExecutor, Executing
    <3>2. execution[r].outcome = "ok"
      BY <1>1, <2>2, <3>1
         DEF RecordOutcome, Answered, ExecutionInv, ExecutionTypeOK, ExecutionRecord
    <3>3. receipt'[k].status = "succeeded" /\ receipt'[k].content = receipt[k].content
      BY <1>1, <2>2, <3>1, <3>2
         DEF RecordOutcome, ExecutionInv, ExecutionTypeOK, ReceiptRecord
    <3>4. QED
      BY <1>1, <2>2, <3>1, <3>2, <3>3 DEF RecordOutcome, ExecutionInv, Tried
  <2>3. ASSUME NEW s \in Executor, NEW l \in Key, NEW c \in Content, Begin(s, l, c)
        PROVE  FALSE
    BY <1>1, <2>3 DEF Begin, NoExecution, ExecutionInv, ExecutionTypeOK
  <2>4. ASSUME NEW s \in Executor, \/ LoadReceipt(s) \/ Execute(s) \/ Unreachable(s) \/ LostReply(s)
                                  \/ Refused(s) \/ RecordOutcome(s) \/ RecordFails(s) \/ Abandon(s)
        PROVE  s = r
    BY <1>1, <2>4
       DEF LoadReceipt, Execute, Unreachable, LostReply, Refused, RecordOutcome,
           RecordFails, Abandon,
           Reply, Retry, Answered, ExecutionInv, ExecutionTypeOK
  <2>5. ~Execute(r) /\ ~Refused(r)
    BY <1>1, ReplyTypes DEF Execute, Refused, Outcome, ExecutionInv
  <2>6. ~Unreachable(r) /\ ~LostReply(r)
    BY <1>1, RetryTypes DEF Unreachable, LostReply, ExecutionInv
  <2>7. ~RecordFails(r) /\ ~Abandon(r)
    <3>1. \A a \in {"failed", "unknown"} : ~Answered(r, a)
      BY <1>1, AnsweredTypes DEF ExecutionInv, Answer
    <3>2. QED
      BY <3>1 DEF RecordFails, Abandon
  <2>8. ~ProcessStops
    BY <1>1 DEF ProcessStops, NoExecution
  <2>9. execution' # execution
    BY <1>1
  <2>10. QED
    BY <2>1, <2>2, <2>3, <2>4, <2>5, <2>6, <2>7, <2>8, <2>9, <1>1
       DEF ExecutionNext, executionVars, Move, PruneReceipt
<1>2. ExecutionInv /\ [ExecutionNext]_executionVars =>
        [\A r \in Executor :
            /\ execution[r].stage # "answered"
            /\ execution'[r].stage = "answered" /\ execution'[r].answer \in {"ok", "replay"}
            => LET k == execution[r].key
               IN  /\ applied[k] > 0
                   /\ receipt'[k].status = "succeeded"
                   /\ receipt'[k].content = execution[r].content]_executionVars
  BY <1>1
<1>3. QED
  BY <1>2, ExecutionInvariance, PTL DEF ExecutionSpec, AnswersAreTrue
=============================================================================
