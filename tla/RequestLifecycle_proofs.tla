---------------------- MODULE RequestLifecycle_proofs ----------------------
(* Proofs about RequestLifecycle: whatever arrives in whatever order, the  *)
(* times of every row are the extremes of its events and the last attempt  *)
(* has the last word; and whatever is written between two pages, a listing *)
(* shows what stands still once.                                           *)
EXTENDS RequestLifecycle, FiniteSetTheorems, TLAPS

-----------------------------------------------------------------------------
(* The extremes of a growing set of instants.                              *)

LEMMA InstantFacts == None \notin Nat /\ Nat \subseteq Instant /\ None \in Instant
<1>1. None \notin Int
  BY LifecycleAssumption
<1>2. Nat \subseteq Int
  OBVIOUS
<1> QED
  BY <1>1, <1>2 DEF Instant

LEMMA FirstOfMore ==
    ASSUME NEW S \in SUBSET Nat, NEW x \in Instant, NEW y \in Instant, IsFirst(x, S)
    PROVE  IsFirst(Earlier(x, y), (S \cup {y}) \ {None})
<1>1. x \in S \/ (x = None /\ S = {})
  BY DEF IsFirst
<1>2. CASE y = None
  <2>1. (S \cup {y}) \ {None} = S /\ Earlier(x, y) = x
    BY <1>1, <1>2, InstantFacts DEF Earlier
  <2> QED
    BY <2>1
<1>3. CASE y # None /\ x = None
  <2>1. (S \cup {y}) \ {None} = {y} /\ Earlier(x, y) = y /\ y \in Nat
    BY <1>1, <1>3, InstantFacts DEF Earlier, Instant
  <2> QED
    BY <2>1 DEF IsFirst
<1>4. CASE y # None /\ x # None
  <2>1. x \in S /\ x \in Nat /\ y \in Nat /\ \A z \in S : z \in Nat /\ x <= z
    BY <1>1, <1>4 DEF Instant, IsFirst
  <2>2. (S \cup {y}) \ {None} = S \cup {y}
    BY <1>4, InstantFacts
  <2>3. Earlier(x, y) = IF y < x THEN y ELSE x
    BY <1>4 DEF Earlier
  <2>4. Earlier(x, y) \in S \cup {y} /\ \A z \in S \cup {y} : Earlier(x, y) <= z
    BY <2>1, <2>3
  <2> QED
    BY <2>2, <2>4 DEF IsFirst
<1> QED
  BY <1>2, <1>3, <1>4

LEMMA LastOfMore ==
    ASSUME NEW S \in SUBSET Nat, NEW x \in Instant, NEW y \in Instant, IsLast(x, S)
    PROVE  IsLast(Later(x, y), (S \cup {y}) \ {None})
<1>1. x \in S \/ (x = None /\ S = {})
  BY DEF IsLast
<1>2. CASE y = None
  <2>1. (S \cup {y}) \ {None} = S /\ Later(x, y) = x
    BY <1>1, <1>2, InstantFacts DEF Later
  <2> QED
    BY <2>1
<1>3. CASE y # None /\ x = None
  <2>1. (S \cup {y}) \ {None} = {y} /\ Later(x, y) = y /\ y \in Nat
    BY <1>1, <1>3, InstantFacts DEF Later, Instant
  <2> QED
    BY <2>1 DEF IsLast
<1>4. CASE y # None /\ x # None
  <2>1. x \in S /\ x \in Nat /\ y \in Nat /\ \A z \in S : z \in Nat /\ z <= x
    BY <1>1, <1>4 DEF Instant, IsLast
  <2>2. (S \cup {y}) \ {None} = S \cup {y}
    BY <1>4, InstantFacts
  <2>3. Later(x, y) = IF y > x THEN y ELSE x
    BY <1>4 DEF Later
  <2>4. Later(x, y) \in S \cup {y} /\ \A z \in S \cup {y} : z <= Later(x, y)
    BY <2>1, <2>3
  <2> QED
    BY <2>2, <2>4 DEF IsLast
<1> QED
  BY <1>2, <1>3, <1>4

LEMMA ExtremesOfOne ==
    ASSUME NEW y \in Instant
    PROVE  IsFirst(y, {y} \ {None}) /\ IsLast(y, {y} \ {None})
<1>1. CASE y = None
  BY <1>1 DEF IsFirst, IsLast
<1>2. CASE y # None
  <2>1. {y} \ {None} = {y} /\ y \in Nat
    BY <1>2 DEF Instant
  <2> QED
    BY <2>1 DEF IsFirst, IsLast
<1> QED
  BY <1>1, <1>2

LEMMA EarlierLaterType ==
    ASSUME NEW x \in Instant, NEW y \in Instant
    PROVE  Earlier(x, y) \in Instant /\ Later(x, y) \in Instant
BY DEF Earlier, Later

-----------------------------------------------------------------------------
(* One row.                                                                *)

LEMMA EventFacts ==
    ASSUME NEW e \in Event
    PROVE  /\ e.trace \in Trace /\ e.span \in SpanId \cup {""} /\ e.attempt \in Nat
           /\ e.registered \in Instant /\ e.started \in Instant
           /\ e.processed \in Instant /\ e.acknowledged \in Instant
BY EventAssumption

\* What holds of every row of both tables, in a transaction or committed.
Sound(r) ==
    /\ r \in RowRecord
    /\ r.present => TimesOf(r) /\ FinalOf(r)

LEMMA InsertedIsSound ==
    ASSUME NEW e \in Event, NEW now \in Nat
    PROVE  Sound(Inserted(e, now))
<1> DEFINE r == Inserted(e, now)
<1>1. /\ r.from = {e} /\ r.attempt = e.attempt /\ r.outcome = e.outcome
      /\ r.consumer = e.consumer /\ r.registered = e.registered /\ r.started = e.started
      /\ r.processed = e.processed /\ r.acknowledged = e.acknowledged
  BY DEF Inserted
<1>2. r \in RowRecord
  BY EventFacts DEF Inserted, RowRecord
<1> HIDE DEF r
<1>3. TimesOf(r)
  <2>1. /\ {d.registered : d \in r.from} = {e.registered}
        /\ {d.started : d \in r.from} = {e.started}
        /\ {d.processed : d \in r.from} = {e.processed}
        /\ {d.acknowledged : d \in r.from} = {e.acknowledged}
    BY <1>1
  <2> QED
    BY <1>1, <2>1, EventFacts, ExtremesOfOne DEF TimesOf
<1>4. FinalOf(r)
  <2>1. Final(r) = {e}
    BY <1>1 DEF Final
  <2>2. {d.outcome : d \in Final(r)} = {e.outcome} /\ {d.consumer : d \in Final(r)} = {e.consumer}
    BY <2>1
  <2>3. \A d \in r.from : d.attempt <= r.attempt
    <3>1. e.attempt \in Nat
      BY EventFacts
    <3> QED
      BY <1>1, <3>1
  <2> QED
    BY <1>1, <2>1, <2>2, <2>3 DEF FinalOf
<1> QED
  BY <1>2, <1>3, <1>4 DEF Sound, r

LEMMA MergedTimes ==
    ASSUME NEW r \in RowRecord, TimesOf(r), NEW e \in Event, NEW now, NEW fills
    PROVE  TimesOf(Merged(r, e, now, fills))
<1> DEFINE m == Merged(r, e, now, fills)
<1>1. /\ m.from = r.from \cup {e}
      /\ m.registered = Earlier(r.registered, e.registered)
      /\ m.started = Earlier(r.started, e.started)
      /\ m.processed = Later(r.processed, e.processed)
      /\ m.acknowledged = Later(r.acknowledged, e.acknowledged)
  BY DEF Merged
<1> HIDE DEF m
<1>2. /\ r.from \subseteq Event
      /\ r.registered \in Instant /\ r.started \in Instant
      /\ r.processed \in Instant /\ r.acknowledged \in Instant
  BY DEF RowRecord
<1>3. /\ {d.registered : d \in r.from} \ {None} \in SUBSET Nat
      /\ {d.started : d \in r.from} \ {None} \in SUBSET Nat
      /\ {d.processed : d \in r.from} \ {None} \in SUBSET Nat
      /\ {d.acknowledged : d \in r.from} \ {None} \in SUBSET Nat
  BY <1>2, EventFacts DEF Instant
<1>4. IsFirst(m.registered, {d.registered : d \in m.from} \ {None})
  <2>1. {d.registered : d \in m.from} \ {None} =
        (({d.registered : d \in r.from} \ {None}) \cup {e.registered}) \ {None}
    BY <1>1
  <2>2. e.registered \in Instant /\ IsFirst(r.registered, {d.registered : d \in r.from} \ {None})
    BY EventFacts DEF TimesOf
  <2>3. IsFirst(Earlier(r.registered, e.registered),
              (({d.registered : d \in r.from} \ {None}) \cup {e.registered}) \ {None})
    BY <1>2, <1>3, <2>2, FirstOfMore
  <2> QED
    BY <1>1, <2>1, <2>3
<1>5. IsFirst(m.started, {d.started : d \in m.from} \ {None})
  <2>1. {d.started : d \in m.from} \ {None} =
        (({d.started : d \in r.from} \ {None}) \cup {e.started}) \ {None}
    BY <1>1
  <2>2. e.started \in Instant /\ IsFirst(r.started, {d.started : d \in r.from} \ {None})
    BY EventFacts DEF TimesOf
  <2>3. IsFirst(Earlier(r.started, e.started),
              (({d.started : d \in r.from} \ {None}) \cup {e.started}) \ {None})
    BY <1>2, <1>3, <2>2, FirstOfMore
  <2> QED
    BY <1>1, <2>1, <2>3
<1>6. IsLast(m.processed, {d.processed : d \in m.from} \ {None})
  <2>1. {d.processed : d \in m.from} \ {None} =
        (({d.processed : d \in r.from} \ {None}) \cup {e.processed}) \ {None}
    BY <1>1
  <2>2. e.processed \in Instant /\ IsLast(r.processed, {d.processed : d \in r.from} \ {None})
    BY EventFacts DEF TimesOf
  <2>3. IsLast(Later(r.processed, e.processed),
              (({d.processed : d \in r.from} \ {None}) \cup {e.processed}) \ {None})
    BY <1>2, <1>3, <2>2, LastOfMore
  <2> QED
    BY <1>1, <2>1, <2>3
<1>7. IsLast(m.acknowledged, {d.acknowledged : d \in m.from} \ {None})
  <2>1. {d.acknowledged : d \in m.from} \ {None} =
        (({d.acknowledged : d \in r.from} \ {None}) \cup {e.acknowledged}) \ {None}
    BY <1>1
  <2>2. e.acknowledged \in Instant /\ IsLast(r.acknowledged, {d.acknowledged : d \in r.from} \ {None})
    BY EventFacts DEF TimesOf
  <2>3. IsLast(Later(r.acknowledged, e.acknowledged),
              (({d.acknowledged : d \in r.from} \ {None}) \cup {e.acknowledged}) \ {None})
    BY <1>2, <1>3, <2>2, LastOfMore
  <2> QED
    BY <1>1, <2>1, <2>3
<1> QED
  BY <1>4, <1>5, <1>6, <1>7 DEF TimesOf, m

LEMMA MergedFinal ==
    ASSUME NEW r \in RowRecord, FinalOf(r), NEW e \in Event, NEW now, NEW fills
    PROVE  FinalOf(Merged(r, e, now, fills))
<1> DEFINE m == Merged(r, e, now, fills)
           newest == e.attempt >= r.attempt
<1>1. r.from \subseteq Event /\ r.attempt \in Nat /\ e.attempt \in Nat
      /\ \A d \in r.from : d.attempt \in Nat
  BY EventFacts DEF RowRecord
<1>2. /\ m.from = r.from \cup {e}
      /\ m.attempt = IF newest THEN e.attempt ELSE r.attempt
  BY DEF Merged
<1>3. /\ newest /\ e.outcome # "" => m.outcome = e.outcome
      /\ ~newest /\ r.outcome # "" => m.outcome = r.outcome
      /\ e.outcome = "" => m.outcome = r.outcome
  BY DEF Merged
<1>4. /\ newest /\ e.consumer # "" => m.consumer = e.consumer
      /\ ~newest /\ r.consumer # "" => m.consumer = r.consumer
      /\ e.consumer = "" => m.consumer = r.consumer
  BY DEF Merged
<1> HIDE DEF m
<1>5. \A d \in r.from : d.attempt <= r.attempt
  BY DEF FinalOf
<1>6. \A d \in m.from : d.attempt <= m.attempt
  BY <1>1, <1>2, <1>5
<1>7. Final(m) # {} /\
      (\/ /\ newest /\ e.attempt = r.attempt /\ Final(m) = Final(r) \cup {e}
       \/ /\ newest /\ Final(m) = {e}
       \/ /\ ~newest /\ Final(m) = Final(r))
  <2>1. CASE e.attempt > r.attempt
    BY <1>1, <1>2, <1>5, <2>1 DEF Final
  <2>2. CASE e.attempt = r.attempt
    BY <1>1, <1>2, <2>2 DEF Final
  <2>3. CASE e.attempt < r.attempt
    <3>1. Final(r) # {}
      BY DEF FinalOf
    <3> QED
      BY <1>1, <1>2, <2>3, <3>1 DEF Final
  <2> QED
    BY <1>1, <2>1, <2>2, <2>3
<1>8. ASSUME {d.outcome : d \in Final(m)} \ {""} # {}
      PROVE  m.outcome \in {d.outcome : d \in Final(m)} \ {""}
  <2>1. {d.outcome : d \in Final(r)} \ {""} # {} =>
           r.outcome \in {d.outcome : d \in Final(r)} \ {""}
    BY DEF FinalOf
  <2>2. CASE newest /\ e.outcome # ""
    <3>1. m.outcome = e.outcome /\ e \in Final(m)
      BY <1>3, <1>7, <2>2
    <3> QED
      BY <2>2, <3>1
  <2>3. CASE newest /\ e.outcome = ""
    <3>1. {d.outcome : d \in Final(m)} \ {""} = {d.outcome : d \in Final(r)} \ {""}
      BY <1>7, <1>8, <2>3
    <3> QED
      BY <1>3, <1>8, <2>1, <2>3, <3>1
  <2>4. CASE ~newest
    <3>1. {d.outcome : d \in Final(m)} = {d.outcome : d \in Final(r)}
      BY <1>7, <2>4
    <3> QED
      BY <1>3, <1>8, <2>1, <2>4, <3>1
  <2> QED
    BY <2>2, <2>3, <2>4
<1>9. ASSUME {d.consumer : d \in Final(m)} \ {""} # {}
      PROVE  m.consumer \in {d.consumer : d \in Final(m)} \ {""}
  <2>1. {d.consumer : d \in Final(r)} \ {""} # {} =>
           r.consumer \in {d.consumer : d \in Final(r)} \ {""}
    BY DEF FinalOf
  <2>2. CASE newest /\ e.consumer # ""
    <3>1. m.consumer = e.consumer /\ e \in Final(m)
      BY <1>4, <1>7, <2>2
    <3> QED
      BY <2>2, <3>1
  <2>3. CASE newest /\ e.consumer = ""
    <3>1. {d.consumer : d \in Final(m)} \ {""} = {d.consumer : d \in Final(r)} \ {""}
      BY <1>7, <1>9, <2>3
    <3> QED
      BY <1>4, <1>9, <2>1, <2>3, <3>1
  <2>4. CASE ~newest
    <3>1. {d.consumer : d \in Final(m)} = {d.consumer : d \in Final(r)}
      BY <1>7, <2>4
    <3> QED
      BY <1>4, <1>9, <2>1, <2>4, <3>1
  <2> QED
    BY <2>2, <2>3, <2>4
<1> QED
  BY <1>6, <1>7, <1>8, <1>9 DEF FinalOf, m

LEMMA UpsertedIsSound ==
    ASSUME NEW r, Sound(r), NEW e \in Event, NEW now \in Nat, NEW fills \in BOOLEAN
    PROVE  Sound(Upserted(r, e, now, fills))
<1>1. CASE ~r.present
  BY <1>1, InsertedIsSound DEF Upserted
<1>2. CASE r.present
  <2>1. r \in RowRecord /\ TimesOf(r) /\ FinalOf(r)
    BY <1>2 DEF Sound
  <2>2. Merged(r, e, now, fills) \in RowRecord
    BY <2>1, EventFacts, EarlierLaterType DEF Merged, RowRecord
  <2>3. TimesOf(Merged(r, e, now, fills)) /\ FinalOf(Merged(r, e, now, fills))
    BY <2>1, MergedTimes, MergedFinal
  <2> QED
    BY <1>2, <2>2, <2>3 DEF Upserted, Sound
<1>3. r.present \in BOOLEAN
  BY DEF Sound, RowRecord
<1> QED
  BY <1>1, <1>2

-----------------------------------------------------------------------------
(* The tables, and the inductive invariant: the rows of the tables and of  *)
(* the copy that a transaction works on are sound.                         *)

TablesSound(d) ==
    /\ d.life \in [Trace -> RowRecord] /\ \A t \in Trace : Sound(d.life[t])
    /\ d.span \in [Trace \X SpanId -> RowRecord]
    /\ \A key \in Trace \X SpanId : Sound(d.span[key])

IInv ==
    /\ clock \in Nat
    /\ request \in [Client -> [stage: {"none", "read", "storing"}, batch: Seq(Event), now: Nat]]
    /\ tx.rest \in Seq(Event) /\ tx.now \in Nat
    /\ TablesSound(db)
    /\ TablesSound(tx.db)

LEMMA NoRowIsSound == Sound(NoRow)
<1>1. None \in Instant /\ 0 \in Nat /\ {} \in SUBSET Event
  BY InstantFacts
<1>2. NoRow \in RowRecord
  BY <1>1 DEF NoRow, RowRecord
<1>3. ~NoRow.present
  BY DEF NoRow
<1> QED
  BY <1>2, <1>3 DEF Sound

LEMMA NoTablesSound == TablesSound(NoTables)
<1>1. NoRow \in RowRecord
  BY NoRowIsSound DEF Sound
<1> QED
  BY <1>1, NoRowIsSound DEF TablesSound, NoTables

LEMMA IngestedSound ==
    ASSUME NEW d, TablesSound(d), NEW e \in Event, NEW now \in Nat
    PROVE  TablesSound(Ingested(d, e, now))
<1> DEFINE key == <<e.trace, SpanOf(e)>>
           l == Upserted(d.life[e.trace], e, now, TRUE)
           s == Upserted(d.span[key], e, now, FALSE)
           n == Ingested(d, e, now)
<1>1. e.trace \in Trace /\ key \in Trace \X SpanId
  BY EventFacts, LifecycleAssumption DEF SpanOf
<1>2. Sound(d.life[e.trace]) /\ Sound(d.span[key])
  BY <1>1 DEF TablesSound
<1>3. Sound(l) /\ Sound(s)
  BY <1>2, UpsertedIsSound
<1>4. l \in RowRecord /\ s \in RowRecord
  BY <1>3 DEF Sound
<1>5. /\ n.life = IF AboutRequest(e) THEN [d.life EXCEPT ![e.trace] = l] ELSE d.life
      /\ n.span = [d.span EXCEPT ![key] = s]
  BY DEF Ingested
<1> HIDE DEF key, l, s, n
<1>6. n.life \in [Trace -> RowRecord] /\ \A t \in Trace : Sound(n.life[t])
  BY <1>1, <1>3, <1>4, <1>5 DEF TablesSound
<1>7. n.span \in [Trace \X SpanId -> RowRecord]
      /\ \A k \in Trace \X SpanId : Sound(n.span[k])
  BY <1>1, <1>3, <1>4, <1>5 DEF TablesSound
<1> QED
  BY <1>6, <1>7 DEF TablesSound, n

LEMMA NoTxFacts == NoTx.rest \in Seq(Event) /\ NoTx.now \in Nat /\ TablesSound(NoTx.db)
BY NoTablesSound DEF NoTx

LEMMA NoRequestType ==
    NoRequest \in [stage: {"none", "read", "storing"}, batch: Seq(Event), now: Nat]
BY DEF NoRequest

LEMMA InitIInv == Init => IInv
BY NoTablesSound, NoTxFacts, NoRequestType DEF Init, IInv

LEMMA NextIInv == IInv /\ [Next]_vars => IInv'
<1> SUFFICES ASSUME IInv, [Next]_vars PROVE IInv'
  OBVIOUS
<1> USE DEF IInv
<1>1. ASSUME NEW c \in Client, NEW b \in Batch, ReadBatch(c, b) PROVE IInv'
  <2>1. [stage |-> "read", batch |-> b, now |-> clock] \in
            [stage: {"none", "read", "storing"}, batch: Seq(Event), now: Nat]
    BY LifecycleAssumption
  <2> QED
    BY <1>1, <2>1 DEF ReadBatch
<1>2. ASSUME NEW c \in Client, BeginTransaction(c) PROVE IInv'
  <2>1. tx'.rest = request[c].batch /\ tx'.now = request[c].now /\ tx'.db = db
    BY <1>2 DEF BeginTransaction
  <2>2. request' \in [Client -> [stage: {"none", "read", "storing"}, batch: Seq(Event), now: Nat]]
    BY <1>2 DEF BeginTransaction
  <2>3. UNCHANGED <<clock, db>>
    BY <1>2 DEF BeginTransaction
  <2> QED
    BY <2>1, <2>2, <2>3
<1>3. CASE UpsertEvent
  <2>1. Head(tx.rest) \in Event /\ Tail(tx.rest) \in Seq(Event)
    BY <1>3 DEF UpsertEvent
  <2>2. TablesSound(Ingested(tx.db, Head(tx.rest), tx.now))
    BY <2>1, IngestedSound
  <2>3. tx' = [tx EXCEPT !.rest = Tail(@), !.db = Ingested(@, Head(tx.rest), tx.now)]
    BY <1>3 DEF UpsertEvent
  <2>4. UNCHANGED <<clock, db, request>>
    BY <1>3 DEF UpsertEvent
  <2> QED
    BY <2>1, <2>2, <2>3, <2>4
<1>4. CASE RollBack
  BY <1>4, NoTxFacts, NoRequestType DEF RollBack
<1>5. CASE Commit
  BY <1>5, NoTxFacts, NoRequestType DEF Commit
<1>6. CASE MaintainOperationalHistory
  <2>1. /\ db'.life = [t \in Trace |-> IF Expired(db.life[t]) THEN NoRow ELSE db.life[t]]
        /\ db'.span = [key \in Trace \X SpanId |->
                         IF Expired(db.span[key]) THEN NoRow ELSE db.span[key]]
        /\ UNCHANGED <<clock, request, tx>>
    BY <1>6 DEF MaintainOperationalHistory
  <2>2. NoRow \in RowRecord
    BY NoRowIsSound DEF Sound
  <2>3. TablesSound(db')
    BY <2>1, <2>2, NoRowIsSound DEF TablesSound
  <2> QED
    BY <2>1, <2>3
<1>7. CASE Tick
  BY <1>7 DEF Tick
<1>8. CASE StartListing \/ ListPage \/ UNCHANGED vars
  BY <1>8 DEF StartListing, ListPage, vars
<1>9. CASE Restart
  <2>1. /\ db'.life = db.life
        /\ db'.span = [key \in Trace \X SpanId |->
                         IF key[2] = Root /\ ~db.span[key].present
                         THEN db.life[key[1]] ELSE db.span[key]]
    BY <1>9 DEF Restart, TablesSound
  <2>2. TablesSound(db')
    <3>1. \A key \in Trace \X SpanId : key[1] \in Trace
      OBVIOUS
    <3>2. \A key \in Trace \X SpanId : Sound(db'.span[key]) /\ db'.span[key] \in RowRecord
      BY <2>1, <3>1 DEF TablesSound
    <3> QED
      BY <2>1, <3>2 DEF TablesSound
  <2>3. UNCHANGED clock /\ tx' = NoTx /\ request' = [c \in Client |-> NoRequest]
    BY <1>9 DEF Restart
  <2> QED
    BY <2>2, <2>3, NoTxFacts, NoRequestType
<1> QED
  BY <1>1, <1>2, <1>3, <1>4, <1>5, <1>6, <1>7, <1>8, <1>9 DEF Next

THEOREM Inductive == Spec => []IInv
<1> QED
  BY InitIInv, NextIInv, PTL DEF Spec

LEMMA RowsAreSound == IInv => \A r \in RowsOf(db) : Sound(r)
BY DEF IInv, TablesSound, RowsOf

-----------------------------------------------------------------------------
(* Types: with the tables of the invariant, the clock, the writer slot and *)
(* the listing.                                                            *)

TypeInv == IInv /\ TypeOK

LEMMA NoTablesType == NoTables \in Tables
BY NoRowIsSound DEF NoTables, Tables, Sound

TxRecord == [client: Client \cup {None}, rest: Seq(Event), now: Nat, db: Tables]

LEMMA NoTxType == NoTx \in TxRecord
BY NoTablesType DEF NoTx, TxRecord

ListingRecord == [stage: {"none", "first", "more", "done"}, last: Nat \X Nat,
                  seen: [Trace -> Nat], stable: SUBSET Trace]

LEMMA IngestedType ==
    ASSUME NEW d \in Tables, TablesSound(d), NEW e \in Event, NEW now \in Nat
    PROVE  Ingested(d, e, now) \in Tables
<1>1. e.trace \in Trace /\ <<e.trace, SpanOf(e)>> \in Trace \X SpanId
  BY EventFacts, LifecycleAssumption DEF SpanOf
<1>2. \A r, fills : Sound(r) /\ fills \in BOOLEAN => Upserted(r, e, now, fills) \in RowRecord
  BY UpsertedIsSound DEF Sound
<1>3. [d.life EXCEPT ![e.trace] = Upserted(@, e, now, TRUE)] \in [Trace -> RowRecord]
  BY <1>1, <1>2 DEF TablesSound
<1>4. [d.span EXCEPT ![<<e.trace, SpanOf(e)>>] = Upserted(@, e, now, FALSE)]
         \in [Trace \X SpanId -> RowRecord]
  BY <1>1, <1>2 DEF TablesSound
<1> QED
  BY <1>3, <1>4 DEF Ingested, Tables

LEMMA InitType == Init => TypeInv
<1> SUFFICES ASSUME Init PROVE TypeInv
  OBVIOUS
<1>0. IInv
  BY InitIInv
<1>1. clock \in 0..MaxClock
  <2>1. clock = 0 /\ MaxClock \in Nat
    BY LifecycleAssumption DEF Init
  <2> QED
    BY <2>1
<1>2. tx \in [client: Client \cup {None}, rest: Seq(Event), now: Nat, db: Tables]
  BY NoTablesType DEF Init, NoTx
<1>3. listing \in [stage: {"none", "first", "more", "done"}, last: Nat \X Nat,
                   seen: [Trace -> Nat], stable: SUBSET Trace]
  BY DEF Init, NoListing
<1> QED
  BY <1>0, <1>1, <1>2, <1>3, NoTablesType, NoRequestType DEF Init, TypeInv, TypeOK

LEMMA NextType == TypeInv /\ [Next]_vars => TypeInv'
<1> SUFFICES ASSUME TypeInv, [Next]_vars PROVE TypeInv'
  OBVIOUS
<1>1. IInv /\ IInv' /\ TypeOK
  BY NextIInv DEF TypeInv
<1> USE <1>1 DEF TypeOK
<1>2. db' \in Tables /\ tx' \in TxRecord
  <2>1. ASSUME NEW c \in Client, BeginTransaction(c) PROVE db' \in Tables /\ tx' \in TxRecord
    BY <2>1 DEF BeginTransaction, TxRecord
  <2>2. CASE UpsertEvent
    <3>1. Head(tx.rest) \in Event /\ Tail(tx.rest) \in Seq(Event)
      BY <2>2 DEF UpsertEvent
    <3>2. Ingested(tx.db, Head(tx.rest), tx.now) \in Tables
      BY <3>1, IngestedType DEF IInv
    <3> QED
      BY <2>2, <3>1, <3>2 DEF UpsertEvent, TxRecord
  <2>3. CASE RollBack \/ Commit
    BY <2>3, NoTxType DEF RollBack, Commit, TxRecord
  <2>4. CASE MaintainOperationalHistory
    <3>1. [t \in Trace |-> IF Expired(db.life[t]) THEN NoRow ELSE db.life[t]] \in [Trace -> RowRecord]
      BY NoRowIsSound DEF Sound, Tables
    <3>2. [key \in Trace \X SpanId |-> IF Expired(db.span[key]) THEN NoRow ELSE db.span[key]]
             \in [Trace \X SpanId -> RowRecord]
      BY NoRowIsSound DEF Sound, Tables
    <3> QED
      BY <2>4, <3>1, <3>2 DEF MaintainOperationalHistory, Tables, TxRecord
  <2>5. CASE Restart
    <3> DEFINE filled == [key \in Trace \X SpanId |->
                 IF key[2] = Root /\ ~db.span[key].present
                 THEN db.life[key[1]] ELSE db.span[key]]
    <3>1. \A key \in Trace \X SpanId : key[1] \in Trace
      OBVIOUS
    <3>2. filled \in [Trace \X SpanId -> RowRecord]
      BY <3>1 DEF Tables
    <3>3. db' = [db EXCEPT !.span = filled] /\ tx' = NoTx
      BY <2>5 DEF Restart
    <3> HIDE DEF filled
    <3> QED
      BY <3>2, <3>3, NoTxType DEF Tables
  <2>6. CASE UNCHANGED <<db, tx>>
    BY <2>6 DEF TxRecord
  <2> QED
    BY <2>1, <2>2, <2>3, <2>4, <2>5, <2>6
    DEF Next, vars, ReadBatch, Tick, StartListing, ListPage
<1>3. listing' \in ListingRecord
  <2>1. CASE StartListing
    BY <2>1 DEF StartListing, NoListing, ListingRecord, Present
  <2>2. CASE ListPage
    <3> DEFINE counted == [t \in Trace |-> listing.seen[t] + IF t \in PageOf(Remaining) THEN 1 ELSE 0]
    <3>1. counted \in [Trace -> Nat]
      OBVIOUS
    <3>2. \A t \in Trace : Key(db, t) \in Nat \X Nat
      BY LifecycleAssumption DEF Key, Tables, RowRecord
    <3>3. \/ listing' = [listing EXCEPT !.stage = "done", !.last = <<0, 0>>, !.seen = counted]
          \/ \E t \in Trace :
                listing' = [listing EXCEPT !.stage = "more", !.last = Key(db, t), !.seen = counted]
      BY <2>2, Zenon DEF ListPage
    <3>4. listing \in ListingRecord
      BY DEF ListingRecord
    <3> HIDE DEF counted
    <3>5. CASE listing' = [listing EXCEPT !.stage = "done", !.last = <<0, 0>>, !.seen = counted]
      BY <3>1, <3>4, <3>5 DEF ListingRecord
    <3>6. CASE \E t \in Trace :
                 listing' = [listing EXCEPT !.stage = "more", !.last = Key(db, t), !.seen = counted]
      <4>1. PICK t \in Trace :
              listing' = [listing EXCEPT !.stage = "more", !.last = Key(db, t), !.seen = counted]
        BY <3>6
      <4>2. Key(db, t) \in Nat \X Nat
        BY <3>2
      <4> QED
        BY <3>1, <3>4, <4>1, <4>2 DEF ListingRecord
    <3> QED
      BY <3>3, <3>5, <3>6
  <2>3. CASE UNCHANGED listing
    BY <2>3 DEF ListingRecord
  <2>4. CASE Commit \/ MaintainOperationalHistory
    <3>1. \E S \in SUBSET listing.stable : listing' = [listing EXCEPT !.stable = S]
      BY <2>4, Zenon DEF Commit, MaintainOperationalHistory
    <3> QED
      BY <3>1 DEF ListingRecord
  <2>6. CASE (\E c \in Client, b \in Batch : ReadBatch(c, b))
             \/ (\E c \in Client : BeginTransaction(c))
             \/ UpsertEvent \/ RollBack \/ Restart \/ Tick \/ UNCHANGED vars
    <3>1. UNCHANGED listing
      BY <2>6 DEF vars, ReadBatch, BeginTransaction, UpsertEvent, RollBack, Restart, Tick
    <3> QED
      BY <2>3, <3>1
  <2> QED
    BY <2>1, <2>2, <2>4, <2>6, Zenon DEF Next
<1>4. clock' \in 0..MaxClock
  <2>1. MaxClock \in Nat
    BY LifecycleAssumption
  <2>2. UNCHANGED clock \/ Tick
    BY DEF Next, vars, ReadBatch, BeginTransaction, UpsertEvent, RollBack, Commit,
           MaintainOperationalHistory, Restart, StartListing, ListPage
  <2>3. UNCHANGED clock \/ (clock < MaxClock /\ clock' = clock + 1)
    BY <2>2 DEF Tick
  <2> QED
    BY <2>1, <2>3
<1> QED
  BY <1>1, <1>2, <1>3, <1>4 DEF TypeInv, IInv, TxRecord, ListingRecord

(* Every reachable state is well typed, for any events, batches and        *)
(* requests in progress.                                                   *)
THEOREM TypeCorrect == Spec => []TypeOK
<1>1. TypeInv => TypeOK
  BY DEF TypeInv
<1> QED
  BY <1>1, InitType, NextType, PTL DEF Spec

-----------------------------------------------------------------------------
(* For any services, events, batches and order of arrival: the times of a  *)
(* request and of a span are the extremes of what was reported.            *)
THEOREM TimesAreOrderFree == Spec => []TimesAreExtremes
<1>1. IInv => TimesAreExtremes
  BY RowsAreSound DEF Sound, TimesAreExtremes
<1> QED
  BY <1>1, Inductive, PTL

(* For any services, events, batches and order of arrival: no event of an  *)
(* earlier attempt replaces what the last attempt has said.                *)
THEOREM LastAttemptWins == Spec => []FinalAttemptStands
<1>1. IInv => FinalAttemptStands
  BY RowsAreSound DEF Sound, FinalAttemptStands
<1> QED
  BY <1>1, Inductive, PTL

-----------------------------------------------------------------------------
(* Pages. The keys of a table are in one order without ties, a page is an  *)
(* upper part of what remains, and the cursor is its end.                  *)

KeyPair == Nat \X Nat

LEMMA BelowIsOrder ==
    ASSUME NEW x \in KeyPair, NEW y \in KeyPair, NEW z \in KeyPair
    PROVE  /\ ~Below(x, x)
           /\ Below(x, y) /\ Below(y, z) => Below(x, z)
           /\ x = y \/ Below(x, y) \/ Below(y, x)
BY DEF Below, KeyPair

LEMMA KeyFacts ==
    ASSUME TypeOK, NEW t \in Trace
    PROVE  /\ Key(db, t) \in KeyPair
           /\ \A u \in Trace : Key(db, t) = Key(db, u) => t = u
<1>1. t \in Nat /\ db.life[t].updated \in Nat
  BY LifecycleAssumption DEF TypeOK, Tables, RowRecord
<1>2. QED
  BY <1>1 DEF Key, KeyPair

LEMMA FiniteTraces ==
    ASSUME NEW S \in SUBSET Trace
    PROVE  IsFiniteSet(S) /\ Cardinality(S) \in Nat
<1>1. IsFiniteSet(Trace)
  BY LifecycleAssumption
<1>2. IsFiniteSet(S)
  BY <1>1, FS_Subset
<1>3. QED
  BY <1>2, FS_CardinalityType

Above(t, S) == {u \in S : Below(Key(db, t), Key(db, u))}

\* What fits in a page is on it.
LEMMA LastPage ==
    ASSUME TypeOK, NEW S \in SUBSET Trace, Cardinality(S) <= Limit
    PROVE  PageOf(S) = S
<1>1. Limit \in Nat
  BY LifecycleAssumption
<1>2. ASSUME NEW t \in S
      PROVE  Cardinality(Above(t, S)) < Limit
  <2>1. Above(t, S) \in SUBSET S /\ Above(t, S) \in SUBSET Trace
    BY DEF Above
  <2>2. t \notin Above(t, S)
    BY KeyFacts, BelowIsOrder DEF Above
  <2>3. IsFiniteSet(S) /\ Cardinality(S) \in Nat /\ Cardinality(Above(t, S)) \in Nat
    BY <2>1, FiniteTraces
  <2>4. Cardinality(Above(t, S)) <= Cardinality(S) /\ Cardinality(S) # Cardinality(Above(t, S))
    BY <2>1, <2>2, <2>3, FS_Subset
  <2>5. QED
    BY <1>1, <2>3, <2>4
<1>3. QED
  BY <1>2 DEF PageOf, Above

\* With the lowest of a page as the cursor, what is not on the page is below it.
LEMMA CursorDivides ==
    ASSUME TypeOK, NEW S \in SUBSET Trace, NEW t, IsLowest(t, PageOf(S)), NEW u \in S
    PROVE  /\ t \in S
           /\ u \in PageOf(S) <=> ~Below(Key(db, u), Key(db, t))
<1>1. t \in S /\ t \in Trace /\ Cardinality(Above(t, S)) < Limit
  BY DEF IsLowest, PageOf, Above
<1>2. u \in PageOf(S) => ~Below(Key(db, u), Key(db, t))
  BY DEF IsLowest
<1>3. ASSUME ~Below(Key(db, u), Key(db, t))
      PROVE  u \in PageOf(S)
  <2>1. u = t \/ Below(Key(db, t), Key(db, u))
    BY <1>1, <1>3, KeyFacts, BelowIsOrder
  <2>2. Above(u, S) \subseteq Above(t, S)
    <3>1. ASSUME NEW v \in S, Below(Key(db, t), Key(db, u)), Below(Key(db, u), Key(db, v))
          PROVE  Below(Key(db, t), Key(db, v))
      <4>1. Key(db, t) \in KeyPair /\ Key(db, u) \in KeyPair /\ Key(db, v) \in KeyPair
        BY <1>1, KeyFacts
      <4>2. QED
        BY <3>1, <4>1, BelowIsOrder
    <3>2. QED
      BY <2>1, <3>1 DEF Above
  <2>3. Above(t, S) \in SUBSET Trace /\ Above(u, S) \in SUBSET Trace
    BY DEF Above
  <2>4. Cardinality(Above(u, S)) <= Cardinality(Above(t, S))
    BY <2>2, <2>3, FiniteTraces, FS_Subset
  <2>5. Cardinality(Above(u, S)) \in Nat /\ Cardinality(Above(t, S)) \in Nat
    BY <2>3, FiniteTraces
  <2>6. Limit \in Nat
    BY LifecycleAssumption
  <2>7. Cardinality(Above(u, S)) < Limit
    BY <1>1, <2>4, <2>5, <2>6
  <2>8. QED
    BY <2>7 DEF PageOf, Above
<1>4. QED
  BY <1>1, <1>2, <1>3

-----------------------------------------------------------------------------
(* The invariant of a listing: what stands still was shown, or is to come. *)

ToCome(t) ==
    \/ listing.stage = "first"
    \/ listing.stage = "more" /\ Below(Key(db, t), listing.last)

Paged ==
    \A t \in listing.stable :
       /\ listing.stage # "none"
       /\ db.life[t].present
       /\ listing.seen[t] = IF ToCome(t) THEN 0 ELSE 1

\* A step that does not page and changes no row that counts as standing still.
LEMMA StandsStill ==
    ASSUME Paged, listing' = [listing EXCEPT !.stable = listing'.stable], TypeOK,
           listing'.stable \subseteq listing.stable,
           \A t \in listing'.stable : db'.life[t] = db.life[t]
    PROVE  Paged'
<1>1. /\ listing'.stage = listing.stage /\ listing'.last = listing.last
      /\ listing'.seen = listing.seen
  BY DEF TypeOK
<1>2. ASSUME NEW t \in listing'.stable
      PROVE  /\ t \in listing.stable /\ db'.life[t] = db.life[t]
             /\ ToCome(t)' <=> ToCome(t)
  BY <1>1, <1>2 DEF ToCome, Key
<1>3. QED
  BY <1>1, <1>2 DEF Paged

LEMMA ListPageKeeps ==
    ASSUME TypeOK, Paged, ListPage
    PROVE  Paged'
<1> DEFINE S == Remaining
           counted == [t \in Trace |-> listing.seen[t] + IF t \in PageOf(S) THEN 1 ELSE 0]
<1>1. /\ S \in SUBSET Trace /\ UNCHANGED db
      /\ listing.stage \in {"first", "more"}
      /\ listing.stable \subseteq Trace
  BY DEF Remaining, Present, ListPage, TypeOK
<1>2. ASSUME NEW t \in listing.stable
      PROVE  /\ t \in Trace /\ db.life[t].present
             /\ t \in S <=> ToCome(t)
             /\ listing.seen[t] = IF t \in S THEN 0 ELSE 1
             /\ counted[t] = IF t \in S /\ t \notin PageOf(S) THEN 0 ELSE 1
  <2>1. t \in Trace /\ db.life[t].present
    BY <1>1, <1>2 DEF Paged
  <2>2. t \in S <=> ToCome(t)
    BY <1>1, <2>1 DEF Remaining, Present, ToCome
  <2>3. listing.seen[t] = IF t \in S THEN 0 ELSE 1
    BY <1>2, <2>2 DEF Paged
  <2>4. t \in PageOf(S) => t \in S
    BY DEF PageOf
  <2>5. counted[t] = IF t \in S /\ t \notin PageOf(S) THEN 0 ELSE 1
    BY <2>1, <2>3, <2>4
  <2>6. QED
    BY <2>1, <2>2, <2>3, <2>5
<1>3. \/ /\ ~(Cardinality(S) > Limit)
         /\ listing' = [listing EXCEPT !.stage = "done", !.last = <<0, 0>>, !.seen = counted]
      \/ \E t \in Trace :
            /\ IsLowest(t, PageOf(S))
            /\ listing' = [listing EXCEPT !.stage = "more", !.last = Key(db, t), !.seen = counted]
  BY DEF ListPage
<1> HIDE DEF S, counted
<1>4. CASE /\ ~(Cardinality(S) > Limit)
           /\ listing' = [listing EXCEPT !.stage = "done", !.last = <<0, 0>>, !.seen = counted]
  <2>1. /\ listing'.stage = "done" /\ listing'.seen = counted
        /\ listing'.stable = listing.stable
    BY <1>4 DEF TypeOK
  <2>2. PageOf(S) = S
    <3>1. Cardinality(S) \in Nat
      BY <1>1, FiniteTraces
    <3>2. Limit \in Nat
      BY LifecycleAssumption
    <3>3. Cardinality(S) <= Limit
      BY <1>4, <3>1, <3>2
    <3>4. QED
      BY <1>1, <3>3, LastPage
  <2>3. QED
    BY <1>1, <1>2, <2>1, <2>2 DEF Paged, ToCome
<1>5. ASSUME NEW t \in Trace, IsLowest(t, PageOf(S)),
             listing' = [listing EXCEPT !.stage = "more", !.last = Key(db, t), !.seen = counted]
      PROVE  Paged'
  <2>1. /\ listing'.stage = "more" /\ listing'.seen = counted /\ listing'.last = Key(db, t)
        /\ listing'.stable = listing.stable
    BY <1>5 DEF TypeOK
  <2>2. ASSUME NEW u \in listing.stable
        PROVE  (u \in S /\ u \notin PageOf(S)) <=> Below(Key(db, u), Key(db, t))
    <3>1. u \in Trace
      BY <1>2
    <3>2. CASE u \in S
      BY <1>1, <1>5, <3>2, CursorDivides
    <3>3. CASE u \notin S
      <4>1. t \in S
        BY <1>5 DEF IsLowest, PageOf
      <4>2. listing.stage = "more" /\ ~Below(Key(db, u), listing.last)
        BY <1>1, <1>2, <3>3 DEF ToCome
      <4>3. Below(Key(db, t), listing.last)
        BY <4>1, <4>2 DEF S, Remaining
      <4>4. Key(db, u) \in KeyPair /\ Key(db, t) \in KeyPair /\ listing.last \in KeyPair
        BY <3>1, KeyFacts DEF TypeOK, KeyPair
      <4>5. ~Below(Key(db, u), Key(db, t))
        BY <4>2, <4>3, <4>4, BelowIsOrder
      <4>6. QED
        BY <3>3, <4>5
    <3>4. QED
      BY <3>2, <3>3
  <2>3. \A u \in listing.stable : Key(db', u) = Key(db, u)
    BY <1>1 DEF Key
  <2>4. QED
    BY <1>1, <1>2, <2>1, <2>2, <2>3 DEF Paged, ToCome
<1>6. QED
  BY <1>3, <1>4, <1>5

LEMMA NextPaged == TypeOK /\ Paged /\ [Next]_vars => Paged'
<1> SUFFICES ASSUME TypeOK, Paged, [Next]_vars
             PROVE  Paged'
  OBVIOUS
<1>1. CASE Commit
  <2>1. /\ db' = tx.db
        /\ listing' = [listing EXCEPT !.stable = {t \in @ : tx.db.life[t] = db.life[t]}]
    BY <1>1 DEF Commit
  <2>2. listing'.stable = {t \in listing.stable : tx.db.life[t] = db.life[t]}
    BY <2>1 DEF TypeOK
  <2>3. QED
    BY <2>1, <2>2, StandsStill
<1>2. CASE MaintainOperationalHistory
  <2>1. /\ db'.life = [t \in Trace |-> IF Expired(db.life[t]) THEN NoRow ELSE db.life[t]]
        /\ listing' = [listing EXCEPT !.stable = {t \in @ : ~Expired(db.life[t])}]
    BY <1>2 DEF MaintainOperationalHistory
  <2>2. listing'.stable = {t \in listing.stable : ~Expired(db.life[t])}
        /\ listing.stable \subseteq Trace
    BY <2>1 DEF TypeOK
  <2>3. QED
    BY <2>1, <2>2, StandsStill
<1>3. CASE StartListing
  <2>1. /\ listing' = [NoListing EXCEPT !.stage = "first", !.stable = Present(db)]
        /\ UNCHANGED db
    BY <1>3 DEF StartListing
  <2>2. /\ listing'.stage = "first" /\ listing'.stable = Present(db)
        /\ listing'.seen = [t \in Trace |-> 0]
    BY <2>1 DEF NoListing
  <2>3. QED
    BY <2>1, <2>2 DEF Paged, ToCome, Present
<1>4. CASE /\ listing' = listing
           /\ db'.life = db.life
  BY <1>4, StandsStill DEF TypeOK
<1>5. ASSUME Next, ~Commit, ~MaintainOperationalHistory, ~StartListing, ~ListPage
      PROVE  listing' = listing /\ db'.life = db.life
  BY <1>5 DEF Next, ReadBatch, BeginTransaction, UpsertEvent, RollBack, Restart, Tick, TypeOK, Tables
<1>6. CASE UNCHANGED vars
  BY <1>4, <1>6 DEF vars
<1>7. QED
  BY <1>1, <1>2, <1>3, <1>4, <1>5, <1>6, ListPageKeeps

(* For any number of rows, size of a page and order of writes: what was    *)
(* stored when a listing began and is not touched before it ends is on one *)
(* page and only on one, as the cursor is a key without ties and a row     *)
(* that is written or pruned moves no other one (lifecycle.go).            *)
THEOREM StandingRowsListedOnce == Spec => []ListedOnce
<1>1. Init => Paged
  BY DEF Init, NoListing, Paged
<1>2. TypeOK /\ Paged /\ [Next]_vars => Paged'
  BY NextPaged
<1>3. Paged => ListedOnce
  BY DEF Paged, ListedOnce, ToCome
<1>4. QED
  BY <1>1, <1>2, <1>3, TypeCorrect, PTL DEF Spec
=============================================================================
