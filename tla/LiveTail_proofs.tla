-------------------------- MODULE LiveTail_proofs --------------------------
(***************************************************************************)
(* For any streams, clients, goroutines, limit, sizes of pages and         *)
(* channels, entries and resets: nothing but what a full channel drops is  *)
(* missed, and no worker reads outside the limit.                          *)
(*                                                                         *)
(* The limit is a fact about the map alone; that the workers that read are *)
(* those in the map (Maps) needs every way out of it to go with the end or *)
(* the cancelling of that very worker.  A client is handed what its worker *)
(* reads without a gap (NoGap) because a read goes on after the last id    *)
(* (GoesOn) and a worker is forgotten only when nobody follows it          *)
(* (Follows).                                                              *)
(***************************************************************************)
EXTENDS LiveTail, FiniteSetTheorems, WellFoundedInduction, TLAPS

Stages == {"unused", "idle", "reading", "delivering", "ended"}

WorkerRecord ==
    [stage: Stages, key: Key \cup {None}, last: Nat \cup {None}, next: Nat, upTo: Nat,
     cancelled: BOOLEAN, subs: SUBSET Client]

TailRecord ==
    [worker: Worker \cup {None}, after: Start, sent: Seq(Nat), queued: Nat, dropped: SUBSET Nat]

TypeInv ==
    /\ length \in [Key -> Nat]
    /\ mapped \in [Key -> Worker \cup {None}]
    /\ worker \in [Worker -> WorkerRecord]
    /\ tail \in [Client -> TailRecord]
    /\ doomed \in SUBSET Worker

\* A stream is mapped to the worker that reads it, and no other one reads but
\* those that are cancelled or about to be.
Maps ==
    /\ \A k \in Key : mapped[k] # None =>
          /\ Running(mapped[k]) /\ ~worker[mapped[k]].cancelled
          /\ worker[mapped[k]].key = k
          /\ mapped[k] \notin doomed
    /\ \A w \in Worker : Running(w) =>
          /\ worker[w].key \in Key
          /\ worker[w].cancelled \/ w \in doomed \/ mapped[worker[w].key] = w

Bounded == Cardinality(Mapped) <= MaxWorkers

\* A client follows the worker it subscribes to.
Follows ==
    /\ \A c \in Client : tail[c].worker = None => tail[c] = NoTail
    /\ \A c \in Client : \A w \in Worker : tail[c].worker = w <=> c \in worker[w].subs
    /\ \A w \in Worker : worker[w].stage = "unused" => worker[w].subs = {}

\* A read goes on after the last id.
GoesOn ==
    \A w \in Worker :
       worker[w].stage \in {"reading", "delivering"} /\ worker[w].last # None =>
          worker[w].next = worker[w].last + 1

Handed(c) == ToSet(tail[c].sent) \cup tail[c].dropped

\* What was handed to a client goes up to the worker's last entry without a gap.
UpTo(c, last) ==
    /\ tail[c].after # None \/ Handed(c) # {} => last # None
    /\ \A i, j \in DOMAIN tail[c].sent : i < j => tail[c].sent[i] < tail[c].sent[j]
    /\ ToSet(tail[c].sent) \cap tail[c].dropped = {}
    /\ tail[c].after # None => tail[c].after + 1..last \subseteq Handed(c)
    /\ \A id \in Handed(c) : id <= last /\ id..last \subseteq Handed(c)

NoGap == \A c \in Client : Following(c) => UpTo(c, worker[tail[c].worker].last)

Rest == Maps /\ Bounded /\ Follows /\ GoesOn /\ NoGap

\* The inductive invariant.
IInv == TypeInv /\ Rest

-----------------------------------------------------------------------------
\* The lowest goroutine that is free.
LEMMA LowestIsFree ==
    ASSUME Free # {}
    PROVE  LowestFree \in Free
<1>1. Free \subseteq Worker /\ Free \subseteq Nat
  BY TailAssumption DEF Free
<1>2. PICK w \in Free : \A v \in Free : <<v, w>> \notin OpToRel(<, Nat)
  BY <1>1, NatLessThanWellFounded, WFMin
<1>3. \A v \in Free : ~(v < w)
  BY <1>1, <1>2 DEF OpToRel
<1>4. \A v \in Free : w <= v
  BY <1>1, <1>3
<1> QED
  BY <1>4 DEF LowestFree

LEMMA FreeIsUnused ==
    ASSUME TypeInv, Free # {}
    PROVE  /\ LowestFree \in Worker /\ worker[LowestFree] = Unused
           /\ LowestFree \notin doomed /\ LowestFree # None
BY LowestIsFree, TailAssumption DEF Free

LEMMA InitIInv ==
    ASSUME Init
    PROVE  IInv
<1>1. TypeInv
  BY TailAssumption DEF Init, TypeInv, WorkerRecord, TailRecord, Unused, NoTail, Stages, Start
<1>2. Mapped = {}
  BY DEF Init, Mapped
<1>3. Bounded
  BY <1>2, FS_EmptySet, TailAssumption DEF Bounded
<1>4. Maps /\ Follows /\ GoesOn /\ NoGap
  BY TailAssumption DEF Init, Maps, Follows, GoesOn, NoGap, Running, Following, Unused, NoTail
<1> QED
  BY <1>1, <1>3, <1>4 DEF IInv, Rest

-----------------------------------------------------------------------------
(* Types.                                                                  *)

LEMMA FieldTypes ==
    ASSUME NEW n \in Nat
    PROVE  /\ \A r \in WorkerRecord, m \in Nat :
                [r EXCEPT !.last = n, !.next = m] \in WorkerRecord
           /\ \A t \in TailRecord : [t EXCEPT !.queued = n] \in TailRecord
           /\ \A t \in TailRecord, s \in Seq(Nat) :
                [t EXCEPT !.sent = s, !.queued = n] \in TailRecord
           /\ \A t \in TailRecord, S \in SUBSET Nat : [t EXCEPT !.dropped = S] \in TailRecord
BY DEF WorkerRecord, TailRecord

NewWorker(k, start, c) == [Unused EXCEPT !.stage = "idle", !.key = k, !.last = start, !.subs = {c}]

LEMMA NewWorkerType ==
    ASSUME NEW k \in Key, NEW start \in Start, NEW c \in Client
    PROVE  /\ NewWorker(k, start, c) \in WorkerRecord
           /\ NewWorker(k, start, c).stage = "idle" /\ NewWorker(k, start, c).key = k
           /\ NewWorker(k, start, c).last = start /\ NewWorker(k, start, c).subs = {c}
           /\ ~NewWorker(k, start, c).cancelled
<1>1. Unused \in WorkerRecord /\ ~Unused.cancelled
  BY DEF Unused, WorkerRecord, Stages
<1>2. start \in Nat \cup {None} /\ {c} \in SUBSET Client
  BY DEF Start
<1> QED
  BY <1>1, <1>2 DEF NewWorker, WorkerRecord, Stages

\* What a worker goes on with, and what is kept of it.
LEMMA KeptType ==
    ASSUME NEW r \in WorkerRecord
    PROVE  Kept(r) \in WorkerRecord
BY TailAssumption DEF Kept, Unused, WorkerRecord, Stages

LEMMA UnmapType ==
    ASSUME TypeInv, NEW k, NEW w
    PROVE  Unmap(k, w) \in [Key -> Worker \cup {None}]
BY DEF TypeInv, Unmap

LEMMA TailStepType ==
    ASSUME TypeInv, NEW c \in Client, TailStep(c)
    PROVE  TypeInv'
<1>1. ASSUME NEW k \in Key, NEW start \in Start, SubscribeFirst(c, k, start)
      PROVE  TypeInv'
  <2>1. Free # {} /\ LowestFree \in Worker
    BY <1>1, FreeIsUnused DEF SubscribeFirst
  <2>2. worker' = [worker EXCEPT ![LowestFree] = NewWorker(k, start, c)]
    BY <1>1 DEF SubscribeFirst, NewWorker
  <2>3. /\ mapped' \in [Key -> Worker \cup {None}]
        /\ worker' \in [Worker -> WorkerRecord]
    BY <1>1, <2>1, <2>2, NewWorkerType DEF SubscribeFirst, TypeInv
  <2>4. tail' \in [Client -> TailRecord]
    BY <1>1, <2>1 DEF SubscribeFirst, TypeInv, TailRecord
  <2> QED
    BY <1>1, <2>3, <2>4 DEF SubscribeFirst, TypeInv
<1>2. ASSUME NEW k \in Key, SubscribeNext(c, k)
      PROVE  TypeInv'
  <2>1. mapped[k] \in Worker
    BY <1>2 DEF SubscribeNext, TypeInv
  <2>2. worker' \in [Worker -> WorkerRecord]
    BY <1>2, <2>1 DEF SubscribeNext, TypeInv, WorkerRecord
  <2>3. tail' \in [Client -> TailRecord]
    BY <1>2, <2>1 DEF SubscribeNext, TypeInv, TailRecord
  <2> QED
    BY <1>2, <2>2, <2>3 DEF SubscribeNext, TypeInv
<1>3. CASE TakeEvent(c)
  <2>1. [tail[c] EXCEPT !.queued = tail[c].queued - 1] \in TailRecord
    <3>1. tail[c] \in TailRecord
      BY DEF TypeInv
    <3>2. tail[c].queued - 1 \in Nat
      BY <1>3, <3>1 DEF TakeEvent, TailRecord
    <3> QED
      BY <3>1, <3>2, FieldTypes
  <2>2. tail' = [tail EXCEPT ![c] = [tail[c] EXCEPT !.queued = tail[c].queued - 1]]
    BY <1>3, <2>1 DEF TakeEvent
  <2> QED
    BY <1>3, <2>1, <2>2 DEF TakeEvent, TypeInv
<1>4. CASE Cancel(c)
  <2> DEFINE w == tail[c].worker
             left == worker[w].subs \ {c}
             r == [worker[w] EXCEPT !.subs = left, !.cancelled = worker[w].cancelled \/ left = {}]
  <2>1. w \in Worker /\ worker[w] \in WorkerRecord
    BY <1>4 DEF Cancel, Following, TypeInv, TailRecord
  <2>2. r \in WorkerRecord
    BY <2>1 DEF WorkerRecord
  <2>3. Kept(r) \in WorkerRecord
    BY <2>2, KeptType
  <2>4. worker' = [worker EXCEPT ![w] = Kept(r)]
    BY <1>4, Zenon DEF Cancel
  <2>5. worker' \in [Worker -> WorkerRecord]
    BY <2>1, <2>3, <2>4 DEF TypeInv
  <2>6. tail' \in [Client -> TailRecord]
    BY <1>4, TailAssumption DEF Cancel, TypeInv, TailRecord, NoTail, Start
  <2>7. mapped' \in [Key -> Worker \cup {None}]
    BY <1>4, UnmapType DEF Cancel, TypeInv
  <2> QED
    BY <1>4, <2>5, <2>6, <2>7 DEF Cancel, TypeInv
<1> QED
  BY <1>1, <1>2, <1>3, <1>4 DEF TailStep

LEMMA GoOnType ==
    ASSUME TypeInv, NEW w \in Worker, GoOn(w)
    PROVE  TypeInv'
<1> DEFINE r == [worker[w] EXCEPT !.stage = IF worker[w].cancelled THEN "ended" ELSE "idle",
                                  !.next = 0, !.upTo = 0]
<1>1. r \in WorkerRecord
  BY DEF TypeInv, WorkerRecord, Stages
<1>2. Kept(r) \in WorkerRecord
  BY <1>1, KeptType
<1>3. worker' = [worker EXCEPT ![w] = Kept(r)]
  BY DEF GoOn
<1>4. worker' \in [Worker -> WorkerRecord]
  BY <1>2, <1>3 DEF TypeInv
<1>5. mapped' \in [Key -> Worker \cup {None}]
  BY UnmapType DEF GoOn, TypeInv
<1> QED
  BY <1>4, <1>5 DEF GoOn, TypeInv

LEMMA WorkerStepType ==
    ASSUME TypeInv, Maps, NEW w \in Worker, WorkerStep(w)
    PROVE  TypeInv'
<1>1. worker[w] \in WorkerRecord /\ (Running(w) => length[worker[w].key] \in Nat)
  BY DEF TypeInv, Maps
<1>2. CASE StartRead(w)
  <2>1. 1 + (IF worker[w].last = None THEN length[worker[w].key] ELSE worker[w].last) \in Nat
    BY <1>1, <1>2 DEF StartRead, Running, WorkerRecord
  <2> QED
    BY <1>1, <1>2, <2>1 DEF StartRead, TypeInv, WorkerRecord, Stages
<1>3. CASE ReadEntries(w)
  <2>1. length[worker[w].key] \in Nat /\ worker[w].next \in Nat /\ PageSize \in Nat \ {0}
    BY <1>1, <1>3, TailAssumption DEF ReadEntries, Running, WorkerRecord
  <2>2. Least(length[worker[w].key], worker[w].next + PageSize - 1) \in Nat
    BY <2>1 DEF Least
  <2> QED
    BY <1>1, <1>3, <2>2 DEF ReadEntries, TypeInv, WorkerRecord, Stages
<1>4. CASE ReadNothing(w) \/ EndPage(w)
  BY <1>4, GoOnType DEF ReadNothing, EndPage
<1>5. CASE HandOut(w)
  <2>1. worker[w].next \in Nat
    BY <1>1 DEF WorkerRecord
  <2>2. worker' \in [Worker -> WorkerRecord]
    <3> DEFINE id == worker[w].next
    <3>1. [worker[w] EXCEPT !.last = id, !.next = id + 1] \in WorkerRecord
      <4>1. id \in Nat /\ id + 1 \in Nat
        BY <2>1
      <4> HIDE DEF id
      <4> QED
        BY <1>1, <4>1, FieldTypes
    <3>2. worker' = [worker EXCEPT ![w] = [worker[w] EXCEPT !.last = id, !.next = id + 1]]
      BY <1>5 DEF HandOut
    <3> QED
      BY <3>1, <3>2 DEF TypeInv
  <2>3. \A c \in Client : tail[c] \in TailRecord
    BY DEF TypeInv
  <2>4. tail' \in [Client -> TailRecord]
    <3> DEFINE id == worker[w].next
    <3>1. ASSUME NEW c \in Client
          PROVE  /\ [tail[c] EXCEPT !.sent = Append(tail[c].sent, id), !.queued = tail[c].queued + 1]
                      \in TailRecord
                 /\ [tail[c] EXCEPT !.dropped = tail[c].dropped \cup {id}] \in TailRecord
      <4>1. /\ Append(tail[c].sent, id) \in Seq(Nat) /\ tail[c].queued + 1 \in Nat
            /\ tail[c].dropped \cup {id} \in SUBSET Nat
        BY <2>1, <2>3 DEF TailRecord
      <4> QED
        BY <2>3, <4>1, FieldTypes
    <3>2. \A c \in Client : tail'[c] \in {tail[c],
              [tail[c] EXCEPT !.sent = Append(tail[c].sent, id), !.queued = tail[c].queued + 1],
              [tail[c] EXCEPT !.dropped = tail[c].dropped \cup {id}]}
      BY <1>5 DEF HandOut
    <3>3. tail' = [c \in Client |-> tail'[c]]
      BY <1>5 DEF HandOut
    <3> QED
      BY <2>3, <3>1, <3>2, <3>3
  <2> QED
    BY <1>5, <2>2, <2>4 DEF HandOut, TypeInv
<1> QED
  BY <1>2, <1>3, <1>4, <1>5 DEF WorkerStep

LEMMA NextType ==
    ASSUME TypeInv, Maps, [Next]_vars
    PROVE  TypeInv'
<1>1. ASSUME NEW k \in Key, AddEntry(k)
      PROVE  TypeInv'
  <2>1. length' = [length EXCEPT ![k] = @ + 1] /\ UNCHANGED <<mapped, worker, tail, resets, doomed>>
    BY <1>1, Zenon DEF AddEntry
  <2> QED
    BY <2>1 DEF TypeInv
<1>2. ASSUME NEW w \in Worker, CancelDoomed(w)
      PROVE  TypeInv'
  BY <1>2 DEF CancelDoomed, TypeInv, WorkerRecord
<1>3. CASE Reset
  BY <1>3 DEF Reset, TypeInv, Mapped
<1>4. CASE UNCHANGED vars
  BY <1>4 DEF vars, TypeInv
<1> QED
  BY <1>1, <1>2, <1>3, <1>4, TailStepType, WorkerStepType DEF Next

-----------------------------------------------------------------------------
(* What leaves each part of the invariant alone.                           *)

\* No worker starts, stops, is cancelled or changes its stream.
LEMMA SameMaps ==
    ASSUME TypeInv, Maps, Bounded, UNCHANGED <<mapped, doomed>>,
           \A w \in Worker : /\ Running(w)' = Running(w)
                             /\ worker'[w].cancelled = worker[w].cancelled
                             /\ Running(w) => worker'[w].key = worker[w].key
    PROVE  Maps' /\ Bounded'
<1>1. \A k \in Key : mapped[k] # None => mapped[k] \in Worker
  BY DEF TypeInv
<1>2. Maps'
  BY <1>1 DEF Maps
<1>3. Bounded'
  BY DEF Bounded, Mapped
<1> QED
  BY <1>2, <1>3

LEMMA MappedIsFinite ==
    ASSUME TypeInv
    PROVE  Mapped \subseteq Worker /\ IsFiniteSet(Mapped) /\ Cardinality(Mapped) \in Nat
<1>1. Mapped \subseteq Worker
  BY DEF TypeInv, Mapped
<1> QED
  BY <1>1, TailAssumption, FS_Subset, FS_CardinalityType

\* A worker is taken out of the map as it ends or is cancelled.
LEMMA UnmapKeeps ==
    ASSUME TypeInv, Maps, Bounded, NEW w \in Worker, UNCHANGED doomed,
           mapped' = Unmap(worker[w].key, w),
           \A v \in Worker \ {w} : worker'[v] = worker[v],
           Running(w)' => Running(w) /\ worker'[w].cancelled /\ worker'[w].key = worker[w].key
    PROVE  Maps' /\ Bounded'
<1>1. \A k \in Key : mapped[k] = w => worker[w].key = k
  BY TailAssumption DEF Maps
<1>2. \A k \in Key : mapped'[k] = IF mapped[k] = w THEN None ELSE mapped[k]
  BY <1>1 DEF Unmap, TypeInv
<1>3. \A k \in Key : mapped'[k] # None => mapped'[k] = mapped[k] /\ mapped[k] \in Worker \ {w}
  BY <1>2 DEF TypeInv
<1>4. \A v \in Worker \ {w} : Running(v)' = Running(v)
  BY DEF Running
<1>5. \A k \in Key : mapped'[k] # None =>
          /\ worker'[mapped'[k]].stage \notin {"unused", "ended"} /\ ~worker'[mapped'[k]].cancelled
          /\ worker'[mapped'[k]].key = k
          /\ mapped'[k] \notin doomed'
  BY <1>3, <1>4 DEF Maps, Running
<1>6. ASSUME NEW v \in Worker, Running(v)'
      PROVE  /\ worker'[v].key \in Key
             /\ worker'[v].cancelled \/ v \in doomed' \/ mapped'[worker'[v].key] = v
  <2>1. CASE v = w
    BY <1>6, <2>1 DEF Maps
  <2>2. CASE v # w
    <3>1. Running(v) /\ worker'[v] = worker[v]
      BY <1>4, <1>6, <2>2
    <3>2. worker[v].key \in Key
      BY <3>1 DEF Maps
    <3>3. mapped[worker[v].key] = v => mapped'[worker[v].key] = v
      BY <1>2, <2>2, <3>2
    <3> QED
      BY <3>1, <3>2, <3>3 DEF Maps
  <2> QED
    BY <2>1, <2>2
<1>7. Maps'
  BY <1>5, <1>6 DEF Maps, Running
<1>8. Mapped' \subseteq Mapped
  BY <1>3 DEF Mapped
<1>9. Cardinality(Mapped') <= Cardinality(Mapped) /\ Cardinality(Mapped') \in Nat
  BY <1>8, MappedIsFinite, FS_Subset, FS_CardinalityType
<1>10. Bounded'
  BY <1>9, MappedIsFinite, TailAssumption DEF Bounded
<1> QED
  BY <1>7, <1>10

\* Nobody subscribes or leaves.
LEMMA SameFollows ==
    ASSUME Follows,
           \A w \in Worker : /\ worker'[w].subs = worker[w].subs
                             /\ worker'[w].stage = "unused" => worker'[w].subs = {},
           \A c \in Client : /\ tail'[c].worker = tail[c].worker
                             /\ tail[c].worker = None => tail'[c] = tail[c]
    PROVE  Follows'
BY DEF Follows

\* A client is handed nothing, and its worker keeps the last id.
LEMMA SameGap ==
    ASSUME NoGap,
           \A c \in Client : Following(c)' =>
              /\ Following(c)
              /\ tail'[c].worker = tail[c].worker
              /\ tail'[c].after = tail[c].after
              /\ tail'[c].sent = tail[c].sent
              /\ tail'[c].dropped = tail[c].dropped
              /\ worker'[tail[c].worker].last = worker[tail[c].worker].last
    PROVE  NoGap'
<1> SUFFICES ASSUME NEW c \in Client, Following(c)'
             PROVE  UpTo(c, worker[tail[c].worker].last)'
  BY DEF NoGap
<1>1. UpTo(c, worker[tail[c].worker].last)
  BY DEF NoGap
<1>2. Handed(c)' = Handed(c)
  BY DEF Handed
<1> QED
  BY <1>1, <1>2 DEF UpTo

-----------------------------------------------------------------------------
(* Subscribing, taking events and leaving.                                 *)

LEMMA SubscribeFirstKeeps ==
    ASSUME TypeInv, Rest, NEW c \in Client, NEW k \in Key, NEW start \in Start,
           SubscribeFirst(c, k, start)
    PROVE  Rest'
<1> DEFINE w == LowestFree
<1>1. /\ w \in Worker /\ worker[w] = Unused /\ w \notin doomed /\ w # None
      /\ mapped[k] = None /\ tail[c].worker = None
      /\ mapped' = [mapped EXCEPT ![k] = w] /\ doomed' = doomed
  BY FreeIsUnused DEF SubscribeFirst, Following
<1> HIDE DEF w
<1>2. /\ \A v \in Worker \ {w} : worker'[v] = worker[v]
      /\ worker'[w].stage = "idle" /\ worker'[w].key = k /\ worker'[w].last = start
      /\ worker'[w].subs = {c} /\ ~worker'[w].cancelled
  <2>1. worker' = [worker EXCEPT ![w] = NewWorker(k, start, c)]
    BY DEF SubscribeFirst, NewWorker, w
  <2> QED
    BY <1>1, <2>1, NewWorkerType DEF TypeInv
<1>3. /\ \A d \in Client \ {c} : tail'[d] = tail[d]
      /\ tail'[c].worker = w /\ tail'[c].after = start
      /\ tail'[c].sent = tail[c].sent /\ tail'[c].dropped = tail[c].dropped
  BY DEF SubscribeFirst, TypeInv, TailRecord, w
<1>4. ~Running(w) /\ worker[w].subs = {}
  BY <1>1 DEF Running, Unused
<1>5. tail[c] = NoTail
  BY <1>1 DEF Rest, Follows
<1>6. Maps'
  <2>1. \A j \in Key \ {k} : mapped'[j] = mapped[j] /\ mapped[j] # w
    BY <1>1, <1>4 DEF Rest, Maps, TypeInv
  <2>2. mapped'[k] = w
    BY <1>1 DEF TypeInv
  <2>3. \A v \in Worker \ {w} : Running(v)' = Running(v)
    BY <1>2 DEF Running
  <2>4. \A v \in Worker \ {w} : mapped[k] # v
    BY <1>1, TailAssumption
  <2>5. \A j \in Key : mapped'[j] # None =>
          /\ worker'[mapped'[j]].stage \notin {"unused", "ended"} /\ ~worker'[mapped'[j]].cancelled
          /\ worker'[mapped'[j]].key = j
          /\ mapped'[j] \notin doomed'
    <3>1. ASSUME NEW j \in Key, j # k, mapped'[j] # None
          PROVE  /\ worker'[mapped'[j]].stage \notin {"unused", "ended"}
                 /\ ~worker'[mapped'[j]].cancelled
                 /\ worker'[mapped'[j]].key = j
                 /\ mapped'[j] \notin doomed'
      <4>1. mapped[j] \in Worker \ {w} /\ mapped'[j] = mapped[j]
        BY <2>1, <3>1 DEF TypeInv
      <4> QED
        BY <1>1, <1>2, <3>1, <4>1 DEF Rest, Maps, Running
    <3> QED
      BY <1>1, <1>2, <2>2, <3>1
  <2>6. ASSUME NEW v \in Worker, Running(v)'
        PROVE  /\ worker'[v].key \in Key
               /\ worker'[v].cancelled \/ v \in doomed' \/ mapped'[worker'[v].key] = v
    <3>1. CASE v = w
      BY <1>2, <2>2, <3>1
    <3>2. CASE v # w
      <4>1. Running(v) /\ worker'[v] = worker[v] /\ worker[v].key \in Key
        BY <1>2, <2>3, <2>6, <3>2 DEF Rest, Maps
      <4>2. mapped[worker[v].key] = v => mapped'[worker[v].key] = v
        BY <2>1, <2>4, <3>2, <4>1
      <4> QED
        BY <1>1, <4>1, <4>2 DEF Rest, Maps
    <3> QED
      BY <3>1, <3>2
  <2> QED
    BY <2>5, <2>6 DEF Maps, Running
<1>7. Bounded'
  <2>1. Cardinality(Mapped) < MaxWorkers
    BY DEF SubscribeFirst
  <2>2. Mapped' \subseteq Mapped \cup {w}
    BY <1>1 DEF Mapped, TypeInv
  <2>3. IsFiniteSet(Mapped \cup {w}) /\ Cardinality(Mapped \cup {w}) <= Cardinality(Mapped) + 1
    <3>1. /\ IsFiniteSet(Mapped \cup {w})
          /\ \/ Cardinality(Mapped \cup {w}) = Cardinality(Mapped)
             \/ Cardinality(Mapped \cup {w}) = Cardinality(Mapped) + 1
      BY MappedIsFinite, FS_AddElement
    <3> QED
      BY <3>1, MappedIsFinite
  <2>4. IsFiniteSet(Mapped') /\ Cardinality(Mapped') <= Cardinality(Mapped \cup {w})
    BY <2>2, <2>3, FS_Subset
  <2>5. /\ Cardinality(Mapped) \in Nat /\ Cardinality(Mapped') \in Nat
        /\ Cardinality(Mapped \cup {w}) \in Nat /\ MaxWorkers \in Nat
    BY <2>3, <2>4, MappedIsFinite, FS_CardinalityType, TailAssumption
  <2>6. Cardinality(Mapped') <= MaxWorkers
    BY <2>1, <2>3, <2>4, <2>5
  <2> QED
    BY <2>6 DEF Bounded
<1>8. Follows'
  <2>1. \A d \in Client : tail'[d].worker = None => tail'[d] = NoTail
    BY <1>1, <1>3 DEF Rest, Follows
  <2>2. \A d \in Client : \A v \in Worker : tail'[d].worker = v <=> d \in worker'[v].subs
    BY <1>1, <1>2, <1>3, <1>4, TailAssumption DEF Rest, Follows
  <2>3. \A v \in Worker : worker'[v].stage = "unused" => worker'[v].subs = {}
    BY <1>2 DEF Rest, Follows
  <2> QED
    BY <2>1, <2>2, <2>3 DEF Follows
<1>9. GoesOn'
  BY <1>2 DEF Rest, GoesOn
<1>10. NoGap'
  <2> SUFFICES ASSUME NEW d \in Client, Following(d)'
               PROVE  UpTo(d, worker[tail[d].worker].last)'
    BY DEF NoGap
  <2>1. CASE d = c
    <3>1. tail'[c].sent = <<>> /\ tail'[c].dropped = {} /\ tail'[c].after = start
      BY <1>3, <1>5 DEF NoTail
    <3>2. Handed(c)' = {} /\ ToSet(tail'[c].sent) = {}
      BY <3>1 DEF Handed, ToSet
    <3>3. start # None => start = 0 /\ start + 1..start = {}
      BY DEF Start
    <3>4. worker'[tail'[c].worker].last = start
      BY <1>2, <1>3
    <3> QED
      BY <2>1, <3>1, <3>2, <3>3, <3>4 DEF UpTo
  <2>2. CASE d # c
    <3>1. tail'[d] = tail[d] /\ Following(d) /\ tail[d].worker \in Worker
      BY <1>3, <2>2 DEF Following, TypeInv, TailRecord
    <3>2. tail[d].worker # w
      BY <1>1, <1>4 DEF Rest, Follows
    <3>3. worker'[tail'[d].worker].last = worker[tail[d].worker].last
      BY <1>2, <3>1, <3>2
    <3>4. UpTo(d, worker[tail[d].worker].last)
      BY <3>1 DEF Rest, NoGap
    <3>5. Handed(d)' = Handed(d)
      BY <3>1 DEF Handed
    <3> QED
      BY <3>1, <3>3, <3>4, <3>5 DEF UpTo
  <2> QED
    BY <2>1, <2>2
<1> QED
  BY <1>6, <1>7, <1>8, <1>9, <1>10 DEF Rest

LEMMA SubscribeNextKeeps ==
    ASSUME TypeInv, Rest, NEW c \in Client, NEW k \in Key, SubscribeNext(c, k)
    PROVE  Rest'
<1> DEFINE w == mapped[k]
<1>1. /\ w \in Worker /\ w # None /\ Running(w) /\ tail[c].worker = None
      /\ UNCHANGED <<mapped, doomed>>
  BY DEF SubscribeNext, Following, TypeInv, Rest, Maps
<1> HIDE DEF w
<1>2. /\ \A v \in Worker \ {w} : worker'[v] = worker[v]
      /\ worker'[w].stage = worker[w].stage /\ worker'[w].key = worker[w].key
      /\ worker'[w].last = worker[w].last /\ worker'[w].next = worker[w].next
      /\ worker'[w].cancelled = worker[w].cancelled
      /\ worker'[w].subs = worker[w].subs \cup {c}
  BY <1>1 DEF SubscribeNext, TypeInv, WorkerRecord, w
<1>3. /\ \A d \in Client \ {c} : tail'[d] = tail[d]
      /\ tail'[c].worker = w /\ tail'[c].after = tail[c].after
      /\ tail'[c].sent = tail[c].sent /\ tail'[c].dropped = tail[c].dropped
  BY DEF SubscribeNext, TypeInv, TailRecord, w
<1>4. tail[c] = NoTail
  BY <1>1 DEF Rest, Follows
<1>5. Maps' /\ Bounded'
  <2>1. \A v \in Worker : /\ Running(v)' = Running(v)
                          /\ worker'[v].cancelled = worker[v].cancelled
                          /\ worker'[v].key = worker[v].key
    BY <1>2 DEF Running
  <2> QED
    BY <1>1, <2>1, SameMaps DEF Rest
<1>6. Follows'
  <2>1. \A d \in Client : tail'[d].worker = None => tail'[d] = NoTail
    BY <1>1, <1>3 DEF Rest, Follows
  <2>2. \A d \in Client : \A v \in Worker : tail'[d].worker = v <=> d \in worker'[v].subs
    BY <1>1, <1>2, <1>3, TailAssumption DEF Rest, Follows
  <2>3. \A v \in Worker : worker'[v].stage = "unused" => worker'[v].subs = {}
    BY <1>1, <1>2 DEF Rest, Follows, Running
  <2> QED
    BY <2>1, <2>2, <2>3 DEF Follows
<1>7. GoesOn'
  BY <1>2 DEF Rest, GoesOn
<1>8. NoGap'
  <2> SUFFICES ASSUME NEW d \in Client, Following(d)'
               PROVE  UpTo(d, worker[tail[d].worker].last)'
    BY DEF NoGap
  <2>1. CASE d = c
    <3>1. tail'[c].sent = <<>> /\ tail'[c].dropped = {} /\ tail'[c].after = None
      BY <1>3, <1>4 DEF NoTail
    <3>2. Handed(c)' = {} /\ ToSet(tail'[c].sent) = {}
      BY <3>1 DEF Handed, ToSet
    <3> QED
      BY <2>1, <3>1, <3>2 DEF UpTo
  <2>2. CASE d # c
    <3>1. tail'[d] = tail[d] /\ Following(d) /\ tail[d].worker \in Worker
      BY <1>3, <2>2 DEF Following, TypeInv, TailRecord
    <3>2. worker'[tail'[d].worker].last = worker[tail[d].worker].last
      BY <1>2, <3>1
    <3>3. UpTo(d, worker[tail[d].worker].last)
      BY <3>1 DEF Rest, NoGap
    <3>4. Handed(d)' = Handed(d)
      BY <3>1 DEF Handed
    <3> QED
      BY <3>1, <3>2, <3>3, <3>4 DEF UpTo
  <2> QED
    BY <2>1, <2>2
<1> QED
  BY <1>5, <1>6, <1>7, <1>8 DEF Rest

LEMMA TakeEventKeeps ==
    ASSUME TypeInv, Rest, NEW c \in Client, TakeEvent(c)
    PROVE  Rest'
<1>1. UNCHANGED <<mapped, worker, doomed>>
  BY DEF TakeEvent
<1>2. /\ \A d \in Client \ {c} : tail'[d] = tail[d]
      /\ tail'[c].worker = tail[c].worker /\ tail'[c].after = tail[c].after
      /\ tail'[c].sent = tail[c].sent /\ tail'[c].dropped = tail[c].dropped
  BY DEF TakeEvent, TypeInv, TailRecord
<1>3. tail[c].worker # None
  BY DEF TakeEvent, Rest, Follows, NoTail
<1>4. Maps' /\ Bounded'
  BY <1>1, SameMaps DEF Rest, Running
<1>5. Follows'
  BY <1>1, <1>2, <1>3, SameFollows DEF Rest, Follows
<1>6. GoesOn'
  BY <1>1 DEF Rest, GoesOn
<1>7. NoGap'
  BY <1>1, <1>2, SameGap DEF Rest, Following
<1> QED
  BY <1>4, <1>5, <1>6, <1>7 DEF Rest

LEMMA CancelKeeps ==
    ASSUME TypeInv, Rest, NEW c \in Client, Cancel(c)
    PROVE  Rest'
<1>0. PICK w \in Worker : w = tail[c].worker
  BY DEF Cancel, Following, TypeInv, TailRecord
<1> DEFINE left == worker[w].subs \ {c}
           r == [worker[w] EXCEPT !.subs = left, !.cancelled = worker[w].cancelled \/ left = {}]
<1>1. w \in Worker /\ c \in worker[w].subs /\ w # None
  BY <1>0, TailAssumption DEF Rest, Follows
<1>2. /\ worker' = [worker EXCEPT ![w] = Kept(r)]
      /\ tail' = [tail EXCEPT ![c] = NoTail] /\ doomed' = doomed
      /\ mapped' = IF left = {} THEN Unmap(worker[w].key, w) ELSE mapped
  BY <1>0 DEF Cancel
<1>3. /\ r.stage = worker[w].stage /\ r.key = worker[w].key /\ r.last = worker[w].last
      /\ r.next = worker[w].next /\ r.subs = left
      /\ r.cancelled = (worker[w].cancelled \/ left = {})
  BY <1>1 DEF TypeInv, WorkerRecord
<1> HIDE DEF r
<1>4. worker'[w] = Kept(r) /\ \A v \in Worker \ {w} : worker'[v] = worker[v]
  BY <1>1, <1>2 DEF TypeInv
<1>5. /\ worker'[w].subs = left
      /\ worker'[w].stage \in {"unused", worker[w].stage}
      /\ worker'[w].stage = "unused" => left = {}
      /\ worker'[w].stage # "unused" => worker'[w] = r
  <2>1. CASE r.stage = "ended" /\ r.subs = {}
    BY <1>3, <1>4, <2>1 DEF Kept, Unused
  <2>2. CASE ~(r.stage = "ended" /\ r.subs = {})
    <3>1. worker'[w] = r
      BY <1>4, <2>2 DEF Kept
    <3>2. worker[w].stage # "unused"
      BY <1>1 DEF Rest, Follows
    <3> QED
      BY <1>3, <3>1, <3>2
  <2> QED
    BY <2>1, <2>2
<1>6. /\ \A d \in Client \ {c} : tail'[d] = tail[d]
      /\ tail'[c] = NoTail
  BY <1>2 DEF TypeInv
<1> HIDE DEF left
<1>7. Maps' /\ Bounded'
  <2>1. CASE left = {}
    <3>1. Running(w)' => Running(w) /\ worker'[w].cancelled /\ worker'[w].key = worker[w].key
      BY <1>3, <1>5, <2>1 DEF Running
    <3> QED
      BY <1>1, <1>2, <1>4, <2>1, <3>1, UnmapKeeps DEF Rest
  <2>2. CASE left # {}
    <3>1. worker'[w].stage # "unused" /\ worker'[w] = r
      BY <1>5, <2>2
    <3>2. \A v \in Worker : /\ Running(v)' = Running(v)
                            /\ worker'[v].cancelled = worker[v].cancelled
                            /\ worker'[v].key = worker[v].key
      <4>1. worker[w].cancelled \in BOOLEAN
        BY <1>1 DEF TypeInv, WorkerRecord
      <4> QED
        BY <1>3, <1>4, <2>2, <3>1, <4>1 DEF Running
    <3> QED
      BY <1>2, <2>2, <3>2, SameMaps DEF Rest
  <2> QED
    BY <2>1, <2>2
<1>8. Follows'
  <2>1. \A d \in Client : tail'[d].worker = None => tail'[d] = NoTail
    BY <1>6 DEF Rest, Follows
  <2>2. \A d \in Client : \A v \in Worker : tail'[d].worker = v <=> d \in worker'[v].subs
    <3>1. NoTail.worker = None /\ None \notin Worker
      BY TailAssumption DEF NoTail
    <3>2. \A v \in Worker : c \in worker[v].subs => v = w
      BY <1>0 DEF Rest, Follows
    <3>3. \A v \in Worker : worker'[v].subs = worker[v].subs \ {c}
      BY <1>4, <1>5, <3>2 DEF left
    <3> QED
      BY <1>6, <3>1, <3>3 DEF Rest, Follows
  <2>3. \A v \in Worker : worker'[v].stage = "unused" => worker'[v].subs = {}
    BY <1>4, <1>5 DEF Rest, Follows
  <2> QED
    BY <2>1, <2>2, <2>3 DEF Follows
<1>9. GoesOn'
  BY <1>3, <1>4, <1>5 DEF Rest, GoesOn
<1>10. NoGap'
  <2> SUFFICES ASSUME NEW d \in Client, Following(d)'
               PROVE  /\ Following(d) /\ tail'[d] = tail[d]
                      /\ worker'[tail[d].worker].last = worker[tail[d].worker].last
    BY SameGap DEF Rest
  <2>1. d # c
    BY <1>6 DEF Following, NoTail
  <2>2. tail'[d] = tail[d] /\ Following(d) /\ tail[d].worker \in Worker
    BY <1>6, <2>1 DEF Following, TypeInv, TailRecord
  <2>3. tail[d].worker = w => left # {}
    BY <1>1, <2>1 DEF Rest, Follows, left
  <2>4. tail[d].worker = w => worker'[w].last = worker[w].last
    BY <1>3, <1>5, <2>3
  <2> QED
    BY <1>4, <2>2, <2>4
<1> QED
  BY <1>7, <1>8, <1>9, <1>10 DEF Rest

-----------------------------------------------------------------------------
(* Reading and handing out.                                                *)

\* A step that leaves the map, the subscribers and the last ids alone.
LEMMA QuietStep ==
    ASSUME TypeInv, Rest, UNCHANGED <<mapped, doomed, tail>>,
           \A w \in Worker : /\ worker'[w].subs = worker[w].subs
                             /\ worker'[w].last = worker[w].last
                             /\ worker'[w].cancelled = worker[w].cancelled
                             /\ worker'[w].key = worker[w].key
                             /\ Running(w)' = Running(w)
                             /\ worker'[w].stage = "unused" => worker[w].stage = "unused",
           GoesOn'
    PROVE  Rest'
<1>1. Maps' /\ Bounded'
  BY SameMaps DEF Rest
<1>2. Follows'
  BY SameFollows DEF Rest, Follows
<1>3. NoGap'
  BY SameGap DEF Rest, Following, TypeInv, TailRecord
<1> QED
  BY <1>1, <1>2, <1>3 DEF Rest

LEMMA StartReadKeeps ==
    ASSUME TypeInv, Rest, NEW w \in Worker, StartRead(w)
    PROVE  Rest'
<1> DEFINE next == 1 + IF worker[w].last = None THEN length[worker[w].key] ELSE worker[w].last
<1>1. worker[w].stage = "idle" /\ UNCHANGED <<mapped, doomed, tail>>
  BY DEF StartRead
<1>2. /\ \A v \in Worker \ {w} : worker'[v] = worker[v]
      /\ worker'[w].stage = "reading" /\ worker'[w].next = next
      /\ worker'[w].subs = worker[w].subs /\ worker'[w].last = worker[w].last
      /\ worker'[w].cancelled = worker[w].cancelled /\ worker'[w].key = worker[w].key
  BY DEF StartRead, TypeInv, WorkerRecord
<1>3. worker[w].last # None => next = worker[w].last + 1
  BY DEF TypeInv, WorkerRecord
<1> HIDE DEF next
<1>4. GoesOn'
  BY <1>2, <1>3 DEF Rest, GoesOn
<1> QED
  BY <1>1, <1>2, <1>4, QuietStep DEF Running

LEMMA ReadEntriesKeeps ==
    ASSUME TypeInv, Rest, NEW w \in Worker, ReadEntries(w)
    PROVE  Rest'
<1>1. worker[w].stage = "reading" /\ UNCHANGED <<mapped, doomed, tail>>
  BY DEF ReadEntries
<1>2. /\ \A v \in Worker \ {w} : worker'[v] = worker[v]
      /\ worker'[w].stage = "delivering" /\ worker'[w].next = worker[w].next
      /\ worker'[w].subs = worker[w].subs /\ worker'[w].last = worker[w].last
      /\ worker'[w].cancelled = worker[w].cancelled /\ worker'[w].key = worker[w].key
  BY DEF ReadEntries, TypeInv, WorkerRecord
<1>3. GoesOn'
  BY <1>1, <1>2 DEF Rest, GoesOn
<1> QED
  BY <1>1, <1>2, <1>3, QuietStep DEF Running

LEMMA GoOnKeeps ==
    ASSUME TypeInv, Rest, NEW w \in Worker, Running(w), GoOn(w)
    PROVE  Rest'
<1> DEFINE over == worker[w].cancelled
           r == [worker[w] EXCEPT !.stage = IF over THEN "ended" ELSE "idle",
                                  !.next = 0, !.upTo = 0]
<1>1. /\ worker' = [worker EXCEPT ![w] = Kept(r)]
      /\ mapped' = IF over THEN Unmap(worker[w].key, w) ELSE mapped
      /\ UNCHANGED <<doomed, tail>>
  BY DEF GoOn
<1>2. /\ r.stage = IF over THEN "ended" ELSE "idle"
      /\ r.key = worker[w].key /\ r.last = worker[w].last
      /\ r.subs = worker[w].subs /\ r.cancelled = over
  BY DEF TypeInv, WorkerRecord
<1> HIDE DEF r
<1>3. worker'[w] = Kept(r) /\ \A v \in Worker \ {w} : worker'[v] = worker[v]
  BY <1>1 DEF TypeInv
<1>4. /\ worker'[w].subs = worker[w].subs
      /\ worker'[w].stage \in {"unused", "ended", "idle"}
      /\ worker'[w].stage = "unused" => worker[w].subs = {}
      /\ worker'[w].stage # "unused" => worker'[w] = r
      /\ worker'[w].stage = "idle" <=> ~over
  <2>1. CASE r.stage = "ended" /\ r.subs = {}
    BY <1>2, <1>3, <2>1 DEF Kept, Unused
  <2>2. CASE ~(r.stage = "ended" /\ r.subs = {})
    BY <1>2, <1>3, <2>2 DEF Kept
  <2> QED
    BY <2>1, <2>2
<1>5. Maps' /\ Bounded'
  <2>1. CASE over
    <3>1. ~(Running(w)')
      BY <1>4, <2>1 DEF Running
    <3>2. mapped' = Unmap(worker[w].key, w) /\ UNCHANGED doomed
      BY <1>1, <2>1
    <3> QED
      BY <1>3, <3>1, <3>2, UnmapKeeps DEF Rest
  <2>2. CASE ~over
    <3>1. worker'[w] = r /\ worker'[w].stage = "idle" /\ UNCHANGED <<mapped, doomed>>
      BY <1>1, <1>4, <2>2
    <3>2. \A v \in Worker : /\ Running(v)' = Running(v)
                            /\ worker'[v].cancelled = worker[v].cancelled
                            /\ worker'[v].key = worker[v].key
      BY <1>2, <1>3, <3>1 DEF Running
    <3> QED
      BY <3>1, <3>2, SameMaps DEF Rest
  <2> QED
    BY <2>1, <2>2
<1>6. Follows'
  BY <1>1, <1>3, <1>4, SameFollows DEF Rest, Follows
<1>7. GoesOn'
  BY <1>3, <1>4 DEF Rest, GoesOn
<1>8. NoGap'
  <2> SUFFICES ASSUME NEW c \in Client, Following(c)
               PROVE  worker'[tail[c].worker].last = worker[tail[c].worker].last
    BY <1>1, SameGap DEF Rest, Following
  <2>1. tail[c].worker \in Worker /\ c \in worker[tail[c].worker].subs
    BY DEF Following, TypeInv, TailRecord, Rest, Follows
  <2>2. tail[c].worker = w => worker'[w].stage # "unused"
    BY <1>4, <2>1
  <2>3. tail[c].worker = w => worker'[w].last = worker[w].last
    BY <1>2, <1>4, <2>2
  <2> QED
    BY <1>3, <2>1, <2>3
<1> QED
  BY <1>5, <1>6, <1>7, <1>8 DEF Rest

\* One more entry, the one after the last, for a client.
LEMMA NextEntry ==
    ASSUME NEW last \in Nat \cup {None}, NEW id \in Nat, last # None => id = last + 1,
           NEW c \in Client, tail[c] \in TailRecord, tail'[c] \in TailRecord,
           UpTo(c, last), tail'[c].after = tail[c].after,
           \/ /\ tail'[c].sent = Append(tail[c].sent, id)
              /\ tail'[c].dropped = tail[c].dropped
           \/ /\ tail'[c].sent = tail[c].sent
              /\ tail'[c].dropped = tail[c].dropped \cup {id}
    PROVE  UpTo(c, id)'
<1>1. /\ tail[c].sent \in Seq(Nat) /\ tail[c].dropped \in SUBSET Nat
      /\ tail[c].after \in {None, 0} /\ None \notin Nat
  BY TailAssumption DEF TailRecord, Start
<1>2. ToSet(tail[c].sent) \subseteq Nat
  BY <1>1 DEF ToSet
<1>3. ToSet(Append(tail[c].sent, id)) = ToSet(tail[c].sent) \cup {id}
  <2> DEFINE s == tail[c].sent
             t == Append(s, id)
  <2>1. s \in Seq(Nat) /\ Len(s) \in Nat /\ DOMAIN s = 1..Len(s)
    BY <1>1
  <2>2. /\ DOMAIN t = 1..Len(s) + 1 /\ t[Len(s) + 1] = id
        /\ \A i \in DOMAIN s : t[i] = s[i]
    BY <2>1
  <2>3. DOMAIN t = DOMAIN s \cup {Len(s) + 1}
    BY <2>1, <2>2
  <2> HIDE DEF s, t
  <2>4. ToSet(t) = ToSet(s) \cup {id}
    <3>1. ASSUME NEW n \in ToSet(t)
          PROVE  n \in ToSet(s) \cup {id}
      <4>1. PICK i \in DOMAIN t : n = t[i]
        BY DEF ToSet
      <4>2. CASE i = Len(s) + 1
        BY <2>2, <4>1, <4>2
      <4>3. CASE i \in DOMAIN s
        BY <2>2, <4>1, <4>3 DEF ToSet
      <4> QED
        BY <2>3, <4>1, <4>2, <4>3
    <3>2. ASSUME NEW i \in DOMAIN s
          PROVE  s[i] \in ToSet(t)
      <4>1. s[i] = t[i] /\ i \in DOMAIN t
        BY <2>2, <2>3
      <4> QED
        BY <4>1, Zenon DEF ToSet
    <3>3. id \in ToSet(t)
      BY <2>2, <2>3, Zenon DEF ToSet
    <3>4. \A n \in ToSet(s) : n \in ToSet(t)
      BY <3>2 DEF ToSet
    <3> QED
      BY <3>1, <3>3, <3>4
  <2> QED
    BY <2>4 DEF s, t
<1>4. Handed(c)' = Handed(c) \cup {id} /\ Handed(c) \subseteq Nat
  BY <1>1, <1>2, <1>3 DEF Handed
<1>5. \A n \in Handed(c) : n < id /\ last \in Nat
  BY <1>4 DEF UpTo
<1>6. \A i \in DOMAIN tail[c].sent : tail[c].sent[i] \in Handed(c)
  BY DEF Handed, ToSet
<1>7. id \notin ToSet(tail[c].sent) /\ id \notin tail[c].dropped
  BY <1>4, <1>5 DEF Handed
<1>8. \A i, j \in DOMAIN tail'[c].sent : i < j => tail'[c].sent[i] < tail'[c].sent[j]
  <2>1. CASE tail'[c].sent = tail[c].sent
    BY <2>1 DEF UpTo
  <2>2. CASE tail'[c].sent = Append(tail[c].sent, id)
    <3> DEFINE s == tail[c].sent
    <3>1. s \in Seq(Nat) /\ \A i \in 1..Len(s) : s[i] < id
      BY <1>1, <1>5, <1>6
    <3>2. \A i, j \in 1..Len(s) : i < j => s[i] < s[j]
      BY <1>1, DOMAIN tail[c].sent = 1..Len(tail[c].sent) DEF UpTo
    <3> HIDE DEF s
    <3>3. DOMAIN Append(s, id) = 1..Len(s) + 1 /\ Append(s, id)[Len(s) + 1] = id
      BY <3>1
    <3>4. \A i \in 1..Len(s) : Append(s, id)[i] = s[i]
      BY <3>1
    <3>5. ASSUME NEW i \in 1..Len(s) + 1, NEW j \in 1..Len(s) + 1, i < j
          PROVE  Append(s, id)[i] < Append(s, id)[j]
      <4>1. Len(s) \in Nat
        BY <3>1
      <4>2. i \in 1..Len(s) /\ (j \in 1..Len(s) \/ j = Len(s) + 1)
        BY <3>5, <4>1
      <4> QED
        BY <3>1, <3>2, <3>3, <3>4, <3>5, <4>2
    <3> QED
      BY <2>2, <3>3, <3>5 DEF s
  <2> QED
    BY <2>1, <2>2
<1>9. ToSet(tail'[c].sent) \cap tail'[c].dropped = {}
  BY <1>3, <1>7 DEF UpTo
<1>10. \A n \in Nat : last # None => n..id \subseteq (n..last) \cup {id}
  <2> SUFFICES ASSUME NEW n \in Nat, last # None, NEW m \in n..id
               PROVE  m \in n..last \/ m = id
    OBVIOUS
  <2> QED
    OBVIOUS
<1>11. tail'[c].after # None => tail'[c].after + 1..id \subseteq Handed(c)'
  <2>1. tail[c].after # None => last # None /\ tail[c].after + 1..last \subseteq Handed(c)
    BY DEF UpTo
  <2>2. tail[c].after # None => tail[c].after + 1 \in Nat
    BY <1>1
  <2> QED
    BY <1>4, <1>10, <2>1, <2>2
<1>12. ASSUME NEW n \in Handed(c)'
       PROVE  n <= id /\ n..id \subseteq Handed(c)'
  <2>1. CASE n = id
    BY <1>4, <2>1
  <2>2. CASE n \in Handed(c)
    <3>1. n \in Nat /\ last # None /\ n..last \subseteq Handed(c) /\ n < id
      BY <1>4, <1>5, <2>2, TailAssumption DEF UpTo
    <3> QED
      BY <1>4, <1>10, <3>1
  <2> QED
    BY <1>4, <2>1, <2>2
<1> QED
  BY <1>1, <1>8, <1>9, <1>11, <1>12 DEF UpTo

LEMMA HandOutKeeps ==
    ASSUME TypeInv, TypeInv', Rest, NEW w \in Worker, HandOut(w)
    PROVE  Rest'
<1>0. PICK id \in Nat : id = worker[w].next
  BY DEF TypeInv, WorkerRecord
<1>1. worker[w].stage = "delivering" /\ UNCHANGED <<mapped, doomed>>
  BY DEF HandOut
<1>2. /\ \A v \in Worker \ {w} : worker'[v] = worker[v]
      /\ worker'[w].stage = worker[w].stage /\ worker'[w].next = id + 1
      /\ worker'[w].subs = worker[w].subs /\ worker'[w].last = id
      /\ worker'[w].cancelled = worker[w].cancelled /\ worker'[w].key = worker[w].key
  BY <1>0 DEF HandOut, TypeInv, WorkerRecord
<1>3. ASSUME NEW c \in Client
      PROVE  /\ tail[c] \in TailRecord /\ tail'[c] \in TailRecord
             /\ c \notin worker[w].subs => tail'[c] = tail[c]
             /\ tail'[c].worker = tail[c].worker /\ tail'[c].after = tail[c].after
             /\ c \in worker[w].subs =>
                  \/ /\ tail'[c].sent = Append(tail[c].sent, id)
                     /\ tail'[c].dropped = tail[c].dropped
                  \/ /\ tail'[c].sent = tail[c].sent
                     /\ tail'[c].dropped = tail[c].dropped \cup {id}
  <2>1. tail[c] \in TailRecord /\ tail'[c] \in TailRecord
    BY DEF TypeInv
  <2>2. tail'[c] = IF c \notin worker[w].subs THEN tail[c]
                   ELSE IF tail[c].queued < Capacity
                        THEN [tail[c] EXCEPT !.sent = Append(tail[c].sent, id),
                                             !.queued = tail[c].queued + 1]
                        ELSE [tail[c] EXCEPT !.dropped = tail[c].dropped \cup {id}]
    BY <1>0 DEF HandOut
  <2> QED
    BY <2>1, <2>2 DEF TailRecord
<1>4. Maps' /\ Bounded'
  BY <1>1, <1>2, SameMaps DEF Rest, Running
<1>5. Follows'
  <2>1. \A c \in Client : tail[c].worker = None => tail'[c] = tail[c]
    BY <1>3, TailAssumption DEF Rest, Follows
  <2> QED
    BY <1>1, <1>2, <1>3, <2>1, SameFollows DEF Rest, Follows
<1>6. GoesOn'
  BY <1>2 DEF Rest, GoesOn
<1>7. worker[w].last # None => id = worker[w].last + 1
  BY <1>0, <1>1 DEF Rest, GoesOn
<1>8. NoGap'
  <2> SUFFICES ASSUME NEW c \in Client, Following(c)'
               PROVE  UpTo(c, worker[tail[c].worker].last)'
    BY DEF NoGap
  <2>1. /\ Following(c) /\ tail[c].worker \in Worker /\ tail'[c].worker = tail[c].worker
        /\ UpTo(c, worker[tail[c].worker].last)
    BY <1>3 DEF Following, Rest, NoGap, TailRecord
  <2>2. CASE tail[c].worker = w
    <3>1. c \in worker[w].subs
      BY <2>2 DEF Rest, Follows
    <3>2. PICK last \in Nat \cup {None} : last = worker[w].last
      BY DEF TypeInv, WorkerRecord
    <3>3. UpTo(c, id)'
      BY <1>3, <1>7, <2>1, <2>2, <3>1, <3>2, NextEntry
    <3> QED
      BY <1>2, <2>1, <2>2, <3>3
  <2>3. CASE tail[c].worker # w
    <3>1. tail'[c] = tail[c]
      BY <1>3, <2>1, <2>3 DEF Rest, Follows
    <3>2. Handed(c)' = Handed(c)
      BY <3>1 DEF Handed
    <3>3. worker'[tail'[c].worker].last = worker[tail[c].worker].last
      BY <1>2, <2>1, <2>3
    <3> QED
      BY <2>1, <3>1, <3>2, <3>3 DEF UpTo
  <2> QED
    BY <2>2, <2>3
<1> QED
  BY <1>4, <1>5, <1>6, <1>8 DEF Rest

-----------------------------------------------------------------------------
(* A change of the settings.                                               *)

LEMMA ResetKeeps ==
    ASSUME TypeInv, Rest, Reset
    PROVE  Rest'
<1>1. /\ UNCHANGED <<worker, tail>>
      /\ mapped' = [k \in Key |-> None] /\ doomed' = doomed \cup Mapped
  BY DEF Reset
<1>2. \A w \in Worker : Running(w) =>
         worker[w].cancelled \/ w \in doomed \/ w \in Mapped
  <2> SUFFICES ASSUME NEW w \in Worker, Running(w), ~worker[w].cancelled, w \notin doomed
               PROVE  w \in Mapped
    OBVIOUS
  <2>1. worker[w].key \in Key /\ mapped[worker[w].key] = w /\ w # None
    BY TailAssumption DEF Rest, Maps
  <2> QED
    BY <2>1 DEF Mapped
<1>3. Maps'
  BY <1>1, <1>2 DEF Rest, Maps, Running
<1>4. Mapped' = {}
  BY <1>1 DEF Mapped
<1>5. Bounded'
  BY <1>4, FS_EmptySet, TailAssumption DEF Bounded
<1>6. Follows' /\ GoesOn'
  BY <1>1 DEF Rest, Follows, GoesOn
<1>7. NoGap'
  BY <1>1, SameGap DEF Rest, Following
<1> QED
  BY <1>3, <1>5, <1>6, <1>7 DEF Rest

LEMMA CancelDoomedKeeps ==
    ASSUME TypeInv, Rest, NEW w \in Worker, CancelDoomed(w)
    PROVE  Rest'
<1>1. w \in doomed /\ doomed' = doomed \ {w} /\ UNCHANGED <<mapped, tail>>
  BY DEF CancelDoomed
<1>2. /\ \A v \in Worker \ {w} : worker'[v] = worker[v]
      /\ worker'[w].stage = worker[w].stage /\ worker'[w].next = worker[w].next
      /\ worker'[w].subs = worker[w].subs /\ worker'[w].last = worker[w].last
      /\ worker'[w].key = worker[w].key
      /\ worker[w].stage # "unused" => worker'[w].cancelled
  BY DEF CancelDoomed, TypeInv, WorkerRecord
<1>3. Maps'
  <2>1. \A k \in Key : mapped[k] # w
    BY <1>1, TailAssumption DEF Rest, Maps
  <2>2. \A k \in Key : mapped[k] # None => mapped[k] \in Worker \ {w}
    BY <2>1 DEF TypeInv
  <2>3. \A v \in Worker : Running(v)' = Running(v)
    BY <1>2 DEF Running
  <2>4. Running(w) => worker'[w].cancelled
    BY <1>2 DEF Running
  <2> QED
    BY <1>1, <1>2, <2>2, <2>3, <2>4 DEF Rest, Maps
<1>4. Bounded'
  BY <1>1 DEF Rest, Bounded, Mapped
<1>5. Follows'
  BY <1>1, <1>2, SameFollows DEF Rest, Follows
<1>6. GoesOn'
  BY <1>2 DEF Rest, GoesOn
<1>7. NoGap'
  BY <1>1, <1>2, SameGap DEF Rest, Following, TypeInv, TailRecord
<1> QED
  BY <1>3, <1>4, <1>5, <1>6, <1>7 DEF Rest

-----------------------------------------------------------------------------
LEMMA NextRest ==
    ASSUME TypeInv, TypeInv', Rest, [Next]_vars
    PROVE  Rest'
<1>1. ASSUME UNCHANGED <<mapped, worker, tail, doomed>>
      PROVE  Rest'
  <2>1. GoesOn'
    BY <1>1 DEF Rest, GoesOn
  <2> QED
    BY <1>1, <2>1, QuietStep DEF Running
<1>2. ASSUME NEW k \in Key, AddEntry(k)
      PROVE  Rest'
  <2>1. UNCHANGED <<mapped, worker, tail, doomed>>
    BY <1>2, Zenon DEF AddEntry
  <2> QED
    BY <1>1, <2>1
<1>3. ASSUME NEW c \in Client, TailStep(c)
      PROVE  Rest'
  BY <1>3, SubscribeFirstKeeps, SubscribeNextKeeps, TakeEventKeeps, CancelKeeps DEF TailStep
<1>4. ASSUME NEW w \in Worker, WorkerStep(w)
      PROVE  Rest'
  <2>1. CASE ReadNothing(w) \/ EndPage(w)
    BY <2>1, GoOnKeeps DEF ReadNothing, EndPage, Running
  <2> QED
    BY <1>4, <2>1, StartReadKeeps, ReadEntriesKeeps, HandOutKeeps DEF WorkerStep
<1>5. CASE UNCHANGED vars
  BY <1>1, <1>5 DEF vars
<1> QED
  BY <1>2, <1>3, <1>4, <1>5, ResetKeeps, CancelDoomedKeeps DEF Next

THEOREM Inductive == Spec => []IInv
<1>1. Init => IInv
  BY InitIInv
<1>2. IInv /\ [Next]_vars => IInv'
  BY NextType, NextRest DEF IInv, Rest
<1> QED
  BY <1>1, <1>2, PTL DEF Spec

\* For any streams, clients, limit, pages and size of the channels: nothing
\* is missed but what a full channel drops.
THEOREM TailHasNoGap == Spec => []StreamIsContiguous
<1>1. IInv => StreamIsContiguous
  <2> SUFFICES ASSUME IInv, NEW c \in Client, Following(c)
               PROVE  UpTo(c, worker[tail[c].worker].last)
    BY DEF StreamIsContiguous, UpTo, Handed
  <2> QED
    BY DEF IInv, Rest, NoGap
<1> QED
  BY <1>1, Inductive, PTL

\* For any streams, clients and limit: the workers that read are those in
\* the map, and no more than the limit.
THEOREM ReadersAreLimited == Spec => []ReadersWithinLimit
<1>1. IInv => ReadersWithinLimit
  <2> SUFFICES ASSUME IInv
               PROVE  ReadersWithinLimit
    OBVIOUS
  <2> DEFINE readers == {w \in Worker : Running(w) /\ ~worker[w].cancelled} \ doomed
  <2>1. \A w \in readers : worker[w].key \in Key /\ mapped[worker[w].key] = w
    BY DEF IInv, Rest, Maps
  <2>2. readers \subseteq Mapped
    BY <2>1, TailAssumption DEF Mapped
  <2>3. /\ Cardinality(readers) <= Cardinality(Mapped) /\ Cardinality(readers) \in Nat
        /\ Cardinality(Mapped) \in Nat
    BY <2>2, MappedIsFinite, FS_Subset, FS_CardinalityType DEF IInv
  <2>4. Cardinality(readers) <= MaxWorkers
    BY <2>3, TailAssumption DEF IInv, Rest, Bounded
  <2> QED
    BY <2>1, <2>4 DEF ReadersWithinLimit
<1> QED
  BY <1>1, Inductive, PTL
=============================================================================
