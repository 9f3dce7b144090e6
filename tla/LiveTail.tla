------------------------------ MODULE LiveTail ------------------------------
(***************************************************************************)
(* The live tail of streams (redis_manager.go, server.go): requests that   *)
(* follow one stream share a worker that reads it from Redis and hands     *)
(* every entry to the channels of all of them; a change of the settings    *)
(* resets the workers.                                                     *)
(*                                                                         *)
(* The broker's mutex makes subscribe, cancel and the first half of reset  *)
(* one step each, and the worker's mutex the hand-out of one entry.        *)
(* Otherwise a worker runs alone: it may be waiting for a read, or be      *)
(* handing out the entries of one, when it is cancelled, loses its         *)
(* subscribers or gets new ones.                                           *)
(*                                                                         *)
(* Entries are numbered as they are added, and none is trimmed before it   *)
(* is read.  A key is a connection and a stream of it.  Which client of    *)
(* Redis a worker reads with is left out: a read may fail at any time, as  *)
(* one does on a client that a reload has closed.                          *)
(***************************************************************************)
EXTENDS Integers, Sequences, FiniteSets, SequencesExt

CONSTANTS
    Key,
    Client,      \* requests for a live tail
    Worker,      \* goroutines there may be at a time
    MaxWorkers,  \* MaxLiveStreams
    Capacity,    \* events a channel holds
    PageSize,    \* entries of one read
    MaxEntries,  \* bounds of a behaviour
    MaxResets,
    None

ASSUME TailAssumption ==
    /\ Worker \subseteq Nat /\ IsFiniteSet(Worker) /\ IsFiniteSet(Client)
    /\ MaxWorkers \in Nat \ {0} /\ Capacity \in Nat \ {0} /\ PageSize \in Nat \ {0}
    /\ MaxEntries \in Nat /\ MaxResets \in Nat
    /\ None \notin Nat

VARIABLES
    length,   \* of each stream
    mapped,   \* tailBroker.workers: of each stream the worker, or none
    worker,   \* the goroutines, by stage
    tail,     \* what each request follows and was given
    resets,   \* how often the settings were changed
    doomed    \* workers a reset took out of the map and has not cancelled yet

vars == <<length, mapped, worker, tail, resets, doomed>>

\* Stages: unused, idle, reading, delivering, ended.  last is the id to read
\* on from, next..upTo what is being handed out.
Unused == [stage |-> "unused", key |-> None, last |-> None, next |-> 0, upTo |-> 0,
           cancelled |-> FALSE, subs |-> {}]

\* after is the entry a request goes on from, if it had its way; sent is all
\* that was put into its channel, of which queued are still there; dropped is
\* what found the channel full.
NoTail == [worker |-> None, after |-> None, sent |-> <<>>, queued |-> 0, dropped |-> {}]

Init ==
    /\ length = [k \in Key |-> 0]
    /\ mapped = [k \in Key |-> None]
    /\ worker = [w \in Worker |-> Unused]
    /\ tail = [c \in Client |-> NoTail]
    /\ resets = 0
    /\ doomed = {}

AddEntry(k) ==
    /\ FoldFunction(+, 0, length) < MaxEntries
    /\ length' = [length EXCEPT ![k] = @ + 1]
    /\ UNCHANGED <<mapped, worker, tail, resets, doomed>>

-----------------------------------------------------------------------------
(* A request for a live tail.                                              *)

Following(c) == tail[c].worker # None

Mapped == {mapped[k] : k \in Key} \ {None}

Free == {w \in Worker : worker[w] = Unused} \ doomed

LowestFree == CHOOSE w \in Free : \A v \in Free : w <= v

\* From what is new, or after the entry the browser saw last.
Start == {None, 0}

\* The first of a stream starts a worker, from its own start.
SubscribeFirst(c, k, start) ==
    /\ ~Following(c)
    /\ mapped[k] = None
    /\ Cardinality(Mapped) < MaxWorkers
    /\ Free # {}
    /\ mapped' = [mapped EXCEPT ![k] = LowestFree]
    /\ worker' = [worker EXCEPT ![LowestFree] =
                    [Unused EXCEPT !.stage = "idle", !.key = k, !.last = start, !.subs = {c}]]
    /\ tail' = [tail EXCEPT ![c].worker = LowestFree, ![c].after = start]
    /\ UNCHANGED <<length, resets, doomed>>

\* Another one shares it; the start it asked for is not used.
SubscribeNext(c, k) ==
    /\ ~Following(c)
    /\ mapped[k] # None
    /\ worker' = [worker EXCEPT ![mapped[k]].subs = @ \cup {c}]
    /\ tail' = [tail EXCEPT ![c].worker = mapped[k]]
    /\ UNCHANGED <<length, mapped, resets, doomed>>

\* The request writes an event to the browser.
TakeEvent(c) ==
    /\ tail[c].queued > 0
    /\ tail' = [tail EXCEPT ![c].queued = @ - 1]
    /\ UNCHANGED <<length, mapped, worker, resets, doomed>>

\* A goroutine that has ended is forgotten with its last subscriber.
Kept(r) == IF r.stage = "ended" /\ r.subs = {} THEN Unused ELSE r

\* Fault: whoever is mapped for the stream is deleted.
Unmap_Anyone(k, w) == [mapped EXCEPT ![k] = None]

\* Only the worker itself is taken out of the map.
Unmap(k, w) == [mapped EXCEPT ![k] = IF @ = w THEN None ELSE @]

\* Fault: only a worker that is in the map is cancelled.
Cancel_MappedOnly(c) ==
    LET w == tail[c].worker
        left == worker[w].subs \ {c}
    IN /\ Following(c)
       /\ tail' = [tail EXCEPT ![c] = NoTail]
       /\ worker' = [worker EXCEPT ![w] =
                       Kept([@ EXCEPT !.subs = left,
                                      !.cancelled = \/ worker[w].cancelled
                                                    \/ left = {} /\ w \in Mapped])]
       /\ mapped' = IF left = {} THEN Unmap(worker[w].key, w) ELSE mapped
       /\ UNCHANGED <<length, resets, doomed>>

\* The browser goes away or cannot be written to.  The last one cancels the
\* worker, mapped or not.
Cancel(c) ==
    LET w == tail[c].worker
        left == worker[w].subs \ {c}
    IN /\ Following(c)
       /\ tail' = [tail EXCEPT ![c] = NoTail]
       /\ worker' = [worker EXCEPT ![w] =
                       Kept([@ EXCEPT !.subs = left,
                                      !.cancelled = worker[w].cancelled \/ left = {}])]
       /\ mapped' = IF left = {} THEN Unmap(worker[w].key, w) ELSE mapped
       /\ UNCHANGED <<length, resets, doomed>>

-----------------------------------------------------------------------------
(* The worker.                                                             *)

\* Fault: every read asks for what is new.
StartRead_NewOnly(w) ==
    /\ worker[w].stage = "idle"
    /\ worker' = [worker EXCEPT ![w].stage = "reading",
                                ![w].next = 1 + length[worker[w].key]]
    /\ UNCHANGED <<length, mapped, tail, resets, doomed>>

\* Redis begins to serve a read: after the last id, or what is new by now.
StartRead(w) ==
    /\ worker[w].stage = "idle"
    /\ worker' = [worker EXCEPT ![w].stage = "reading",
                    ![w].next = 1 + IF worker[w].last = None THEN length[worker[w].key]
                                    ELSE worker[w].last]
    /\ UNCHANGED <<length, mapped, tail, resets, doomed>>

Least(a, b) == IF a < b THEN a ELSE b

\* Entries come, also to a worker that was cancelled while it waited.
ReadEntries(w) ==
    LET r == worker[w]
    IN /\ r.stage = "reading"
       /\ r.next <= length[r.key]
       /\ worker' = [worker EXCEPT ![w].stage = "delivering",
                       ![w].upTo = Least(length[r.key], r.next + PageSize - 1)]
       /\ UNCHANGED <<length, mapped, tail, resets, doomed>>

\* run reads again unless it was cancelled, and leaves the map when it ends.
GoOn(w) ==
    LET over == worker[w].cancelled
    IN /\ worker' = [worker EXCEPT ![w] =
                       Kept([@ EXCEPT !.stage = IF over THEN "ended" ELSE "idle",
                                      !.next = 0, !.upTo = 0])]
       /\ mapped' = IF over THEN Unmap(worker[w].key, w) ELSE mapped
       /\ UNCHANGED <<length, tail, resets, doomed>>

\* Nothing came for five seconds, Redis does not answer, the client was
\* closed or the context is over; the pause after an error is left out.
ReadNothing(w) ==
    /\ worker[w].stage = "reading"
    /\ GoOn(w)

\* Every subscriber of this moment gets the entry if its channel has room.
HandOut(w) ==
    LET id == worker[w].next
    IN /\ worker[w].stage = "delivering"
       /\ id <= worker[w].upTo
       /\ worker' = [worker EXCEPT ![w].last = id, ![w].next = id + 1]
       /\ tail' = [c \in Client |->
            IF c \notin worker[w].subs THEN tail[c]
            ELSE IF tail[c].queued < Capacity
                 THEN [tail[c] EXCEPT !.sent = Append(@, id), !.queued = @ + 1]
                 ELSE [tail[c] EXCEPT !.dropped = @ \cup {id}]]
       /\ UNCHANGED <<length, mapped, resets, doomed>>

EndPage(w) ==
    /\ worker[w].stage = "delivering"
    /\ worker[w].next > worker[w].upTo
    /\ GoOn(w)

-----------------------------------------------------------------------------
(* A change of the settings.                                               *)

\* Empties the map; the workers are cancelled one by one after that.
Reset ==
    /\ resets < MaxResets
    /\ resets' = resets + 1
    /\ mapped' = [k \in Key |-> None]
    /\ doomed' = doomed \cup Mapped
    /\ UNCHANGED <<length, worker, tail>>

\* To cancel one that has ended in the meantime does nothing.
CancelDoomed(w) ==
    /\ w \in doomed
    /\ doomed' = doomed \ {w}
    /\ worker' = [worker EXCEPT ![w].cancelled = @ \/ worker[w].stage # "unused"]
    /\ UNCHANGED <<length, mapped, tail, resets>>

-----------------------------------------------------------------------------
TailStep(c) ==
    \/ \E k \in Key : \/ \E start \in Start : SubscribeFirst(c, k, start)
                      \/ SubscribeNext(c, k)
    \/ TakeEvent(c)
    \/ Cancel(c)

WorkerStep(w) ==
    \/ StartRead(w)
    \/ ReadEntries(w)
    \/ ReadNothing(w)
    \/ HandOut(w)
    \/ EndPage(w)

Next ==
    \/ \E k \in Key : AddEntry(k)
    \/ \E c \in Client : TailStep(c)
    \/ \E w \in Worker : WorkerStep(w) \/ CancelDoomed(w)
    \/ Reset

\* A goroutine is scheduled, and a read ends within its five seconds.
Spec == Init /\ [][Next]_vars /\ \A w \in Worker : WF_vars(WorkerStep(w))

-----------------------------------------------------------------------------
Running(w) == worker[w].stage \notin {"unused", "ended"}

(* A client misses nothing but what its channel had no room for: from the  *)
(* first entry handed to it on, or from the one its Last-Event-ID names if *)
(* it is the first of the stream, every entry up to the worker's last one  *)
(* was put into its channel, in order and once, or dropped, whoever comes  *)
(* and goes and whatever read fails meanwhile.                             *)
StreamIsContiguous ==
    \A c \in Client : Following(c) =>
        LET sent == ToSet(tail[c].sent)
            handed == sent \cup tail[c].dropped
        IN /\ \A i, j \in DOMAIN tail[c].sent : i < j => tail[c].sent[i] < tail[c].sent[j]
           /\ sent \cap tail[c].dropped = {}
           /\ tail[c].after # None =>
                tail[c].after + 1..worker[tail[c].worker].last \subseteq handed
           /\ \A id \in handed : id..worker[tail[c].worker].last \subseteq handed

(* The limit on live tails holds for the workers that read, not only for   *)
(* the map: a worker that is not cancelled, nor about to be by a reset,    *)
(* is the one in the map for its stream, whatever subscribers of an older  *)
(* worker of the same stream do.  (server_test.go: "expected the stopped   *)
(* worker to be removed before a reconnect".)                              *)
ReadersWithinLimit ==
    LET readers == {w \in Worker : Running(w) /\ ~worker[w].cancelled} \ doomed
    IN /\ Cardinality(readers) <= MaxWorkers
       /\ \A w \in readers : mapped[worker[w].key] = w

(* No goroutine is left behind: a worker that nobody follows stops, also   *)
(* one that a reset took out of the map while clients still followed it    *)
(* and one that is in the middle of a read when its last client leaves.    *)
NobodyReadsForNobody ==
    \A w \in Worker : (Running(w) /\ worker[w].subs = {}) ~> ~Running(w)
=============================================================================
