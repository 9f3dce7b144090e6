---------------------- MODULE MonitoringHistory_proofs ----------------------
(***************************************************************************)
(* For any streams, groups, consumers, nodes, requests and budgets: the    *)
(* types, one collector at a time, consumers that have a row only with     *)
(* their group, complete samples that leave nothing of earlier ones, rows  *)
(* that never go back to an older sample, and events of consumers and of   *)
(* nodes that are true of what the collection read.                        *)
(***************************************************************************)
EXTENDS MonitoringHistory, TLAPS, FiniteSetTheorems

USE DEF CollectorPhase

\* A snapshot shows consumers of those groups only that it sampled, and no node of a
\* deployment that did not answer.
Shows(snap) ==
    /\ \A g \in Group, x \in Consumer :
          snap.consumer[g][x] # "absent" => snap.group[g] \in {"sampled", "truncated"}
    /\ ~snap.up => snap.node = {}

\* The inductive invariant.
IInv ==
    /\ TypeOK
    /\ Shows(snapshot)
    /\ \A c \in Caller : Shows(call[c].snap)
    /\ OneCollector
    /\ NoOrphanConsumers

-----------------------------------------------------------------------------
(* Snapshots and calls.                                                     *)

LEMMA NoSnapshotType == NoSnapshot \in Snapshot /\ Shows(NoSnapshot)
BY DEF NoSnapshot, Snapshot, Shows, Age, Reply, SampleStatus, Work

LEMMA IdleType == Idle \in Call /\ Shows(Idle.snap)
BY NoSnapshotType, MonitorAssumption DEF Idle, Call, Phase

LEMMA OlderType ==
    ASSUME NEW a \in Age \cup {None}
    PROVE  /\ Older(a) \in Age \cup {None}
           /\ a \in Age => Older(a) \in Age
BY MonitorAssumption DEF Older, Age

LEMMA AgedType ==
    ASSUME NEW s \in Snapshot, Shows(s)
    PROVE  Aged(s) \in Snapshot /\ Shows(Aged(s))
<1>1. Older(s.nodeAge) \in Age \cup {None} /\ Older(s.streamAge) \in Age \cup {None}
  BY OlderType DEF Snapshot
<1>2. QED
  BY <1>1 DEF Aged, Snapshot, Shows

\* A step of one caller that leaves it at phase p, with the snapshot sn.
LEMMA CallStep ==
    ASSUME TypeOK, \A d \in Caller : Shows(call[d].snap),
           NEW c \in Caller, NEW r \in Call, Shows(r.snap),
           call' = [call EXCEPT ![c] = r]
    PROVE  /\ call' \in [Caller -> Call]
           /\ \A d \in Caller : Shows(call'[d].snap)
BY DEF TypeOK, MonitorTypeOK

\* The mark follows the phase of the caller.
LEMMA Marks ==
    ASSUME TypeOK, OneCollector, NEW c \in Caller, NEW r,
           call' = [call EXCEPT ![c] = r],
           \/ /\ r.phase \in CollectorPhase <=> call[c].phase \in CollectorPhase
              /\ collecting' = collecting
           \/ r.phase \in CollectorPhase /\ ~collecting /\ collecting' = TRUE
           \/ /\ r.phase \notin CollectorPhase /\ call[c].phase \in CollectorPhase
              /\ collecting' = FALSE
    PROVE  OneCollector'
<1> DEFINE in(d) == call[d].phase \in CollectorPhase
           in2(d) == call'[d].phase \in CollectorPhase
<1>1. /\ call'[c] = r
      /\ \A d \in Caller \ {c} : call'[d] = call[d]
  BY DEF TypeOK, MonitorTypeOK
<1>2. /\ collecting => \E d \in Caller : in(d)
      /\ \A d \in Caller : in(d) => collecting
      /\ \A d, e \in Caller : in(d) /\ in(e) => d = e
      /\ collecting \in BOOLEAN
  BY DEF OneCollector, TypeOK, MonitorTypeOK
<1>3. /\ collecting' <=> \E d \in Caller : in2(d)
      /\ \A d, e \in Caller : in2(d) /\ in2(e) => d = e
  BY <1>1, <1>2
<1>4. QED
  BY <1>3 DEF OneCollector

LEMMA SameRows ==
    ASSUME IInv, UNCHANGED tables
    PROVE  /\ groupRow' \in [Group -> GroupRow \cup {None}]
           /\ consumerRow' \in [Group -> [Consumer -> ConsumerRow \cup {None}]]
           /\ topology' \in Topology \cup {None}
           /\ NoOrphanConsumers'
BY DEF IInv, TypeOK, NoOrphanConsumers, tables

LEMMA UnseenType == Unseen \in [Group -> [Consumer -> SUBSET Work]]
BY DEF Unseen

LEMMA InitIInv == Init => IInv
<1> SUFFICES ASSUME Init
             PROVE  IInv
  OBVIOUS
<1>1. TypeOK
  <2>1. MonitorTypeOK
    <3>1. redis \in Redis
      BY DEF Init, MonitorInit, Redis, Work
    <3>2. changes \in 0..MaxChanges /\ faults \in 0..MaxFaults
      BY MonitorAssumption DEF Init, MonitorInit
    <3>3. QED
      BY <3>1, <3>2, NoSnapshotType, IdleType, UnseenType DEF Init, MonitorInit, MonitorTypeOK
  <2>2. QED
    BY <2>1 DEF Init, TypeOK
<1>2. Shows(snapshot) /\ \A c \in Caller : Shows(call[c].snap)
  BY NoSnapshotType, IdleType DEF Init, MonitorInit
<1>3. OneCollector
  BY DEF Init, MonitorInit, OneCollector, Idle
<1>4. NoOrphanConsumers
  BY DEF Init, NoOrphanConsumers
<1>5. QED
  BY <1>1, <1>2, <1>3, <1>4 DEF IInv

-----------------------------------------------------------------------------
(* Redis and what is monitored.                                             *)

LEMMA FaultType ==
    ASSUME TypeOK, Fault
    PROVE  faults' \in 0..MaxFaults
BY MonitorAssumption DEF TypeOK, MonitorTypeOK, Fault

LEMMA RedisFields ==
    ASSUME TypeOK
    PROVE  /\ redis = [up |-> redis.up, node |-> redis.node, key |-> redis.key,
                       group |-> redis.group, consumer |-> redis.consumer]
           /\ redis.up \in BOOLEAN /\ redis.node \subseteq Node /\ redis.key \subseteq Stream
           /\ redis.group \subseteq Group /\ redis.consumer \in [Group -> [Consumer -> Work]]
BY DEF TypeOK, MonitorTypeOK, Redis

\* Whatever changes, Redis and what is monitored stay what they may be.
LEMMA EnvironmentChanges ==
    ASSUME TypeOK,
           \/ ReachableOrNot
           \/ \E n \in Node : NodeChanges(n)
           \/ \E g \in Group : GroupCreated(g) \/ GroupDestroyed(g)
           \/ \E s \in Stream : StreamDeleted(s) \/ MonitorOrNot(s)
           \/ \E g \in Group, x \in Consumer : ConsumerChanges(g, x)
    PROVE  \E r \in Redis, m \in SUBSET Stream : Change(r, m)
<1>0. redis \in Redis /\ monitored \in SUBSET Stream
  BY DEF TypeOK, MonitorTypeOK
<1>1. CASE ReachableOrNot
  <2>1. [redis EXCEPT !.up = ~redis.up] \in Redis
    BY RedisFields DEF Redis
  <2>2. QED
    BY <1>0, <1>1, <2>1 DEF ReachableOrNot
<1>2. ASSUME NEW n \in Node, NodeChanges(n)
      PROVE  \E r \in Redis, m \in SUBSET Stream : Change(r, m)
  <2>1. Flipped(redis.node, n) \subseteq Node
    BY RedisFields DEF Flipped
  <2>2. [redis EXCEPT !.node = Flipped(redis.node, n)] \in Redis
    BY <2>1, RedisFields DEF Redis
  <2>3. QED
    BY <1>0, <1>2, <2>2 DEF NodeChanges
<1>3. ASSUME NEW g \in Group, GroupCreated(g)
      PROVE  \E r \in Redis, m \in SUBSET Stream : Change(r, m)
  <2>1. StreamOf[g] \in Stream
    BY MonitorAssumption
  <2>2. [redis EXCEPT !.group = redis.group \cup {g}, !.key = redis.key \cup {StreamOf[g]}] \in Redis
    BY <2>1, RedisFields DEF Redis
  <2>3. QED
    BY <1>0, <1>3, <2>2 DEF GroupCreated
<1>4. ASSUME NEW groups, NEW keys, GroupsLost(groups, keys)
      PROVE  \E r \in Redis, m \in SUBSET Stream : Change(r, m)
  <2> DEFINE consumer == [g \in Group |->
                 IF g \in groups THEN [x \in Consumer |-> "absent"] ELSE redis.consumer[g]]
             next == [redis EXCEPT !.group = redis.group \ groups, !.key = redis.key \ keys,
                                   !.consumer = consumer]
  <2>1. consumer \in [Group -> [Consumer -> Work]]
    BY RedisFields DEF Work
  <2>2. Change(next, monitored)
    BY <1>4 DEF GroupsLost
  <2>3. next \in Redis
    <3> HIDE DEF consumer
    <3>1. QED
      BY <2>1, RedisFields DEF Redis
  <2> HIDE DEF next
  <2>4. QED
    BY <1>0, <2>2, <2>3
<1>5. ASSUME NEW s \in Stream, MonitorOrNot(s)
      PROVE  \E r \in Redis, m \in SUBSET Stream : Change(r, m)
  <2>1. Flipped(monitored, s) \in SUBSET Stream
    BY <1>0 DEF Flipped
  <2>2. QED
    BY <1>0, <1>5, <2>1 DEF MonitorOrNot
<1>6. ASSUME NEW g \in Group, NEW x \in Consumer, ConsumerChanges(g, x)
      PROVE  \E r \in Redis, m \in SUBSET Stream : Change(r, m)
  <2>1. PICK w \in Work : Change([redis EXCEPT !.consumer[g][x] = w], monitored)
    BY <1>6 DEF ConsumerChanges
  <2> DEFINE consumer == [redis.consumer EXCEPT ![g][x] = w]
  <2>2. consumer \in [Group -> [Consumer -> Work]]
    BY RedisFields
  <2>3. [redis EXCEPT !.consumer[g][x] = w] = [redis EXCEPT !.consumer = consumer]
    BY RedisFields
  <2>4. [redis EXCEPT !.consumer = consumer] \in Redis
    <3> HIDE DEF consumer
    <3>1. QED
      BY <2>2, RedisFields DEF Redis
  <2>5. QED
    BY <1>0, <2>1, <2>3, <2>4
<1>7. QED
  BY <1>1, <1>2, <1>3, <1>4, <1>5, <1>6 DEF GroupDestroyed, StreamDeleted

LEMMA ChangeKeeps ==
    ASSUME IInv, NEW r \in Redis, NEW m \in SUBSET Stream, Change(r, m), UNCHANGED tables
    PROVE  IInv'
<1>1. changes' \in 0..MaxChanges
  BY MonitorAssumption DEF IInv, TypeOK, MonitorTypeOK, Change
<1>2. seen' \in [Group -> [Consumer -> SUBSET Work]]
  BY DEF IInv, TypeOK, MonitorTypeOK, Change, Redis
<1>3. TypeOK'
  BY <1>1, <1>2, SameRows DEF IInv, TypeOK, MonitorTypeOK, Change
<1>4. OneCollector' /\ Shows(snapshot)' /\ \A c \in Caller : Shows(call[c].snap)'
  BY DEF IInv, Change, OneCollector, Shows
<1>5. QED
  BY <1>3, <1>4, SameRows DEF IInv

-----------------------------------------------------------------------------
(* CollectConnection.                                                       *)

\* A caller moves on and leaves the rows alone.
LEMMA CallerKeeps ==
    ASSUME IInv, NEW c \in Caller, NEW r \in Call, Shows(r.snap),
           call' = [call EXCEPT ![c] = r], UNCHANGED <<redis, monitored, changes, tables>>,
           snapshot' \in Snapshot, Shows(snapshot'), collecting' \in BOOLEAN,
           faults' \in 0..MaxFaults, seen' \in [Group -> [Consumer -> SUBSET Work]],
           OneCollector'
    PROVE  IInv'
<1>1. call' \in [Caller -> Call] /\ \A d \in Caller : Shows(call'[d].snap)
  BY CallStep DEF IInv
<1>2. TypeOK'
  BY <1>1, SameRows DEF IInv, TypeOK, MonitorTypeOK
<1>3. Shows(snapshot)' /\ \A d \in Caller : Shows(call[d].snap)'
  BY <1>1 DEF Shows
<1>4. QED
  BY <1>2, <1>3, SameRows DEF IInv

LEMMA CallFields ==
    ASSUME IInv, NEW c \in Caller
    PROVE  /\ call[c] \in Call
           /\ call[c] = [phase |-> call[c].phase, lag |-> call[c].lag,
                         streams |-> call[c].streams, due |-> call[c].due, snap |-> call[c].snap,
                         todo |-> call[c].todo, calls |-> call[c].calls, room |-> call[c].room]
           /\ call[c].phase \in Phase /\ call[c].lag \in 0..CallTime
           /\ call[c].streams \subseteq Stream /\ call[c].due \in BOOLEAN
           /\ call[c].snap \in Snapshot /\ Shows(call[c].snap)
           /\ call[c].todo \subseteq Group
           /\ call[c].calls \in 0..MaxConsumerCalls /\ call[c].room \in 0..MaxConsumers
           /\ seen \in [Group -> [Consumer -> SUBSET Work]]
           /\ snapshot \in Snapshot /\ Shows(snapshot) /\ collecting \in BOOLEAN
           /\ faults \in 0..MaxFaults /\ monitored \subseteq Stream
           /\ call \in [Caller -> Call]
BY DEF IInv, TypeOK, MonitorTypeOK, Call

LEMMA AskKeeps ==
    ASSUME IInv, NEW c \in Caller, Ask(c), UNCHANGED tables
    PROVE  IInv'
<1> DEFINE r == [call[c] EXCEPT !.phase = "asked", !.streams = monitored]
<1>1. r \in Call /\ Shows(r.snap) /\ r.phase = "asked"
  BY CallFields DEF Call, Phase
<1>2. call' = [call EXCEPT ![c] = r]
  BY DEF Ask
<1> HIDE DEF r
<1>3. OneCollector'
  BY <1>1, <1>2, Marks DEF IInv, Ask, monitorVars
<1>4. QED
  BY <1>1, <1>2, <1>3, CallerKeeps, CallFields DEF Ask, monitorVars

LEMMA CoalesceKeeps ==
    ASSUME IInv, NEW c \in Caller, Coalesce(c), UNCHANGED tables
    PROVE  IInv'
<1> DEFINE r == [call[c] EXCEPT !.phase = "record", !.streams = {}, !.snap = snapshot]
<1>1. r \in Call /\ Shows(r.snap) /\ r.phase = "record"
  BY CallFields DEF Call, Phase
<1>2. call' = [call EXCEPT ![c] = r]
  BY DEF Coalesce
<1> HIDE DEF r
<1>3. OneCollector'
  BY <1>1, <1>2, Marks DEF IInv, Coalesce, monitorVars
<1>4. QED
  BY <1>1, <1>2, <1>3, CallerKeeps, CallFields DEF Coalesce, monitorVars

LEMMA BeginKeeps ==
    ASSUME IInv, NEW c \in Caller, NEW sn \in Snapshot, Shows(sn), Begin(c, sn),
           faults' \in 0..MaxFaults, UNCHANGED tables
    PROVE  IInv'
<1> DEFINE d == sn.up /\ Elapsed(snapshot.streamAge, StreamInterval)
           r == [call[c] EXCEPT !.phase = "streams", !.lag = 0, !.snap = sn, !.due = d]
<1>1. d \in BOOLEAN
  BY DEF Elapsed, Snapshot
<1> HIDE DEF d
<1>2. r \in Call /\ Shows(r.snap) /\ r.phase = "streams"
  <2>1. 0 \in 0..CallTime
    BY MonitorAssumption
  <2>2. QED
    BY <1>1, <2>1, CallFields DEF Call, Phase
<1>3. call' = [call EXCEPT ![c] = r]
  BY DEF Begin, d
<1> HIDE DEF r
<1>4. OneCollector'
  BY <1>2, <1>3, Marks DEF IInv, Begin
<1>5. QED
  BY <1>2, <1>3, <1>4, CallerKeeps, CallFields DEF Begin

LEMMA SampledNodesType ==
    ASSUME IInv, NEW up \in BOOLEAN, NEW node \in SUBSET Node, ~up => node = {}
    PROVE  SampledNodes(up, node) \in Snapshot /\ Shows(SampledNodes(up, node))
<1>1. snapshot \in Snapshot /\ Shows(snapshot) /\ 0 \in Age
  BY MonitorAssumption DEF IInv, TypeOK, MonitorTypeOK, Age
<1>2. QED
  BY <1>1 DEF SampledNodes, Snapshot, Shows

LEMMA BeginsKeep ==
    ASSUME IInv, NEW c \in Caller,
           \/ BeginWithNodes(c) \/ BeginWithSomeNodes(c)
           \/ BeginWithoutAnswer(c) \/ BeginNotDue(c),
           UNCHANGED tables
    PROVE  IInv'
<1>1. CASE BeginWithNodes(c)
  <2>1. redis.node \subseteq Node
    BY RedisFields DEF IInv
  <2>2. SampledNodes(TRUE, redis.node) \in Snapshot /\ Shows(SampledNodes(TRUE, redis.node))
    BY <2>1, SampledNodesType
  <2>3. faults' \in 0..MaxFaults
    BY <1>1, CallFields DEF BeginWithNodes
  <2>4. QED
    BY <1>1, <2>2, <2>3, BeginKeeps DEF BeginWithNodes
<1>2. CASE BeginWithoutAnswer(c)
  <2>1. SampledNodes(FALSE, {}) \in Snapshot /\ Shows(SampledNodes(FALSE, {}))
    BY SampledNodesType
  <2>2. faults' \in 0..MaxFaults
    BY <1>2, CallFields, FaultType DEF BeginWithoutAnswer, IInv
  <2>3. QED
    BY <1>2, <2>1, <2>2, BeginKeeps DEF BeginWithoutAnswer
<1>3. CASE BeginNotDue(c)
  BY <1>3, BeginKeeps, CallFields DEF BeginNotDue
<1>4. CASE BeginWithSomeNodes(c)
  <2>1. PICK nodes \in SUBSET redis.node : Begin(c, SampledNodes(TRUE, nodes))
    BY <1>4 DEF BeginWithSomeNodes
  <2>2. nodes \in SUBSET Node
    BY RedisFields DEF IInv
  <2>3. SampledNodes(TRUE, nodes) \in Snapshot /\ Shows(SampledNodes(TRUE, nodes))
    BY <2>2, SampledNodesType
  <2>4. faults' \in 0..MaxFaults
    BY <1>4, FaultType DEF BeginWithSomeNodes, IInv
  <2>5. QED
    BY <2>1, <2>3, <2>4, BeginKeeps
<1>5. QED
  BY <1>1, <1>2, <1>3, <1>4

LEMMA StoreKeeps ==
    ASSUME IInv, NEW c \in Caller, StreamsNotDue(c) \/ StoreStreams(c), UNCHANGED tables
    PROVE  IInv'
<1> DEFINE r == [Idle EXCEPT !.phase = "record", !.lag = call[c].lag, !.snap = call[c].snap]
<1>0. call[c].phase \in CollectorPhase /\ Store(c)
  BY DEF StreamsNotDue, StoreStreams
<1>1. r \in Call /\ Shows(r.snap) /\ r.phase = "record"
  BY IdleType, CallFields DEF Call, Phase
<1>2. call' = [call EXCEPT ![c] = r]
  BY <1>0 DEF Store
<1> HIDE DEF r
<1>3. OneCollector'
  BY <1>0, <1>1, <1>2, Marks DEF IInv, Store
<1>4. QED
  BY <1>0, <1>1, <1>2, <1>3, CallerKeeps, CallFields, UnseenType DEF Store

NothingShown(snap) ==
    /\ \A g \in Group : snap.group[g] # "sampled"
    /\ \A g \in Group, x \in Consumer : snap.consumer[g][x] = "absent"

\* The snapshot once the groups are read.
LEMMA ListingType ==
    ASSUME IInv, NEW c \in Caller, NEW streams, NEW groups, NEW taken \in SUBSET redis.group,
           NEW reply \in [Stream -> Reply]
    PROVE  /\ Listing(c, streams, groups, taken, reply) \in Snapshot
           /\ Shows(Listing(c, streams, groups, taken, reply))
           /\ NothingShown(Listing(c, streams, groups, taken, reply))
<1> DEFINE status == [g \in Group |-> IF g \in taken THEN "failed" ELSE "absent"]
           shown == [g \in Group |-> [x \in Consumer |-> "absent"]]
           cut == Cardinality(streams) > MaxStreams
           less == taken # groups
           sn == [call[c].snap EXCEPT
               !.streamAge = call[c].lag, !.stream = reply, !.group = status, !.consumer = shown,
               !.streamsTruncated = cut, !.groupsTruncated = less]
<1>1. shown \in [Group -> [Consumer -> Work]] /\ status \in [Group -> SampleStatus]
  BY DEF Work, SampleStatus
<1>2. cut \in BOOLEAN /\ less \in BOOLEAN
  OBVIOUS
<1>3. call[c].lag \in Age
  <2>1. call[c].lag \in 0..CallTime
    BY CallFields
  <2>2. CallTime \in Nat /\ Horizon \in Nat /\ CallTime <= Horizon
    BY MonitorAssumption
  <2>3. QED
    BY <2>1, <2>2 DEF Age
<1>4. sn \in Snapshot /\ sn.group = status /\ sn.consumer = shown
      /\ sn.up = call[c].snap.up /\ sn.node = call[c].snap.node
  <2> HIDE DEF shown, status, cut, less
  <2>1. QED
    BY <1>1, <1>2, <1>3, CallFields DEF Snapshot
<1>5. sn = Listing(c, streams, groups, taken, reply)
  BY DEF Listing
<1> HIDE DEF sn
<1>6. NothingShown(sn)
  BY <1>4 DEF NothingShown
<1>7. ~call[c].snap.up => call[c].snap.node = {}
  BY CallFields DEF Shows
<1> HIDE DEF status, shown, cut, less
<1>8. Shows(sn)
  BY <1>4, <1>6, <1>7 DEF Shows, NothingShown
<1>9. QED
  BY <1>4, <1>5, <1>6, <1>8

LEMMA ReadStreamsKeeps ==
    ASSUME IInv, NEW c \in Caller, ReadStreams(c), UNCHANGED tables
    PROVE  IInv'
<1>1. PICK reply \in [Stream -> Reply], taken \in SUBSET redis.group :
          call' = [call EXCEPT ![c] = [@ EXCEPT
              !.phase = "consumers", !.streams = {}, !.due = FALSE,
              !.snap = Listing(c, call[c].streams,
                               {g \in redis.group : reply[StreamOf[g]] = "listed"}, taken, reply),
              !.todo = taken, !.calls = MaxConsumerCalls, !.room = MaxConsumers]]
  BY DEF ReadStreams
<1> DEFINE groups == {g \in redis.group : reply[StreamOf[g]] = "listed"}
           sn == Listing(c, call[c].streams, groups, taken, reply)
           r == [call[c] EXCEPT !.phase = "consumers", !.streams = {}, !.due = FALSE, !.snap = sn,
                                !.todo = taken, !.calls = MaxConsumerCalls, !.room = MaxConsumers]
<1>2. sn \in Snapshot /\ Shows(sn)
  BY ListingType
<1>3. call' = [call EXCEPT ![c] = r]
  BY <1>1
<1>4. r \in Call /\ r.snap = sn /\ r.phase = "consumers"
  <2>1. taken \subseteq Group
    BY RedisFields DEF IInv
  <2>2. MaxConsumerCalls \in 0..MaxConsumerCalls /\ MaxConsumers \in 0..MaxConsumers
    BY MonitorAssumption
  <2> HIDE DEF sn
  <2>3. QED
    BY <1>2, <2>1, <2>2, CallFields DEF Call, Phase
<1> HIDE DEF r, sn
<1>5. faults' \in 0..MaxFaults
  BY CallFields, FaultType DEF ReadStreams, IInv
<1>6. OneCollector'
  BY <1>3, <1>4, Marks DEF IInv, ReadStreams
<1>7. seen' \in [Group -> [Consumer -> SUBSET Work]]
  BY RedisFields DEF ReadStreams, IInv
<1>8. QED
  BY <1>2, <1>3, <1>4, <1>5, <1>6, <1>7, CallerKeeps, CallFields DEF ReadStreams

\* The call goes on with its next group.
LEMMA NextGroupKeeps ==
    ASSUME IInv, NEW c \in Caller, call[c].phase = "consumers", NEW g \in Group,
           NEW sn \in Snapshot, Shows(sn),
           NEW calls \in 0..MaxConsumerCalls, NEW room \in 0..MaxConsumers,
           NextGroup(c, g, sn, calls, room), faults' \in 0..MaxFaults, UNCHANGED tables
    PROVE  IInv'
<1> DEFINE r == [call[c] EXCEPT !.snap = sn, !.todo = call[c].todo \ {g},
                                !.calls = calls, !.room = room]
<1>1. r \in Call /\ Shows(r.snap) /\ r.phase = "consumers"
  BY CallFields DEF Call
<1>2. call' = [call EXCEPT ![c] = r]
  BY DEF NextGroup
<1> HIDE DEF r
<1>3. OneCollector'
  BY <1>1, <1>2, Marks DEF IInv, NextGroup, monitorVars
<1>4. QED
  BY <1>1, <1>2, <1>3, CallerKeeps, CallFields DEF NextGroup, monitorVars

LEMMA Budgets ==
    ASSUME IInv, NEW c \in Caller, InBudget(c)
    PROVE  /\ call[c].calls \in Nat /\ call[c].calls > 0 /\ call[c].calls <= MaxConsumerCalls
           /\ call[c].room \in Nat /\ call[c].room > 0 /\ call[c].room <= MaxConsumers
           /\ call[c].calls - 1 \in 0..MaxConsumerCalls
<1>1. call[c].calls \in 0..MaxConsumerCalls /\ call[c].room \in 0..MaxConsumers
  BY CallFields
<1>2. MaxConsumerCalls \in Nat /\ MaxConsumers \in Nat
  BY MonitorAssumption
<1>3. QED
  BY <1>1, <1>2 DEF InBudget

\* What XINFO CONSUMERS of a group makes of a snapshot: with the status "sampled" nothing
\* is cut off, as many consumers are shown as the group has.
LEMMA SampledGroup ==
    ASSUME IInv, NEW c \in Caller, NEW g \in Group, SampleConsumers(c, g)
    PROVE  \E sn \in Snapshot, calls \in 0..MaxConsumerCalls, room \in 0..MaxConsumers :
               /\ NextGroup(c, g, sn, calls, room)
               /\ Shows(sn)
               /\ \A h \in Group \ {g} :
                     sn.group[h] = call[c].snap.group[h] /\ sn.consumer[h] = call[c].snap.consumer[h]
               /\ \A x \in Consumer : sn.consumer[g][x] \in {"absent", redis.consumer[g][x]}
               /\ sn.group[g] = "sampled" => \A x \in Consumer : sn.consumer[g][x] = redis.consumer[g][x]
<1> DEFINE n == Cardinality(Present(g))
           limit == AtMost(AtMost(n, MaxConsumersPerGroup), call[c].room)
           status == SampleStatusOf(n, call[c].room)
<1>1. PICK shown \in SUBSET Present(g) :
          /\ Cardinality(shown) = limit
          /\ NextGroup(c, g,
                [call[c].snap EXCEPT
                    !.group[g] = status,
                    !.consumer[g] = [x \in Consumer |->
                        IF x \in shown THEN redis.consumer[g][x] ELSE "absent"]],
                call[c].calls - 1, call[c].room - limit)
  BY DEF SampleConsumers
<1> DEFINE names == [x \in Consumer |-> IF x \in shown THEN redis.consumer[g][x] ELSE "absent"]
           sn == [call[c].snap EXCEPT !.group[g] = status, !.consumer[g] = names]
<1>2. IsFiniteSet(Present(g)) /\ n \in Nat
  <2>1. Present(g) \subseteq Consumer /\ IsFiniteSet(Consumer)
    BY MonitorAssumption DEF Present
  <2>2. QED
    BY <2>1, FS_Subset, FS_CardinalityType
<1>3. InBudget(c)
  BY DEF SampleConsumers
<1>4. /\ limit \in Nat /\ limit <= call[c].room
      /\ ~(n > MaxConsumersPerGroup) /\ ~(n > call[c].room) => limit = n
  <2>1. call[c].room \in Nat /\ MaxConsumersPerGroup \in Nat
    BY <1>3, Budgets, MonitorAssumption
  <2> HIDE DEF n
  <2>2. QED
    BY <1>2, <2>1 DEF AtMost
<1>5. /\ status \in {"sampled", "truncated"}
      /\ status = "sampled" => ~(n > MaxConsumersPerGroup) /\ ~(n > call[c].room)
  BY DEF SampleStatusOf
<1>6. status = "sampled" => shown = Present(g)
  <2>1. ASSUME status = "sampled"
        PROVE  shown = Present(g)
    <3>1. Cardinality(shown) = Cardinality(Present(g))
      BY <1>1, <1>4, <1>5, <2>1
    <3>2. QED
      BY <1>2, <3>1, FS_Subset
  <2>2. QED
    BY <2>1
<1>7. /\ names \in [Consumer -> Work]
      /\ \A x \in Consumer : names[x] \in {"absent", redis.consumer[g][x]}
  BY RedisFields DEF IInv, Work
<1>8. status = "sampled" => \A x \in Consumer : names[x] = redis.consumer[g][x]
  BY <1>6 DEF Present
<1>9. call[c].calls - 1 \in 0..MaxConsumerCalls /\ call[c].room - limit \in 0..MaxConsumers
  <2>1. /\ call[c].room \in Nat /\ call[c].room <= MaxConsumers
        /\ MaxConsumers \in Nat /\ call[c].calls - 1 \in 0..MaxConsumerCalls
    BY <1>3, Budgets, MonitorAssumption
  <2> HIDE DEF limit
  <2>2. QED
    BY <1>4, <2>1
<1>10. NextGroup(c, g, sn, call[c].calls - 1, call[c].room - limit)
  BY <1>1
<1> HIDE DEF n, limit, status, names
<1>11. /\ sn \in Snapshot /\ Shows(sn)
       /\ sn.group[g] = status /\ sn.consumer[g] = names
       /\ \A h \in Group \ {g} : /\ sn.group[h] = call[c].snap.group[h]
                                 /\ sn.consumer[h] = call[c].snap.consumer[h]
  <2> DEFINE old == call[c].snap
             group == [old.group EXCEPT ![g] = status]
             consumer == [old.consumer EXCEPT ![g] = names]
  <2>1. old \in Snapshot /\ Shows(old)
    BY CallFields
  <2>2. sn = [old EXCEPT !.group = group, !.consumer = consumer]
    BY <2>1 DEF Snapshot
  <2> HIDE DEF sn, old
  <2>3. /\ old.group \in [Group -> SampleStatus] /\ status \in SampleStatus
        /\ old.consumer \in [Group -> [Consumer -> Work]]
    BY <1>5, <2>1 DEF Snapshot, SampleStatus
  <2>4. /\ group \in [Group -> SampleStatus] /\ group[g] = status
        /\ \A h \in Group \ {g} : group[h] = old.group[h]
    BY <2>3
  <2>5. /\ consumer \in [Group -> [Consumer -> Work]] /\ consumer[g] = names
        /\ \A h \in Group \ {g} : consumer[h] = old.consumer[h]
    BY <1>7, <2>3
  <2> HIDE DEF group, consumer
  <2>6. /\ sn \in Snapshot /\ sn.group = group /\ sn.consumer = consumer
        /\ sn.up = old.up /\ sn.node = old.node
    BY <2>1, <2>2, <2>4, <2>5 DEF Snapshot
  <2>7. Shows(sn)
    <3>1. ASSUME NEW h \in Group, NEW x \in Consumer, sn.consumer[h][x] # "absent"
          PROVE  sn.group[h] \in {"sampled", "truncated"}
      <4>1. CASE h = g
        BY <1>5, <2>4, <2>6, <4>1
      <4>2. CASE h # g
        BY <2>1, <2>4, <2>5, <2>6, <3>1, <4>2 DEF Shows
      <4>3. QED
        BY <4>1, <4>2
    <3>2. QED
      BY <2>1, <2>6, <3>1 DEF Shows
  <2>8. QED
    BY <2>4, <2>5, <2>6, <2>7 DEF old
<1> HIDE DEF sn
<1>12. QED
  BY <1>7, <1>8, <1>9, <1>10, <1>11

\* A group that is not read stays as it was listed.
LEMMA SkippedGroup ==
    ASSUME IInv, NEW c \in Caller, NEW g \in Group,
           ConsumersNotRead(c, g) \/ ConsumersNotAsked(c, g)
    PROVE  \E calls \in 0..MaxConsumerCalls, room \in 0..MaxConsumers :
               NextGroup(c, g, call[c].snap, calls, room)
<1>1. CASE ConsumersNotRead(c, g)
  <2>1. call[c].calls - 1 \in 0..MaxConsumerCalls
    BY <1>1, Budgets DEF ConsumersNotRead
  <2>2. QED
    BY <1>1, <2>1, CallFields DEF ConsumersNotRead
<1>2. CASE ConsumersNotAsked(c, g)
  BY <1>2, CallFields DEF ConsumersNotAsked
<1>3. QED
  BY <1>1, <1>2

LEMMA ReadConsumersKeeps ==
    ASSUME IInv, NEW c \in Caller, NEW g \in Group,
           SampleConsumers(c, g) \/ ConsumersNotRead(c, g) \/ ConsumersNotAsked(c, g),
           UNCHANGED tables
    PROVE  IInv'
<1>1. call[c].phase = "consumers"
  BY DEF SampleConsumers, ConsumersNotRead, ConsumersNotAsked
<1>2. faults' \in 0..MaxFaults
  BY CallFields, FaultType DEF SampleConsumers, ConsumersNotRead, ConsumersNotAsked, IInv
<1>3. CASE SampleConsumers(c, g)
  BY <1>1, <1>2, <1>3, SampledGroup, NextGroupKeeps
<1>4. CASE ConsumersNotRead(c, g) \/ ConsumersNotAsked(c, g)
  BY <1>1, <1>2, <1>4, SkippedGroup, NextGroupKeeps, CallFields
<1>5. QED
  BY <1>3, <1>4

-----------------------------------------------------------------------------
(* What is recorded.                                                        *)

\* A caller moves on after its collection; the monitor is left alone.
LEMMA RecorderKeeps ==
    ASSUME IInv, NEW c \in Caller, NEW r \in Call, Shows(r.snap),
           call[c].phase \notin CollectorPhase, r.phase \notin CollectorPhase,
           call' = [call EXCEPT ![c] = r],
           UNCHANGED <<redis, monitored, monitorVars, changes>>,
           faults' \in 0..MaxFaults,
           groupRow' \in [Group -> GroupRow \cup {None}],
           consumerRow' \in [Group -> [Consumer -> ConsumerRow \cup {None}]],
           topology' \in Topology \cup {None},
           NoOrphanConsumers'
    PROVE  IInv'
<1>1. call' \in [Caller -> Call] /\ \A d \in Caller : Shows(call'[d].snap)
  BY CallStep DEF IInv
<1>2. TypeOK'
  BY <1>1 DEF IInv, TypeOK, MonitorTypeOK, monitorVars
<1>3. OneCollector'
  BY Marks DEF IInv, monitorVars
<1>4. Shows(snapshot)' /\ \A d \in Caller : Shows(call[d].snap)'
  BY <1>1 DEF Shows, IInv, monitorVars
<1>5. QED
  BY <1>2, <1>3, <1>4 DEF IInv

LEMMA GroupRowOf ==
    ASSUME TypeOK, NEW g \in Group, groupRow[g] # None
    PROVE  groupRow[g] \in GroupRow /\ groupRow[g].age \in Age /\ groupRow[g].stalled \in BOOLEAN
BY DEF TypeOK, GroupRow

LEMMA ConsumerRowOf ==
    ASSUME TypeOK, NEW g \in Group, NEW x \in Consumer, consumerRow[g][x] # None
    PROVE  consumerRow[g][x] \in ConsumerRow /\ consumerRow[g][x].age \in Age
BY DEF TypeOK, ConsumerRow

\* What a sample makes of the row of a group.
LEMMA NewGroupRowType ==
    ASSUME TypeOK, NEW g \in Group, NEW snap \in Snapshot, Recordable(snap)
    PROVE  /\ NewGroupRow(snap, g) \in GroupRow \cup {None}
           /\ Gone(snap, g) => NewGroupRow(snap, g) = None
           /\ ~Gone(snap, g) /\ snap.group[g] = "absent" => NewGroupRow(snap, g) = groupRow[g]
           /\ ~Gone(snap, g) /\ snap.group[g] # "absent" =>
                 NewGroupRow(snap, g) # None /\ NewGroupRow(snap, g).age = snap.streamAge
<1>1. snap.streamAge \in Age /\ snap.group[g] \in SampleStatus
  BY DEF Recordable, Snapshot
<1> DEFINE st == IF snap.group[g] = "failed" THEN groupRow[g] # None /\ groupRow[g].stalled
                 ELSE StalledIn(snap, g)
           row == [age |-> snap.streamAge, status |-> snap.group[g], stalled |-> st]
<1>2. st \in BOOLEAN
  BY GroupRowOf DEF StalledIn
<1> HIDE DEF st
<1>3. row \in GroupRow /\ row.age = snap.streamAge
  BY <1>1, <1>2 DEF GroupRow
<1>4. row # None
  BY <1>3, HistoryAssumption
<1>5. NewGroupRow(snap, g) =
          IF Gone(snap, g) THEN None ELSE IF snap.group[g] = "absent" THEN groupRow[g] ELSE row
  BY DEF NewGroupRow, st
<1> HIDE DEF row
<1>6. groupRow[g] \in GroupRow \cup {None}
  BY DEF TypeOK
<1>7. QED
  BY <1>3, <1>4, <1>5, <1>6

LEMMA NewConsumerRowType ==
    ASSUME TypeOK, NEW g \in Group, NEW x \in Consumer, NEW snap \in Snapshot, Recordable(snap),
           NEW crowded
    PROVE  LET row == NewConsumerRow(snap, g, x, crowded)
           IN  /\ row \in ConsumerRow \cup {None}
               /\ row # None => ~Gone(snap, g)
               /\ row # None => \/ snap.consumer[g][x] = "absent" /\ row = consumerRow[g][x]
                                \/ snap.consumer[g][x] # "absent" /\ row.age = snap.streamAge
<1>1. snap.streamAge \in Age
  BY DEF Recordable, Snapshot
<1>2. consumerRow[g][x] \in ConsumerRow \cup {None}
  BY DEF TypeOK
<1> DEFINE row == [age |-> snap.streamAge, stalled |-> snap.consumer[g][x] = "stalled"]
<1>3. row \in ConsumerRow /\ row.age = snap.streamAge
  BY <1>1 DEF ConsumerRow
<1>4. Upserted(snap, g, x) = IF snap.consumer[g][x] = "absent" THEN consumerRow[g][x] ELSE row
  BY DEF Upserted
<1> HIDE DEF row
<1>5. QED
  BY <1>2, <1>3, <1>4 DEF NewConsumerRow

\* A sample that is recorded is newer than the rows it replaces.
LEMMA RecordableIsNewer ==
    ASSUME IInv, NEW snap \in Snapshot, Recordable(snap), NEW g \in Group
    PROVE  /\ snap.streamAge \in Age
           /\ groupRow[g] # None => snap.streamAge <= groupRow[g].age
           /\ \A x \in Consumer : consumerRow[g][x] # None => snap.streamAge <= consumerRow[g][x].age
<1>1. snap.streamAge \in Age /\ \A a \in Age : a \in Nat
  BY MonitorAssumption DEF Recordable, Snapshot, Age
<1>2. ASSUME groupRow[g] # None
      PROVE  groupRow[g].age \in Age /\ snap.streamAge <= groupRow[g].age
  <2>1. groupRow[g].age \in Age
    BY <1>2, GroupRowOf DEF IInv
  <2>2. groupRow[g].age > snap.streamAge
    BY <1>2 DEF Recordable
  <2>3. QED
    BY <1>1, <2>1, <2>2
<1>3. ASSUME NEW x \in Consumer, consumerRow[g][x] # None
      PROVE  snap.streamAge <= consumerRow[g][x].age
  <2>1. groupRow[g] # None /\ groupRow[g].age <= consumerRow[g][x].age
    BY <1>3 DEF IInv, NoOrphanConsumers
  <2>2. consumerRow[g][x].age \in Age
    BY <1>3, ConsumerRowOf DEF IInv
  <2>3. QED
    BY <1>1, <1>2, <2>1, <2>2
<1>4. QED
  BY <1>1, <1>2, <1>3

LEMMA NodesOnlyType ==
    ASSUME NEW snap \in Snapshot, Shows(snap)
    PROVE  NodesOnly(snap) \in Snapshot /\ Shows(NodesOnly(snap))
<1>1. snap.nodeAge \in Age \cup {None} /\ snap.up \in BOOLEAN /\ snap.node \in SUBSET Node
  BY DEF Snapshot
<1>2. /\ NodesOnly(snap) \in Snapshot
      /\ NodesOnly(snap).up = snap.up /\ NodesOnly(snap).node = snap.node
      /\ NodesOnly(snap).group = NoSnapshot.group
      /\ NodesOnly(snap).consumer = NoSnapshot.consumer
  BY <1>1, NoSnapshotType DEF NodesOnly, Snapshot
<1>3. QED
  BY <1>2, NoSnapshotType DEF Shows

LEMMA RecordConsumersKeeps ==
    ASSUME IInv, NEW c \in Caller, RecordConsumers(c)
    PROVE  IInv'
<1> DEFINE snap == call[c].snap
           r == [call[c] EXCEPT !.phase = "topology", !.snap = NodesOnly(snap)]
<1>1. snap \in Snapshot /\ Shows(snap) /\ Recordable(snap) /\ TypeOK
  BY CallFields DEF RecordConsumers, IInv
<1>2. NodesOnly(snap) \in Snapshot /\ Shows(NodesOnly(snap))
  BY <1>1, NodesOnlyType
<1>3. r \in Call /\ Shows(r.snap) /\ r.phase = "topology" /\ call' = [call EXCEPT ![c] = r]
  BY <1>2, CallFields DEF Call, Phase, RecordConsumers, Recorded
<1>4. PICK crowded \in SUBSET Crowded(snap) :
          consumerRow' = [g \in Group |-> [x \in Consumer |-> NewConsumerRow(snap, g, x, crowded)]]
  BY DEF RecordConsumers
<1>5. groupRow' = [g \in Group |-> NewGroupRow(snap, g)]
  BY DEF RecordConsumers
<1> HIDE DEF snap, r
<1>6. groupRow' \in [Group -> GroupRow \cup {None}]
  BY <1>1, <1>5, NewGroupRowType
<1>7. consumerRow' \in [Group -> [Consumer -> ConsumerRow \cup {None}]]
  BY <1>1, <1>4, NewConsumerRowType
<1>8. NoOrphanConsumers'
  <2> SUFFICES ASSUME NEW g \in Group, NEW x \in Consumer, consumerRow'[g][x] # None
               PROVE  groupRow'[g] # None /\ groupRow'[g].age <= consumerRow'[g][x].age
    BY DEF NoOrphanConsumers
  <2> DEFINE row == NewConsumerRow(snap, g, x, crowded)
  <2>1. consumerRow'[g][x] = row /\ groupRow'[g] = NewGroupRow(snap, g)
    BY <1>4, <1>5
  <2>2. /\ ~Gone(snap, g)
        /\ \/ snap.consumer[g][x] = "absent" /\ row = consumerRow[g][x]
           \/ snap.consumer[g][x] # "absent" /\ row.age = snap.streamAge
    BY <1>1, <2>1, NewConsumerRowType
  <2>3. snap.streamAge \in Nat
    BY <1>1, RecordableIsNewer, MonitorAssumption DEF Age
  <2> HIDE DEF row
  <2>4. CASE snap.group[g] = "absent"
    <3>1. snap.consumer[g][x] = "absent"
      BY <1>1, <2>4 DEF Shows
    <3>2. groupRow'[g] = groupRow[g] /\ consumerRow'[g][x] = consumerRow[g][x]
      BY <1>1, <2>1, <2>2, <2>4, <3>1, NewGroupRowType
    <3>3. QED
      BY <3>2 DEF IInv, NoOrphanConsumers
  <2>5. CASE snap.group[g] # "absent"
    <3>1. groupRow'[g] # None /\ groupRow'[g].age = snap.streamAge
      BY <1>1, <2>1, <2>2, <2>5, NewGroupRowType
    <3>2. CASE row = consumerRow[g][x]
      BY <1>1, <2>1, <3>1, <3>2, RecordableIsNewer
    <3>3. CASE row.age = snap.streamAge
      BY <2>1, <2>3, <3>1, <3>3
    <3>4. QED
      BY <2>2, <3>2, <3>3
  <2>6. QED
    BY <2>4, <2>5
<1>9. call[c].phase \notin CollectorPhase /\ faults' = faults /\ topology' = topology
      /\ UNCHANGED <<redis, monitored, monitorVars, changes>>
  BY DEF RecordConsumers, Recorded
<1>10. faults' \in 0..MaxFaults /\ topology' \in Topology \cup {None}
  BY <1>9, CallFields DEF IInv, TypeOK
<1>11. r.phase \notin CollectorPhase
  BY <1>3
<1>12. QED
  BY <1>3, <1>6, <1>7, <1>8, <1>9, <1>10, <1>11, RecorderKeeps

LEMMA RecordNothingKeeps ==
    ASSUME IInv, NEW c \in Caller, RecordNothing(c)
    PROVE  IInv'
<1> DEFINE snap == call[c].snap
           r == [call[c] EXCEPT !.phase = "topology", !.snap = NodesOnly(snap)]
<1>1. NodesOnly(snap) \in Snapshot /\ Shows(NodesOnly(snap))
  BY CallFields, NodesOnlyType
<1>2. r \in Call /\ Shows(r.snap) /\ r.phase = "topology" /\ call' = [call EXCEPT ![c] = r]
  BY <1>1, CallFields DEF Call, Phase, RecordNothing, Recorded
<1> HIDE DEF r
<1>3. call[c].phase \notin CollectorPhase /\ faults' = faults /\ UNCHANGED tables
      /\ UNCHANGED <<redis, monitored, monitorVars, changes>>
  BY DEF RecordNothing, Recorded, tables
<1>4. r.phase \notin CollectorPhase
  BY <1>2
<1>5. faults' \in 0..MaxFaults
  BY <1>3, CallFields
<1>6. QED
  BY <1>2, <1>3, <1>4, <1>5, SameRows, RecorderKeeps

LEMMA TopologyOf ==
    ASSUME TypeOK, topology # None
    PROVE  topology \in Topology /\ topology.age \in Age /\ topology.node \subseteq Node
BY DEF TypeOK, Topology

LEMMA CurrentTopologyType ==
    ASSUME TypeOK, NEW snap \in Snapshot, NewerTopology(snap)
    PROVE  CurrentTopology(snap) \in Topology /\ CurrentTopology(snap).age = snap.nodeAge
<1>1. snap.nodeAge \in Age /\ snap.up \in BOOLEAN /\ snap.node \subseteq Node
  BY DEF NewerTopology, Snapshot
<1> DEFINE nodes == IF topology # None /\ ~snap.up /\ snap.node = {} THEN topology.node ELSE snap.node
<1>2. nodes \subseteq Node
  BY <1>1, TopologyOf
<1> HIDE DEF nodes
<1>3. CurrentTopology(snap) = [age |-> snap.nodeAge, up |-> snap.up, node |-> nodes]
  BY DEF CurrentTopology, nodes
<1>4. QED
  BY <1>1, <1>2, <1>3 DEF Topology

LEMMA RecordTopologyKeeps ==
    ASSUME IInv, NEW c \in Caller, RecordTopology(c)
    PROVE  IInv'
<1> DEFINE r == [call[c] EXCEPT !.phase = "maintain", !.snap = NoSnapshot]
<1>1. r \in Call /\ Shows(r.snap) /\ r.phase = "maintain" /\ call' = [call EXCEPT ![c] = r]
  BY NoSnapshotType, CallFields DEF Call, Phase, RecordTopology
<1> HIDE DEF r
<1>2. call[c].phase \notin CollectorPhase /\ faults' = faults
      /\ UNCHANGED <<groupRow, consumerRow>>
      /\ UNCHANGED <<redis, monitored, monitorVars, changes>>
  BY DEF RecordTopology
<1>3. topology' \in Topology \cup {None}
  <2>1. TypeOK /\ topology \in Topology \cup {None} /\ call[c].snap \in Snapshot
    BY CallFields DEF IInv, TypeOK
  <2>2. topology' = IF NewerTopology(call[c].snap) THEN CurrentTopology(call[c].snap) ELSE topology
    BY DEF RecordTopology
  <2>3. QED
    BY <2>1, <2>2, CurrentTopologyType
<1>4. NoOrphanConsumers'
  BY <1>2 DEF IInv, NoOrphanConsumers
<1>5. /\ groupRow' \in [Group -> GroupRow \cup {None}]
      /\ consumerRow' \in [Group -> [Consumer -> ConsumerRow \cup {None}]]
  BY <1>2 DEF IInv, TypeOK
<1>6. r.phase \notin CollectorPhase
  BY <1>1
<1>7. faults' \in 0..MaxFaults
  BY <1>2, CallFields
<1>8. QED
  BY <1>1, <1>2, <1>3, <1>4, <1>5, <1>6, <1>7, RecorderKeeps

-----------------------------------------------------------------------------
(* Maintenance and failures.                                                *)

\* Where a call ends only the rows are left to look at.
LEMMA EndKeeps ==
    ASSUME IInv, NEW c \in Caller, call[c].phase \notin CollectorPhase, EndCall(c),
           UNCHANGED <<redis, monitored, monitorVars, changes>>,
           faults' \in 0..MaxFaults,
           groupRow' \in [Group -> GroupRow \cup {None}],
           consumerRow' \in [Group -> [Consumer -> ConsumerRow \cup {None}]],
           topology' \in Topology \cup {None},
           NoOrphanConsumers'
    PROVE  IInv'
<1>1. Idle.phase \notin CollectorPhase
  BY DEF Idle
<1>2. call' = [call EXCEPT ![c] = Idle]
  BY DEF EndCall
<1>3. QED
  BY <1>1, <1>2, IdleType, RecorderKeeps

LEMMA MaintenanceNotDueKeeps ==
    ASSUME IInv, NEW c \in Caller, MaintenanceNotDue(c)
    PROVE  IInv'
<1>1. call[c].phase \notin CollectorPhase /\ EndCall(c) /\ faults' = faults /\ UNCHANGED tables
      /\ UNCHANGED <<redis, monitored, monitorVars, changes>>
  BY DEF MaintenanceNotDue
<1>2. faults' \in 0..MaxFaults
  BY <1>1, CallFields
<1>3. QED
  BY <1>1, <1>2, SameRows, EndKeeps

LEMMA RecordFailsKeeps ==
    ASSUME IInv, NEW c \in Caller, RecordFails(c)
    PROVE  IInv'
<1>1. call[c].phase \notin CollectorPhase /\ EndCall(c) /\ Fault /\ UNCHANGED tables
      /\ UNCHANGED <<redis, monitored, monitorVars, changes>>
  BY DEF RecordFails
<1>2. faults' \in 0..MaxFaults
  BY <1>1, FaultType DEF IInv
<1>3. QED
  BY <1>1, <1>2, SameRows, EndKeeps

\* The consumers of a group that expires are as old, and expire too.
LEMMA ExpiryKeepsGroups ==
    ASSUME IInv,
           NEW groups \in SUBSET {g \in Group : Expirable(groupRow[g])},
           NEW consumers \in SUBSET {k \in Group \X Consumer : Expirable(consumerRow[k[1]][k[2]])},
           RowsExpire(groups, consumers)
    PROVE  /\ groupRow' \in [Group -> GroupRow \cup {None}]
           /\ consumerRow' \in [Group -> [Consumer -> ConsumerRow \cup {None}]]
           /\ NoOrphanConsumers'
<1>1. /\ groupRow' = [g \in Group |-> IF g \in groups THEN None ELSE groupRow[g]]
      /\ consumerRow' = [g \in Group |-> [x \in Consumer |->
            IF <<g, x>> \in consumers THEN None ELSE consumerRow[g][x]]]
      /\ \A g \in Group, x \in Consumer :
            Expirable(consumerRow[g][x]) /\ g \in groups => <<g, x>> \in consumers
  BY DEF RowsExpire
<1>2. /\ groupRow \in [Group -> GroupRow \cup {None}]
      /\ consumerRow \in [Group -> [Consumer -> ConsumerRow \cup {None}]]
      /\ TypeOK
  BY DEF IInv, TypeOK
<1>3. NoOrphanConsumers'
  <2> SUFFICES ASSUME NEW g \in Group, NEW x \in Consumer, consumerRow'[g][x] # None
               PROVE  groupRow'[g] # None /\ groupRow'[g].age <= consumerRow'[g][x].age
    BY DEF NoOrphanConsumers
  <2>1. consumerRow'[g][x] = consumerRow[g][x] /\ consumerRow[g][x] # None
        /\ <<g, x>> \notin consumers
    BY <1>1
  <2>2. groupRow[g] # None /\ groupRow[g].age <= consumerRow[g][x].age
    BY <2>1 DEF IInv, NoOrphanConsumers
  <2>3. g \notin groups
    <3> SUFFICES ASSUME g \in groups
                 PROVE  FALSE
      OBVIOUS
    <3>1. groupRow[g].age = Horizon
      BY DEF Expirable
    <3>2. consumerRow[g][x].age \in 0..Horizon /\ Horizon \in Nat
      BY <1>2, <2>1, ConsumerRowOf, MonitorAssumption DEF Age
    <3>3. consumerRow[g][x].age = Horizon
      BY <2>2, <3>1, <3>2
    <3>4. QED
      BY <1>1, <2>1, <3>3 DEF Expirable
  <2>4. QED
    BY <1>1, <2>1, <2>2, <2>3
<1>4. QED
  BY <1>1, <1>2, <1>3

LEMMA MaintainKeeps ==
    ASSUME IInv, NEW c \in Caller, Maintain(c)
    PROVE  IInv'
<1>1. call[c].phase \notin CollectorPhase /\ EndCall(c) /\ faults' = faults
      /\ UNCHANGED <<redis, monitored, monitorVars, changes>>
  BY DEF Maintain
<1>2. PICK groups \in SUBSET {g \in Group : Expirable(groupRow[g])},
           consumers \in SUBSET {k \in Group \X Consumer : Expirable(consumerRow[k[1]][k[2]])} :
              RowsExpire(groups, consumers)
  BY DEF Maintain
<1>3. /\ groupRow' \in [Group -> GroupRow \cup {None}]
      /\ consumerRow' \in [Group -> [Consumer -> ConsumerRow \cup {None}]]
      /\ NoOrphanConsumers'
  BY <1>2, ExpiryKeepsGroups
<1>4. topology' \in Topology \cup {None}
  BY DEF Maintain, IInv, TypeOK
<1>5. faults' \in 0..MaxFaults
  BY <1>1, CallFields
<1>6. QED
  BY <1>1, <1>3, <1>4, <1>5, EndKeeps

-----------------------------------------------------------------------------
(* Time and restarts.                                                       *)

LEMMA OlderKeepsOrder ==
    ASSUME NEW a \in Age, NEW b \in Age, a <= b
    PROVE  Older(a) <= Older(b)
BY MonitorAssumption DEF Older, Age

LEMMA AgedRowKeeps ==
    ASSUME TypeOK
    PROVE  /\ \A g \in Group :
                 /\ AgedRow(groupRow[g]) \in GroupRow \cup {None}
                 /\ groupRow[g] # None =>
                       AgedRow(groupRow[g]) # None /\ AgedRow(groupRow[g]).age = Older(groupRow[g].age)
           /\ \A g \in Group, x \in Consumer :
                 /\ AgedRow(consumerRow[g][x]) \in ConsumerRow \cup {None}
                 /\ consumerRow[g][x] = None => AgedRow(consumerRow[g][x]) = None
                 /\ consumerRow[g][x] # None =>
                       AgedRow(consumerRow[g][x]).age = Older(consumerRow[g][x].age)
           /\ AgedRow(topology) \in Topology \cup {None}
<1>1. ASSUME NEW r \in GroupRow
      PROVE  AgedRow(r) \in GroupRow /\ AgedRow(r).age = Older(r.age)
  <2>1. Older(r.age) \in Age
    BY OlderType DEF GroupRow
  <2>2. r # None
    BY HistoryAssumption
  <2>3. QED
    BY <2>1, <2>2 DEF AgedRow, GroupRow
<1>2. ASSUME NEW r \in ConsumerRow
      PROVE  AgedRow(r) \in ConsumerRow /\ AgedRow(r).age = Older(r.age)
  <2>1. Older(r.age) \in Age
    BY OlderType DEF ConsumerRow
  <2>2. r # None
    BY HistoryAssumption
  <2>3. QED
    BY <2>1, <2>2 DEF AgedRow, ConsumerRow
<1>3. ASSUME NEW r \in Topology
      PROVE  AgedRow(r) \in Topology
  <2>1. Older(r.age) \in Age
    BY OlderType DEF Topology
  <2>2. r # None
    BY HistoryAssumption
  <2>3. QED
    BY <2>1, <2>2 DEF AgedRow, Topology
<1>4. AgedRow(None) = None
  BY DEF AgedRow
<1>5. QED
  BY <1>1, <1>2, <1>3, <1>4, HistoryAssumption DEF TypeOK

LEMMA TickKeeps ==
    ASSUME IInv, Tick
    PROVE  IInv'
<1>1. TypeOK /\ OneCollector /\ NoOrphanConsumers
  BY DEF IInv
<1>2. snapshot' \in Snapshot /\ Shows(snapshot')
  BY AgedType DEF IInv, TypeOK, MonitorTypeOK, Tick, MonitorTick
<1>3. ASSUME NEW c \in Caller
      PROVE  call'[c] \in Call /\ Shows(call'[c].snap) /\ call'[c].phase = call[c].phase
  <2>1. call'[c] = IF call[c].phase = "idle" THEN call[c]
                   ELSE [call[c] EXCEPT !.lag = @ + 1, !.snap = Aged(@)]
    BY DEF Tick, MonitorTick
  <2>2. Aged(call[c].snap) \in Snapshot /\ Shows(Aged(call[c].snap))
    BY CallFields, AgedType
  <2>3. call[c].phase # "idle" => call[c].lag + 1 \in 0..CallTime
    <3>1. call[c].lag \in 0..CallTime /\ CallTime \in Nat
      BY CallFields, MonitorAssumption
    <3>2. call[c].phase # "idle" => call[c].lag < CallTime
      BY DEF Tick, MonitorTick
    <3>3. QED
      BY <3>1, <3>2
  <2>4. QED
    BY <2>1, <2>2, <2>3, CallFields DEF Call
<1>4. call' \in [Caller -> Call]
  <2>1. call' = [c \in Caller |-> call'[c]]
    BY DEF Tick, MonitorTick
  <2>2. QED
    BY <1>3, <2>1
<1>5. /\ groupRow' \in [Group -> GroupRow \cup {None}]
      /\ consumerRow' \in [Group -> [Consumer -> ConsumerRow \cup {None}]]
      /\ topology' \in Topology \cup {None}
  BY <1>1, AgedRowKeeps DEF Tick
<1>6. TypeOK'
  BY <1>1, <1>2, <1>4, <1>5 DEF TypeOK, MonitorTypeOK, Tick, MonitorTick
<1>7. OneCollector'
  <2>1. collecting' = collecting /\ \A c \in Caller : call'[c].phase = call[c].phase
    BY <1>3 DEF Tick, MonitorTick
  <2>2. QED
    BY <1>1, <2>1 DEF OneCollector
<1>8. NoOrphanConsumers'
  <2> SUFFICES ASSUME NEW g \in Group, NEW x \in Consumer, consumerRow'[g][x] # None
               PROVE  groupRow'[g] # None /\ groupRow'[g].age <= consumerRow'[g][x].age
    BY DEF NoOrphanConsumers
  <2>1. groupRow'[g] = AgedRow(groupRow[g]) /\ consumerRow'[g][x] = AgedRow(consumerRow[g][x])
    BY DEF Tick
  <2>2. consumerRow[g][x] # None
    BY <1>1, <2>1, AgedRowKeeps
  <2>3. groupRow[g] # None /\ groupRow[g].age <= consumerRow[g][x].age
    BY <1>1, <2>2 DEF NoOrphanConsumers
  <2>4. groupRow[g].age \in Age /\ consumerRow[g][x].age \in Age
    BY <1>1, <2>2, <2>3, GroupRowOf, ConsumerRowOf
  <2>5. Older(groupRow[g].age) <= Older(consumerRow[g][x].age)
    BY <2>3, <2>4, OlderKeepsOrder
  <2>6. QED
    BY <1>1, <2>1, <2>2, <2>3, <2>5, AgedRowKeeps
<1>9. QED
  BY <1>2, <1>3, <1>6, <1>7, <1>8 DEF IInv, Shows

LEMMA RestartKeeps ==
    ASSUME IInv, Restart
    PROVE  IInv'
<1>1. UNCHANGED tables /\ call' = [c \in Caller |-> Idle] /\ snapshot' = NoSnapshot
      /\ collecting' = FALSE /\ seen' = Unseen /\ UNCHANGED <<redis, monitored, faults>>
  BY DEF Restart, MonitorRestart
<1>2. changes' \in 0..MaxChanges
  BY MonitorAssumption DEF IInv, TypeOK, MonitorTypeOK, Restart, MonitorRestart
<1>3. TypeOK'
  BY <1>1, <1>2, SameRows, NoSnapshotType, IdleType, UnseenType
     DEF IInv, TypeOK, MonitorTypeOK
<1>4. Shows(snapshot)' /\ \A c \in Caller : Shows(call[c].snap)'
  BY <1>1, NoSnapshotType, IdleType DEF Shows
<1>5. OneCollector'
  BY <1>1 DEF OneCollector, Idle
<1>6. QED
  BY <1>1, <1>3, <1>4, <1>5, SameRows DEF IInv

LEMMA NextKeeps == IInv /\ [Next]_vars => IInv'
<1> SUFFICES ASSUME IInv, [Next]_vars
             PROVE  IInv'
  OBVIOUS
<1>1. CASE MonitorNext /\ UNCHANGED tables
  BY <1>1, EnvironmentChanges, ChangeKeeps, AskKeeps, CoalesceKeeps, BeginsKeep, StoreKeeps,
     ReadStreamsKeeps, ReadConsumersKeeps DEF MonitorNext, IInv
<1>2. ASSUME NEW c \in Caller,
             \/ RecordConsumers(c) \/ RecordNothing(c) \/ RecordTopology(c)
             \/ MaintenanceNotDue(c) \/ Maintain(c) \/ RecordFails(c)
      PROVE  IInv'
  BY <1>2, RecordConsumersKeeps, RecordNothingKeeps, RecordTopologyKeeps,
     MaintenanceNotDueKeeps, MaintainKeeps, RecordFailsKeeps
<1>3. CASE Tick
  BY <1>3, TickKeeps
<1>4. CASE Restart
  BY <1>4, RestartKeeps
<1>5. CASE UNCHANGED vars
  BY <1>5 DEF vars, tables, IInv, TypeOK, MonitorTypeOK, Shows, OneCollector, NoOrphanConsumers
<1>6. QED
  BY <1>1, <1>2, <1>3, <1>4, <1>5 DEF Next

-----------------------------------------------------------------------------
(* Complete samples.                                                        *)

\* A complete sample replaces all rows of its group; one that does not list the group
\* leaves all of them.
LEMMA SampleIsCurrent ==
    ASSUME IInv, CompleteMeansCurrent, NEW c \in Caller, RecordConsumers(c)
    PROVE  CompleteMeansCurrent'
<1> DEFINE snap == call[c].snap
<1>1. snap \in Snapshot /\ Shows(snap) /\ Recordable(snap) /\ TypeOK
  BY CallFields DEF RecordConsumers, IInv
<1>2. PICK crowded \in SUBSET Crowded(snap) :
          consumerRow' = [g \in Group |-> [x \in Consumer |-> NewConsumerRow(snap, g, x, crowded)]]
  BY DEF RecordConsumers
<1>3. groupRow' = [g \in Group |-> NewGroupRow(snap, g)]
  BY DEF RecordConsumers
<1> HIDE DEF snap
<1> SUFFICES ASSUME NEW g \in Group, groupRow'[g] # None, groupRow'[g].status = "sampled"
             PROVE  /\ \A x \in Consumer : consumerRow'[g][x] # None =>
                          consumerRow'[g][x].age = groupRow'[g].age
                    /\ groupRow'[g].stalled <=>
                          \E x \in Consumer : consumerRow'[g][x] # None /\ consumerRow'[g][x].stalled
  BY DEF CompleteMeansCurrent
<1>4. ~Gone(snap, g)
  BY <1>1, <1>3, NewGroupRowType
<1>5. CASE snap.group[g] = "absent"
  <2>1. groupRow'[g] = groupRow[g]
    BY <1>1, <1>3, <1>4, <1>5, NewGroupRowType
  <2>2. ASSUME NEW x \in Consumer
        PROVE  consumerRow'[g][x] = consumerRow[g][x]
    <3>1. snap.consumer[g][x] = "absent" /\ ~SaysConsumerGone(snap, g, x)
      BY <1>1, <1>5 DEF Shows, SaysConsumerGone
    <3>2. <<g, x>> \notin crowded
      BY <1>2, <1>5 DEF Crowded
    <3>3. QED
      BY <1>2, <1>4, <3>1, <3>2 DEF NewConsumerRow, Upserted
  <2>3. QED
    BY <2>1, <2>2 DEF CompleteMeansCurrent
<1>6. CASE snap.group[g] # "absent"
  <2>1. groupRow'[g] =
            [age |-> snap.streamAge, status |-> snap.group[g],
             stalled |-> IF snap.group[g] = "failed"
                         THEN groupRow[g] # None /\ groupRow[g].stalled
                         ELSE StalledIn(snap, g)]
    BY <1>3, <1>4, <1>6 DEF NewGroupRow
  <2>2. snap.group[g] = "sampled"
    BY <2>1
  <2>3. groupRow'[g].age = snap.streamAge /\ groupRow'[g].stalled = StalledIn(snap, g)
    BY <2>1, <2>2
  <2>4. ASSUME NEW x \in Consumer
        PROVE  consumerRow'[g][x] =
                   IF snap.consumer[g][x] = "absent" THEN None
                   ELSE [age |-> snap.streamAge, stalled |-> snap.consumer[g][x] = "stalled"]
    <3>1. <<g, x>> \notin crowded
      BY <1>2, <2>2 DEF Crowded
    <3>2. SaysConsumerGone(snap, g, x) <=> snap.consumer[g][x] = "absent"
      BY <2>2 DEF SaysConsumerGone
    <3>3. QED
      BY <1>2, <1>4, <3>1, <3>2 DEF NewConsumerRow, Upserted
  <2>5. ASSUME NEW x \in Consumer, snap.consumer[g][x] # "absent"
        PROVE  /\ consumerRow'[g][x] # None /\ consumerRow'[g][x].age = snap.streamAge
               /\ consumerRow'[g][x].stalled <=> snap.consumer[g][x] = "stalled"
    <3> DEFINE row == [age |-> snap.streamAge, stalled |-> snap.consumer[g][x] = "stalled"]
    <3>1. snap.streamAge \in Age
      BY <1>1 DEF Recordable, Snapshot
    <3>2. row.age = snap.streamAge /\ row.stalled = (snap.consumer[g][x] = "stalled")
      OBVIOUS
    <3>3. row \in ConsumerRow
      BY <3>1 DEF ConsumerRow
    <3>4. consumerRow'[g][x] = row
      BY <2>4, <2>5
    <3> HIDE DEF row
    <3>5. QED
      BY <3>2, <3>3, <3>4, HistoryAssumption
  <2>6. QED
    BY <2>3, <2>4, <2>5 DEF StalledIn
<1>7. QED
  BY <1>5, <1>6

\* Of a complete sample the rows expire together.
LEMMA ExpiryIsCurrent ==
    ASSUME IInv, CompleteMeansCurrent,
           NEW groups \in SUBSET {g \in Group : Expirable(groupRow[g])},
           NEW consumers \in SUBSET {k \in Group \X Consumer : Expirable(consumerRow[k[1]][k[2]])},
           RowsExpire(groups, consumers)
    PROVE  CompleteMeansCurrent'
<1> SUFFICES ASSUME NEW g \in Group, groupRow'[g] # None, groupRow'[g].status = "sampled"
             PROVE  /\ \A x \in Consumer : consumerRow'[g][x] # None =>
                          consumerRow'[g][x].age = groupRow'[g].age
                    /\ groupRow'[g].stalled <=>
                          \E x \in Consumer : consumerRow'[g][x] # None /\ consumerRow'[g][x].stalled
  BY DEF CompleteMeansCurrent
<1>1. groupRow'[g] = groupRow[g] /\ g \notin groups
  BY DEF RowsExpire
<1>2. ASSUME NEW x \in Consumer
      PROVE  consumerRow'[g][x] = consumerRow[g][x]
  <2>1. <<g, x>> \notin consumers
    BY <1>1 DEF RowsExpire
  <2>2. QED
    BY <2>1 DEF RowsExpire
<1>3. QED
  BY <1>1, <1>2 DEF CompleteMeansCurrent

LEMMA TickIsCurrent ==
    ASSUME IInv, CompleteMeansCurrent, Tick
    PROVE  CompleteMeansCurrent'
<1> SUFFICES ASSUME NEW g \in Group, groupRow'[g] # None, groupRow'[g].status = "sampled"
             PROVE  /\ \A x \in Consumer : consumerRow'[g][x] # None =>
                          consumerRow'[g][x].age = groupRow'[g].age
                    /\ groupRow'[g].stalled <=>
                          \E x \in Consumer : consumerRow'[g][x] # None /\ consumerRow'[g][x].stalled
  BY DEF CompleteMeansCurrent
<1>1. /\ groupRow'[g] = AgedRow(groupRow[g])
      /\ \A x \in Consumer : consumerRow'[g][x] = AgedRow(consumerRow[g][x])
      /\ TypeOK
  BY DEF Tick, IInv
<1>2. groupRow[g] # None /\ groupRow[g] \in GroupRow
  BY <1>1, GroupRowOf DEF AgedRow
<1>3. /\ groupRow'[g].age = Older(groupRow[g].age)
      /\ groupRow'[g].status = groupRow[g].status /\ groupRow'[g].stalled = groupRow[g].stalled
  BY <1>1, <1>2 DEF AgedRow, GroupRow
<1>4. ASSUME NEW x \in Consumer
      PROVE  /\ consumerRow'[g][x] # None <=> consumerRow[g][x] # None
             /\ consumerRow[g][x] # None =>
                   /\ consumerRow'[g][x].age = Older(consumerRow[g][x].age)
                   /\ consumerRow'[g][x].stalled = consumerRow[g][x].stalled
  <2>1. CASE consumerRow[g][x] = None
    BY <1>1, <2>1 DEF AgedRow
  <2>2. CASE consumerRow[g][x] # None
    <3>1. consumerRow[g][x] \in ConsumerRow
      BY <1>1, <2>2, ConsumerRowOf
    <3>2. consumerRow'[g][x] = [consumerRow[g][x] EXCEPT !.age = Older(@)]
      BY <1>1, <2>2 DEF AgedRow
    <3>3. consumerRow'[g][x].age = Older(consumerRow[g][x].age)
          /\ consumerRow'[g][x].stalled = consumerRow[g][x].stalled
      BY <3>1, <3>2 DEF ConsumerRow
    <3>4. Older(consumerRow[g][x].age) \in Age
      BY <3>1, OlderType DEF ConsumerRow
    <3>5. consumerRow'[g][x] \in ConsumerRow
      BY <3>1, <3>2, <3>4 DEF ConsumerRow
    <3>6. QED
      BY <2>2, <3>3, <3>5, HistoryAssumption
  <2>3. QED
    BY <2>1, <2>2
<1>5. groupRow[g].status = "sampled"
  BY <1>3
<1>6. QED
  BY <1>2, <1>3, <1>4, <1>5 DEF CompleteMeansCurrent

LEMMA NextIsCurrent == IInv /\ CompleteMeansCurrent /\ [Next]_vars => CompleteMeansCurrent'
<1> SUFFICES ASSUME IInv, CompleteMeansCurrent, [Next]_vars
             PROVE  CompleteMeansCurrent'
  OBVIOUS
<1>1. CASE UNCHANGED <<groupRow, consumerRow>>
  BY <1>1 DEF CompleteMeansCurrent
<1>2. ASSUME NEW c \in Caller, Maintain(c)
      PROVE  CompleteMeansCurrent'
  BY <1>2, ExpiryIsCurrent DEF Maintain
<1>3. CASE \/ MonitorNext /\ UNCHANGED tables
           \/ \E c \in Caller :
                 RecordNothing(c) \/ RecordTopology(c) \/ MaintenanceNotDue(c) \/ RecordFails(c)
           \/ Restart
           \/ UNCHANGED vars
  BY <1>1, <1>3 DEF RecordNothing, RecordTopology, MaintenanceNotDue, RecordFails, Restart, vars,
     tables
<1>4. QED
  BY <1>2, <1>3, SampleIsCurrent, TickIsCurrent DEF Next

-----------------------------------------------------------------------------
(* What a collection has seen.                                              *)

\* While the groups are read what is there has been seen, and what the snapshot shows of a
\* consumer, or of the whole of a group, has been seen too.
TrueSample ==
    \A c \in Caller : call[c].phase = "consumers" =>
        \A g \in Group, x \in Consumer :
            /\ redis.consumer[g][x] \in seen[g][x]
            /\ call[c].snap.consumer[g][x] # "absent" \/ call[c].snap.group[g] = "sampled" =>
                  call[c].snap.consumer[g][x] \in seen[g][x]

LEMMA ChangeIsSeen ==
    ASSUME TrueSample, NEW r, NEW m, Change(r, m)
    PROVE  TrueSample'
<1> SUFFICES ASSUME NEW c \in Caller, call[c].phase = "consumers",
                    NEW g \in Group, NEW x \in Consumer
             PROVE  /\ redis'.consumer[g][x] \in seen'[g][x]
                    /\ seen[g][x] \subseteq seen'[g][x]
  BY DEF TrueSample, Change
<1>1. ReadingConsumers
  BY DEF ReadingConsumers
<1>2. /\ redis' = r
      /\ seen' = [h \in Group |-> [y \in Consumer |->
             seen[h][y] \cup IF ReadingConsumers THEN {r.consumer[h][y]} ELSE {}]]
  BY DEF Change
<1>3. QED
  BY <1>1, <1>2

\* A caller that is not to read consumers next.
LEMMA OthersHaveSeen ==
    ASSUME IInv, TrueSample, NEW c \in Caller, NEW r, r.phase # "consumers",
           call' = [call EXCEPT ![c] = r], UNCHANGED <<redis, seen>>
    PROVE  TrueSample'
BY DEF TrueSample, IInv, TypeOK, MonitorTypeOK

\* The one collector is no other caller.
LEMMA OnlyReader ==
    ASSUME IInv, NEW c \in Caller, call[c].phase \in CollectorPhase,
           NEW d \in Caller \ {c}
    PROVE  call[d].phase # "consumers"
BY DEF IInv, OneCollector

LEMMA StoreEndsIt ==
    ASSUME IInv, NEW c \in Caller, StreamsNotDue(c) \/ StoreStreams(c)
    PROVE  TrueSample'
<1>1. /\ call[c].phase \in CollectorPhase
      /\ call' = [call EXCEPT ![c] =
            [Idle EXCEPT !.phase = "record", !.lag = call[c].lag, !.snap = call[c].snap]]
  BY DEF StreamsNotDue, StoreStreams, Store
<1>2. \A d \in Caller : call'[d].phase # "consumers"
  BY <1>1, OnlyReader, CallFields DEF Idle
<1>3. QED
  BY <1>2 DEF TrueSample

LEMMA ListingIsSeen ==
    ASSUME IInv, NEW c \in Caller, ReadStreams(c)
    PROVE  TrueSample'
<1>1. PICK reply \in [Stream -> Reply], taken \in SUBSET redis.group :
          call' = [call EXCEPT ![c] = [@ EXCEPT
              !.phase = "consumers", !.streams = {}, !.due = FALSE,
              !.snap = Listing(c, call[c].streams,
                               {g \in redis.group : reply[StreamOf[g]] = "listed"}, taken, reply),
              !.todo = taken, !.calls = MaxConsumerCalls, !.room = MaxConsumers]]
  BY DEF ReadStreams
<1> DEFINE groups == {g \in redis.group : reply[StreamOf[g]] = "listed"}
           sn == Listing(c, call[c].streams, groups, taken, reply)
           r == [call[c] EXCEPT !.phase = "consumers", !.streams = {}, !.due = FALSE, !.snap = sn,
                                !.todo = taken, !.calls = MaxConsumerCalls, !.room = MaxConsumers]
<1>2. call' = [call EXCEPT ![c] = r]
  BY <1>1
<1> HIDE DEF groups
<1>3. NothingShown(sn)
  BY ListingType
<1> HIDE DEF sn
<1>4. r.snap = sn
  BY CallFields
<1> HIDE DEF r
<1>5. call'[c].snap = sn /\ \A d \in Caller \ {c} : call'[d] = call[d]
  BY <1>2, <1>4, CallFields
<1>6. call[c].phase \in CollectorPhase /\ redis' = redis
      /\ seen' = [g \in Group |-> [x \in Consumer |-> {redis.consumer[g][x]}]]
  BY DEF ReadStreams
<1>7. \A d \in Caller \ {c} : call'[d].phase # "consumers"
  BY <1>5, <1>6, OnlyReader
<1>8. QED
  BY <1>3, <1>5, <1>6, <1>7 DEF TrueSample, NothingShown

LEMMA NextGroupIsSeen ==
    ASSUME IInv, TrueSample, NEW c \in Caller, call[c].phase = "consumers", NEW g \in Group,
           NEW sn, NEW calls, NEW room, NextGroup(c, g, sn, calls, room),
           \A h \in Group, x \in Consumer : sn.consumer[h][x] # "absent" \/ sn.group[h] = "sampled" =>
               sn.consumer[h][x] \in seen[h][x]
    PROVE  TrueSample'
<1> DEFINE r == [call[c] EXCEPT !.snap = sn, !.todo = call[c].todo \ {g},
                                !.calls = calls, !.room = room]
<1>1. call' = [call EXCEPT ![c] = r] /\ UNCHANGED <<redis, seen>>
  BY DEF NextGroup, monitorVars
<1>2. r.snap = sn
  BY CallFields
<1> HIDE DEF r
<1>3. call'[c] = r /\ \A d \in Caller \ {c} : call'[d] = call[d]
  BY <1>1, CallFields
<1>4. \A d \in Caller \ {c} : call'[d].phase # "consumers"
  BY <1>3, OnlyReader
<1>5. QED
  BY <1>1, <1>2, <1>3, <1>4 DEF TrueSample

LEMMA ConsumersAreSeen ==
    ASSUME IInv, TrueSample, NEW c \in Caller, NEW g \in Group,
           SampleConsumers(c, g) \/ ConsumersNotRead(c, g) \/ ConsumersNotAsked(c, g)
    PROVE  TrueSample'
<1>1. call[c].phase = "consumers"
  BY DEF SampleConsumers, ConsumersNotRead, ConsumersNotAsked
<1>2. CASE SampleConsumers(c, g)
  <2>1. PICK sn \in Snapshot, calls \in 0..MaxConsumerCalls, room \in 0..MaxConsumers :
            /\ NextGroup(c, g, sn, calls, room)
            /\ \A h \in Group \ {g} :
                  sn.group[h] = call[c].snap.group[h] /\ sn.consumer[h] = call[c].snap.consumer[h]
            /\ \A x \in Consumer : sn.consumer[g][x] \in {"absent", redis.consumer[g][x]}
            /\ sn.group[g] = "sampled" => \A x \in Consumer : sn.consumer[g][x] = redis.consumer[g][x]
    BY <1>2, SampledGroup
  <2>2. ASSUME NEW h \in Group, NEW x \in Consumer,
               sn.consumer[h][x] # "absent" \/ sn.group[h] = "sampled"
        PROVE  sn.consumer[h][x] \in seen[h][x]
    <3>1. CASE h = g
      BY <1>1, <2>1, <2>2, <3>1 DEF TrueSample
    <3>2. CASE h # g
      BY <1>1, <2>1, <2>2, <3>2 DEF TrueSample
    <3>3. QED
      BY <3>1, <3>2
  <2>3. QED
    BY <1>1, <2>1, <2>2, NextGroupIsSeen
<1>3. CASE ConsumersNotRead(c, g) \/ ConsumersNotAsked(c, g)
  BY <1>1, <1>3, SkippedGroup, NextGroupIsSeen DEF TrueSample
<1>4. QED
  BY <1>2, <1>3 DEF SampleConsumers, ConsumersNotRead, ConsumersNotAsked

LEMMA MonitorIsTrue ==
    ASSUME IInv, TrueSample, MonitorNext
    PROVE  TrueSample'
<1>1. ASSUME NEW c \in Caller,
             \/ Ask(c) \/ Coalesce(c)
             \/ BeginWithNodes(c) \/ BeginWithSomeNodes(c)
             \/ BeginWithoutAnswer(c) \/ BeginNotDue(c)
      PROVE  TrueSample'
  <2>1. CASE Ask(c)
    <3> DEFINE r == [call[c] EXCEPT !.phase = "asked", !.streams = monitored]
    <3>1. call' = [call EXCEPT ![c] = r] /\ UNCHANGED <<redis, seen>>
      BY <2>1 DEF Ask, monitorVars
    <3>2. r.phase # "consumers"
      BY CallFields
    <3> HIDE DEF r
    <3>3. QED
      BY <3>1, <3>2, OthersHaveSeen
  <2>2. CASE Coalesce(c)
    <3> DEFINE r == [call[c] EXCEPT !.phase = "record", !.streams = {}, !.snap = snapshot]
    <3>1. call' = [call EXCEPT ![c] = r] /\ UNCHANGED <<redis, seen>>
      BY <2>2 DEF Coalesce, monitorVars
    <3>2. r.phase # "consumers"
      BY CallFields
    <3> HIDE DEF r
    <3>3. QED
      BY <3>1, <3>2, OthersHaveSeen
  <2>3. ASSUME NEW sn, Begin(c, sn)
        PROVE  TrueSample'
    <3> DEFINE d == sn.up /\ Elapsed(snapshot.streamAge, StreamInterval)
               r == [call[c] EXCEPT !.phase = "streams", !.lag = 0, !.snap = sn, !.due = d]
    <3>1. call' = [call EXCEPT ![c] = r] /\ UNCHANGED <<redis, seen>>
      BY <2>3 DEF Begin
    <3> HIDE DEF d
    <3>2. r.phase # "consumers"
      BY CallFields
    <3> HIDE DEF r
    <3>3. QED
      BY <3>1, <3>2, OthersHaveSeen
  <2>4. QED
    BY <1>1, <2>1, <2>2, <2>3
       DEF BeginWithNodes, BeginWithSomeNodes, BeginWithoutAnswer, BeginNotDue
<1>2. QED
  BY <1>1, EnvironmentChanges, ChangeIsSeen, StoreEndsIt, ListingIsSeen, ConsumersAreSeen
     DEF MonitorNext, IInv

LEMMA NextIsTrue == IInv /\ TrueSample /\ [Next]_vars => TrueSample'
<1> SUFFICES ASSUME IInv, TrueSample, [Next]_vars
             PROVE  TrueSample'
  OBVIOUS
<1>1. CASE MonitorNext
  BY <1>1, MonitorIsTrue
<1>2. ASSUME NEW c \in Caller, RecordConsumers(c) \/ RecordNothing(c)
      PROVE  TrueSample'
  <2>1. /\ call' = [call EXCEPT ![c] = [@ EXCEPT !.phase = "topology",
                                                !.snap = NodesOnly(call[c].snap)]]
        /\ UNCHANGED <<redis, seen>>
    BY <1>2 DEF RecordConsumers, RecordNothing, Recorded, monitorVars
  <2>2. call'[c].phase # "consumers" /\ \A d \in Caller \ {c} : call'[d] = call[d]
    BY <2>1, CallFields DEF Call
  <2>3. QED
    BY <2>1, <2>2 DEF TrueSample
<1>3. ASSUME NEW c \in Caller, RecordTopology(c)
      PROVE  TrueSample'
  <2>1. /\ call' = [call EXCEPT ![c] = [@ EXCEPT !.phase = "maintain", !.snap = NoSnapshot]]
        /\ UNCHANGED <<redis, seen>>
    BY <1>3 DEF RecordTopology, monitorVars
  <2>2. call'[c].phase # "consumers" /\ \A d \in Caller \ {c} : call'[d] = call[d]
    BY <2>1, CallFields DEF Call
  <2>3. QED
    BY <2>1, <2>2 DEF TrueSample
<1>4. ASSUME NEW c \in Caller, MaintenanceNotDue(c) \/ Maintain(c) \/ RecordFails(c)
      PROVE  TrueSample'
  <2>1. call' = [call EXCEPT ![c] = Idle] /\ UNCHANGED <<redis, seen>>
    BY <1>4 DEF MaintenanceNotDue, Maintain, RecordFails, EndCall, monitorVars
  <2>2. Idle.phase # "consumers"
    BY DEF Idle
  <2>3. QED
    BY <2>1, <2>2, OthersHaveSeen
<1>5. CASE Tick
  <2>1. /\ \A c \in Caller :
              call'[c] = IF call[c].phase = "idle" THEN call[c]
                         ELSE [call[c] EXCEPT !.lag = @ + 1, !.snap = Aged(@)]
        /\ UNCHANGED <<redis, seen>>
    BY <1>5 DEF Tick, MonitorTick
  <2>2. ASSUME NEW c \in Caller, call'[c].phase = "consumers"
        PROVE  /\ call[c].phase = "consumers"
               /\ call'[c].snap.consumer = call[c].snap.consumer
               /\ call'[c].snap.group = call[c].snap.group
    <3> DEFINE old == call[c].snap
               r == [call[c] EXCEPT !.lag = @ + 1, !.snap = Aged(old)]
    <3>1. call'[c] = IF call[c].phase = "idle" THEN call[c] ELSE r
      BY <2>1
    <3>2. r.phase = call[c].phase /\ r.snap = Aged(old)
      BY CallFields
    <3> HIDE DEF r
    <3>3. call[c].phase = "consumers" /\ call'[c].snap = Aged(old)
      BY <2>2, <3>1, <3>2
    <3>4. old \in Snapshot
      BY CallFields
    <3> HIDE DEF old
    <3>5. Aged(old).consumer = old.consumer /\ Aged(old).group = old.group
      BY <3>4 DEF Aged, Snapshot
    <3>6. QED
      BY <3>3, <3>5 DEF old
  <2>3. QED
    BY <2>1, <2>2 DEF TrueSample
<1>6. CASE Restart
  <2>1. \A c \in Caller : call'[c].phase # "consumers"
    BY <1>6 DEF Restart, MonitorRestart, Idle
  <2>2. QED
    BY <2>1 DEF TrueSample
<1>7. CASE UNCHANGED vars
  BY <1>7 DEF vars, TrueSample
<1>8. QED
  BY <1>1, <1>2, <1>3, <1>4, <1>5, <1>6, <1>7 DEF Next

-----------------------------------------------------------------------------
(* The theorems.                                                            *)

LEMMA Inductive == Spec => []IInv
<1>1. Init => IInv
  BY InitIInv
<1>2. IInv /\ [Next]_vars => IInv'
  BY NextKeeps
<1>3. QED
  BY <1>1, <1>2, PTL DEF Spec

\* Every variable keeps its type, of the rows that are written as of the snapshots that are
\* copied, aged and handed from caller to caller.
THEOREM TypeCorrect == Spec => []TypeOK
<1>1. IInv => TypeOK
  BY DEF IInv
<1>2. QED
  BY <1>1, Inductive, PTL

\* However many requests ask and wherever the process restarts, one caller at a time collects
\* from a connection, and the mark of a collection ends with it (operational.go:407-446).
THEOREM OneCollectorAtATime == Spec => []OneCollector
<1>1. IInv => OneCollector
  BY DEF IInv
<1>2. QED
  BY <1>1, Inductive, PTL

\* Through samples, cut off or failed ones too, expiry and failing transactions no consumer
\* keeps a row without its group, nor one that is newer (history.go:229-393, 834-849).
THEOREM RowsKeepTheirGroup == Spec => []NoOrphanConsumers
<1>1. IInv => NoOrphanConsumers
  BY DEF IInv
<1>2. QED
  BY <1>1, Inductive, PTL

\* Callers that reach the transactions in any order never replace a row by that of an older
\* sample (history.go:236-243, 602-604): the guard reads the rows of groups only, and those of
\* consumers are no newer.
THEOREM RowsOnlyAdvance == Spec => RowsNeverGoBack
<1> DEFINE Forward ==
        (\E c \in Caller : RecordConsumers(c) \/ RecordTopology(c)) =>
            /\ \A g \in Group :
                  /\ groupRow[g] # None /\ groupRow'[g] # None => groupRow'[g].age <= groupRow[g].age
                  /\ \A x \in Consumer :
                        consumerRow[g][x] # None /\ consumerRow'[g][x] # None =>
                            consumerRow'[g][x].age <= consumerRow[g][x].age
            /\ topology # None /\ topology' # None => topology'.age <= topology.age
<1>1. ASSUME IInv, NEW c \in Caller, RecordConsumers(c)
      PROVE  Forward
  <2>1. UNCHANGED topology
    BY <1>1 DEF RecordConsumers, Recorded
  <2>2. call[c].snap \in Snapshot /\ Recordable(call[c].snap) /\ TypeOK
    BY <1>1, CallFields DEF RecordConsumers, IInv
  <2>3. PICK crowded \in SUBSET Crowded(call[c].snap) :
            consumerRow' = [g \in Group |-> [x \in Consumer |->
                NewConsumerRow(call[c].snap, g, x, crowded)]]
    BY <1>1 DEF RecordConsumers
  <2>4. groupRow' = [g \in Group |-> NewGroupRow(call[c].snap, g)]
    BY <1>1 DEF RecordConsumers
  <2>5. topology # None => topology.age \in Nat
    BY <2>2, TopologyOf, MonitorAssumption DEF Age
  <2>6. ASSUME NEW g \in Group, groupRow[g] # None, groupRow'[g] # None
        PROVE  groupRow'[g].age <= groupRow[g].age
    <3>1. groupRow'[g] = NewGroupRow(call[c].snap, g)
      BY <2>4
    <3>2. groupRow[g].age \in Nat
      BY <2>2, <2>6, GroupRowOf, MonitorAssumption DEF Age
    <3>3. groupRow'[g].age \in {groupRow[g].age, call[c].snap.streamAge}
      BY <2>2, <2>6, <3>1, NewGroupRowType
    <3>4. QED
      BY <1>1, <2>2, <2>6, <3>2, <3>3, RecordableIsNewer
  <2>7. ASSUME NEW g \in Group, NEW x \in Consumer,
               consumerRow[g][x] # None, consumerRow'[g][x] # None
        PROVE  consumerRow'[g][x].age <= consumerRow[g][x].age
    <3>1. consumerRow'[g][x] = NewConsumerRow(call[c].snap, g, x, crowded)
      BY <2>3
    <3>2. consumerRow[g][x].age \in Nat
      BY <2>2, <2>7, ConsumerRowOf, MonitorAssumption DEF Age
    <3>3. consumerRow'[g][x].age \in {consumerRow[g][x].age, call[c].snap.streamAge}
      BY <2>2, <2>7, <3>1, NewConsumerRowType
    <3>4. QED
      BY <1>1, <2>2, <2>7, <3>2, <3>3, RecordableIsNewer
  <2>8. QED
    BY <2>1, <2>5, <2>6, <2>7
<1>2. ASSUME IInv, NEW c \in Caller, RecordTopology(c)
      PROVE  Forward
  <2>1. UNCHANGED <<groupRow, consumerRow>> /\ TypeOK /\ call[c].snap \in Snapshot
    BY <1>2, CallFields DEF RecordTopology, IInv
  <2>2. ASSUME NEW g \in Group
        PROVE  /\ groupRow[g] # None => groupRow[g].age \in Nat
               /\ \A x \in Consumer : consumerRow[g][x] # None => consumerRow[g][x].age \in Nat
    BY <2>1, GroupRowOf, ConsumerRowOf, MonitorAssumption DEF Age
  <2>3. ASSUME topology # None
        PROVE  topology'.age <= topology.age
    <3>1. topology.age \in Nat
      BY <2>1, <2>3, TopologyOf, MonitorAssumption DEF Age
    <3>2. CASE NewerTopology(call[c].snap)
      <4>1. topology'.age = call[c].snap.nodeAge
        BY <1>2, <2>1, <3>2, CurrentTopologyType DEF RecordTopology
      <4>2. topology.age > call[c].snap.nodeAge /\ call[c].snap.nodeAge \in Nat
        BY <2>1, <2>3, <3>2, MonitorAssumption DEF NewerTopology, Snapshot, Age
      <4>3. QED
        BY <3>1, <4>1, <4>2
    <3>3. CASE ~NewerTopology(call[c].snap)
      BY <1>2, <3>1, <3>3 DEF RecordTopology
    <3>4. QED
      BY <3>2, <3>3
  <2>4. QED
    BY <2>1, <2>2, <2>3
<1>3. IInv /\ [Next]_vars => [Forward]_vars
  BY <1>1, <1>2
<1>4. QED
  BY <1>3, Inductive, PTL DEF Spec, RowsNeverGoBack

\* A complete sample leaves nothing of an earlier one, whatever the samples between were, cut
\* off, failed or none: the rows of the group are of that sample, and its count of stalled
\* consumers is theirs (history.go:268-325, 441-470).
THEOREM CompleteSamplesStand == Spec => []CompleteMeansCurrent
<1>1. Init => CompleteMeansCurrent
  BY DEF Init, CompleteMeansCurrent
<1>2. IInv /\ CompleteMeansCurrent /\ [Next]_vars => CompleteMeansCurrent'
  BY NextIsCurrent
<1>3. QED
  BY <1>1, <1>2, Inductive, PTL DEF Spec

\* Nodes are reported to have left by a deployment that answered and did not name them, never
\* because of one that did not answer (history.go:609-619).
THEOREM NodeLeavesAreTrue == Spec => []NodeLeaveIsTrue
<1>1. ASSUME IInv, NEW c \in Caller, NEW n \in NodesLeft(call[c].snap)
      PROVE  call[c].snap.up /\ n \notin call[c].snap.node
  <2> DEFINE snap == call[c].snap
  <2>1. topology # None /\ n \in topology.node /\ n \notin CurrentTopology(snap).node
    BY <1>1 DEF NodesLeft
  <2>2. ~snap.up => snap.node = {}
    BY <1>1 DEF IInv, Shows
  <2> HIDE DEF snap
  <2>3. ~(~snap.up /\ snap.node = {}) /\ n \notin snap.node
    BY <2>1 DEF CurrentTopology
  <2>4. QED
    BY <2>2, <2>3 DEF snap
<1>2. IInv => NodeLeaveIsTrue
  BY <1>1 DEF NodeLeaveIsTrue
<1>3. QED
  BY <1>2, Inductive, PTL

\* Whatever the limits of a collection, however Redis changes between its calls and whichever of
\* them fail, it takes a consumer for gone or working, or a group for one without a stalled
\* consumer, only if that was so since it read the groups (operational.go:753-793): a group
\* counts as sampled only if it has no more consumers than there is room for, and then all of
\* them are shown.
THEOREM ConsumerEventsTrue == Spec => ConsumerEventsAreTrue
<1> DEFINE Truth ==
        \A c \in Caller : StoreStreams(c) =>
            LET snap == call[c].snap
            IN  \A g \in Group, x \in Consumer :
                   /\ SaysConsumerGone(snap, g, x) => "absent" \in seen[g][x]
                   /\ SaysConsumerWorks(snap, g, x) => "working" \in seen[g][x]
                   /\ SaysGroupWorks(snap, g) => seen[g][x] # {"stalled"}
<1>1. Init => TrueSample
  BY DEF Init, MonitorInit, Idle, TrueSample
<1>2. IInv /\ TrueSample /\ [Next]_vars => TrueSample'
  BY NextIsTrue
<1>3. TrueSample => Truth
  <2> SUFFICES ASSUME TrueSample, NEW c \in Caller, StoreStreams(c),
                      NEW g \in Group, NEW x \in Consumer
               PROVE  /\ SaysConsumerGone(call[c].snap, g, x) => "absent" \in seen[g][x]
                      /\ SaysConsumerWorks(call[c].snap, g, x) => "working" \in seen[g][x]
                      /\ SaysGroupWorks(call[c].snap, g) => seen[g][x] # {"stalled"}
    OBVIOUS
  <2> DEFINE snap == call[c].snap
  <2>1. snap.consumer[g][x] # "absent" \/ snap.group[g] = "sampled" =>
            snap.consumer[g][x] \in seen[g][x]
    BY DEF StoreStreams, TrueSample
  <2> HIDE DEF snap
  <2>2. /\ SaysConsumerGone(snap, g, x) => "absent" \in seen[g][x]
        /\ SaysConsumerWorks(snap, g, x) => "working" \in seen[g][x]
    BY <2>1 DEF SaysConsumerGone, SaysConsumerWorks
  <2>3. SaysGroupWorks(snap, g) => seen[g][x] # {"stalled"}
    BY <2>1 DEF SaysGroupWorks, StalledIn
  <2>4. QED
    BY <2>2, <2>3 DEF snap
<1>4. TrueSample => [Truth]_vars
  BY <1>3
<1>5. QED
  BY <1>1, <1>2, <1>4, Inductive, PTL DEF Spec, ConsumerEventsAreTrue

=============================================================================
