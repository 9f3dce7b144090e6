------------------------- MODULE OperationalMonitor -------------------------
(***************************************************************************)
(* The collection of operational snapshots of one connection               *)
(* (operational.go): one goroutine collects on a ticker, and requests that *)
(* find no snapshot collect too. Collections are coalesced; nodes and      *)
(* streams are sampled when their interval is over, and a snapshot keeps   *)
(* what it did not sample. MonitoringHistory adds what is done with it.    *)
(* Metrics of nodes, memory figures, trends and ages of entries are left   *)
(* out: a snapshot is reduced to which nodes, streams, groups and          *)
(* consumers it shows, and which of them it shows as stalled. The streams, *)
(* the groups and the calls for consumers are cut off by the limits of the *)
(* code, in an order that is left open.                                    *)
(***************************************************************************)
EXTENDS Naturals, FiniteSets

CONSTANTS
    Node,          \* nodes that are followed of a cluster that has others
    Stream,        \* streams that may be monitored
    Group,         \* consumer groups of those streams
    StreamOf,
    Consumer,      \* names of consumers
    NamesOf,       \* those that the clients of a group use
    Handler,       \* requests of /operations that may run at a time
    Ticker,        \* the goroutine of startOperationalCollection
    NodeInterval, StreamInterval,
    MaxStreams,            \* limits of a collection: streams, groups of a stream and of
    MaxGroupsPerStream,    \* all streams, calls of XINFO CONSUMERS, consumers of a group
    MaxGroups,             \* and of all groups
    MaxConsumerCalls, MaxConsumersPerGroup, MaxConsumers,
    CallTime,      \* ticks a caller spends at most before and after a collection begins
    Horizon,       \* age at which ages saturate; older rows may expire
    MaxChanges,    \* changes of Redis and of what is monitored, and restarts
    MaxFaults,     \* errors of a behaviour
    None

Caller == Handler \cup {Ticker}

ASSUME MonitorAssumption ==
    /\ IsFiniteSet(Consumer)
    /\ StreamOf \in [Group -> Stream] /\ NamesOf \in [Group -> SUBSET Consumer]
    /\ MaxStreams \in Nat \ {0} /\ MaxGroupsPerStream \in Nat \ {0} /\ MaxGroups \in Nat \ {0}
    /\ MaxConsumerCalls \in Nat \ {0} /\ MaxConsumersPerGroup \in Nat \ {0}
    /\ MaxConsumers \in Nat \ {0}
    /\ NodeInterval \in Nat \ {0} /\ StreamInterval \in Nat \ {0}
    /\ CallTime \in Nat /\ Horizon \in Nat
    /\ NodeInterval + CallTime <= Horizon /\ StreamInterval + CallTime <= Horizon
    /\ MaxChanges \in Nat /\ MaxFaults \in Nat
    /\ None \notin Nat
    /\ Ticker \notin Handler

VARIABLES
    redis,       \* what the Redis deployment is
    monitored,   \* streams the connection monitors
    snapshot,    \* operationalMonitor.snapshots of the connection
    collecting,  \* operationalMonitor.collecting of the connection
    call,        \* local state of the callers of CollectConnection
    seen,        \* states of each consumer since the collection that runs read the
                 \* groups: remembered for the properties, read by no action
    changes, faults

monitorVars == <<snapshot, collecting, seen>>

Work == {"absent", "working", "stalled"}
Redis ==
    [up: BOOLEAN, node: SUBSET Node, key: SUBSET Stream,
     group: SUBSET Group, consumer: [Group -> [Consumer -> Work]]]

Age == 0..Horizon
Reply == {"absent", "unavailable", "unlisted", "listed"}

\* "failed" also stands for not_sampled_budget, of which the history makes no difference.
SampleStatus == {"absent", "failed", "truncated", "sampled"}

\* operationalSnapshot. A stream is "unlisted" when XINFO STREAM answered and
\* XINFO GROUPS did not.
Snapshot ==
    [nodeAge: Age \cup {None}, streamAge: Age \cup {None}, up: BOOLEAN,
     node: SUBSET Node, stream: [Stream -> Reply],
     group: [Group -> SampleStatus], consumer: [Group -> [Consumer -> Work]],
     streamsTruncated: BOOLEAN, groupsTruncated: BOOLEAN]

NoSnapshot ==
    [nodeAge |-> None, streamAge |-> None, up |-> FALSE,
     node |-> {}, stream |-> [s \in Stream |-> "absent"],
     group |-> [k \in Group |-> "absent"], consumer |-> [g \in Group |-> [x \in Consumer |-> "absent"]],
     streamsTruncated |-> FALSE, groupsTruncated |-> FALSE]

Phase == {"idle", "asked", "streams", "consumers", "record", "topology", "maintain"}

Call ==
    [phase: Phase, lag: 0..CallTime, streams: SUBSET Stream,
     due: BOOLEAN, snap: Snapshot,
     todo: SUBSET Group,              \* groups listed and not come to yet
     calls: 0..MaxConsumerCalls,      \* consumerCallBudget
     room: 0..MaxConsumers]           \* consumerBudget

Idle ==
    [phase |-> "idle", lag |-> 0, streams |-> {}, due |-> FALSE, snap |-> NoSnapshot,
     todo |-> {}, calls |-> 0, room |-> 0]

Unseen == [g \in Group |-> [x \in Consumer |-> {}]]

MonitorTypeOK ==
    /\ redis \in Redis
    /\ monitored \subseteq Stream
    /\ snapshot \in Snapshot
    /\ collecting \in BOOLEAN
    /\ call \in [Caller -> Call]
    /\ seen \in [Group -> [Consumer -> SUBSET Work]]
    /\ changes \in 0..MaxChanges
    /\ faults \in 0..MaxFaults

\* Everything is there from the start and works.
MonitorInit ==
    /\ redis = [up |-> TRUE, node |-> Node, key |-> Stream, group |-> Group,
                 consumer |-> [g \in Group |-> [x \in Consumer |->
                    IF x \in NamesOf[g] THEN "working" ELSE "absent"]]]
    /\ monitored = Stream
    /\ snapshot = NoSnapshot
    /\ collecting = FALSE
    /\ call = [c \in Caller |-> Idle]
    /\ seen = Unseen
    /\ changes = MaxChanges
    /\ faults = MaxFaults

Fault == faults > 0 /\ faults' = faults - 1
-----------------------------------------------------------------------------
(* Redis and the users who choose what is monitored. *)

ReadingConsumers == \E c \in Caller : call[c].phase = "consumers"

Change(deployment, streams) ==
    /\ changes > 0
    /\ changes' = changes - 1
    /\ redis' = deployment
    /\ monitored' = streams
    /\ seen' = [g \in Group |-> [x \in Consumer |->
          seen[g][x] \cup IF ReadingConsumers THEN {deployment.consumer[g][x]} ELSE {}]]
    /\ UNCHANGED <<snapshot, collecting, call, faults>>

ReachableOrNot == Change([redis EXCEPT !.up = ~redis.up], monitored)

Flipped(S, e) == IF e \in S THEN S \ {e} ELSE S \cup {e}

\* A node joins the cluster or leaves it.
NodeChanges(n) == Change([redis EXCEPT !.node = Flipped(redis.node, n)], monitored)

\* XGROUP CREATE MKSTREAM and XGROUP DESTROY.
GroupCreated(g) ==
    /\ g \notin redis.group
    /\ Change([redis EXCEPT !.group = redis.group \cup {g},
                             !.key = redis.key \cup {StreamOf[g]}], monitored)

GroupsLost(groups, keys) ==
    Change([redis EXCEPT
       !.group = redis.group \ groups, !.key = redis.key \ keys,
       !.consumer = [g \in Group |->
          IF g \in groups THEN [x \in Consumer |-> "absent"] ELSE redis.consumer[g]]], monitored)

GroupDestroyed(g) == g \in redis.group /\ GroupsLost({g}, {})

\* DEL: the stream goes with its groups.
StreamDeleted(s) == s \in redis.key /\ GroupsLost({g \in Group : StreamOf[g] = s}, {s})

\* A consumer is created or deleted, or has been idle with pending entries for
\* consumerStalledAfter, or is no longer.
ConsumerChanges(g, x) ==
    /\ g \in redis.group /\ x \in NamesOf[g]
    /\ \E w \in Work \ {redis.consumer[g][x]} :
          Change([redis EXCEPT !.consumer[g][x] = w], monitored)

MonitorOrNot(s) == Change(redis, Flipped(monitored, s))
-----------------------------------------------------------------------------
(* CollectConnection. *)

\* A caller reads which streams are monitored. operationsSnapshot collects itself only
\* when there is no snapshot yet.
Ask(c) ==
    /\ call[c].phase = "idle"
    /\ c \in Handler => snapshot.nodeAge = None
    /\ call' = [call EXCEPT ![c] = [@ EXCEPT !.phase = "asked", !.streams = monitored]]
    /\ UNCHANGED <<redis, monitored, monitorVars, changes, faults>>

\* A collection of the connection runs: its caller gets the snapshot there is.
Coalesce(c) ==
    /\ call[c].phase = "asked"
    /\ collecting
    /\ call' = [call EXCEPT ![c] = [@ EXCEPT !.phase = "record", !.streams = {}, !.snap = snapshot]]
    /\ UNCHANGED <<redis, monitored, monitorVars, changes, faults>>

Elapsed(age, interval) == age # None => age >= interval

\* The mark is set, the snapshot copied and, when they are due, the nodes sampled.
Begin(c, snap) ==
    /\ call[c].phase = "asked"
    /\ ~collecting
    /\ collecting' = TRUE
    /\ call' = [call EXCEPT ![c] = [@ EXCEPT !.phase = "streams", !.lag = 0, !.snap = snap,
          !.due = snap.up /\ Elapsed(snapshot.streamAge, StreamInterval)]]
    /\ UNCHANGED <<redis, monitored, snapshot, seen, changes>>

NodesDue == Elapsed(snapshot.nodeAge, NodeInterval)

SampledNodes(up, node) == [snapshot EXCEPT !.nodeAge = 0, !.up = up, !.node = node]

BeginWithNodes(c) ==
    /\ NodesDue /\ redis.up
    /\ Begin(c, SampledNodes(TRUE, redis.node))
    /\ UNCHANGED faults

\* The walk of the shards comes to some of the nodes only, or is cut off at
\* operationalMaxClusterNodes. Of a cluster where it comes to none, INFO gives one node
\* named "default", which is none of those that are followed.
BeginWithSomeNodes(c) ==
    /\ NodesDue /\ redis.up
    /\ \E nodes \in SUBSET redis.node \ {redis.node} : Begin(c, SampledNodes(TRUE, nodes))
    /\ Fault

\* A failed PING or INFO shows no node.
BeginWithoutAnswer(c) ==
    /\ NodesDue
    /\ Begin(c, SampledNodes(FALSE, {}))
    /\ IF redis.up THEN Fault ELSE UNCHANGED faults

BeginNotDue(c) ==
    /\ ~NodesDue
    /\ Begin(c, snapshot)
    /\ UNCHANGED faults

\* Streams for which XINFO STREAM has an answer.
Answers == IF redis.up THEN redis.key ELSE {}

AtMost(n, limit) == IF n > limit THEN limit ELSE n

\* The groups that are taken of those that XINFO GROUPS lists.
Allowed(groups, taken) ==
    LET of(s, S) == {g \in S : StreamOf[g] = s}
        limit(s) == AtMost(Cardinality(of(s, groups)), MaxGroupsPerStream)
    IN  /\ taken \subseteq groups
        /\ Cardinality(taken) <= MaxGroups
        /\ \A s \in Stream :
              /\ Cardinality(of(s, taken)) <= limit(s)
              /\ Cardinality(of(s, taken)) < limit(s) => Cardinality(taken) = MaxGroups

\* The streams that are asked for, within their limit, with the answers of the pipeline.
Replies(streams, asked, reply) ==
    /\ Cardinality(asked) = AtMost(Cardinality(streams), MaxStreams)
    /\ \A s \in Stream :
          /\ reply[s] = "absent" <=> s \notin asked
          /\ s \in asked \ Answers => reply[s] = "unavailable"

\* The snapshot after the pipeline, in which the groups taken have no consumers yet; its
\* time is that of the begin.
Listing(c, streams, groups, taken, reply) ==
    [call[c].snap EXCEPT
        !.streamAge = call[c].lag,
        !.stream = reply,
        !.group = [g \in Group |-> IF g \in taken THEN "failed" ELSE "absent"],
        !.consumer = [g \in Group |-> [x \in Consumer |-> "absent"]],
        !.streamsTruncated = Cardinality(streams) > MaxStreams,
        !.groupsTruncated = taken # groups]

\* collectStreamHealth up to its first XINFO CONSUMERS. XINFO STREAM or XINFO GROUPS of a
\* stream fails, or both answer.
ReadStreams(c) ==
    LET streams == call[c].streams
    IN  /\ call[c].phase = "streams" /\ call[c].due
        /\ \E asked \in SUBSET streams, reply \in [Stream -> Reply], taken \in SUBSET redis.group :
              LET groups == {g \in redis.group : reply[StreamOf[g]] = "listed"}
              IN  /\ Replies(streams, asked, reply)
                  /\ Allowed(groups, taken)
                  /\ IF \A s \in asked \cap Answers : reply[s] = "listed"
                     THEN UNCHANGED faults
                     ELSE Fault
                  /\ call' = [call EXCEPT ![c] = [@ EXCEPT
                        !.phase = "consumers", !.streams = {}, !.due = FALSE,
                        !.snap = Listing(c, streams, groups, taken, reply),
                        !.todo = taken,
                        !.calls = MaxConsumerCalls,
                        !.room = MaxConsumers]]
        /\ seen' = [g \in Group |-> [x \in Consumer |-> {redis.consumer[g][x]}]]
        /\ UNCHANGED <<redis, monitored, snapshot, collecting, changes>>

Present(g) == {x \in Consumer : redis.consumer[g][x] # "absent"}

\* Fault: what the room of the collection cuts off counts as sampled.
SampleStatusOf_RoomForgotten(n, room) ==
    IF n > MaxConsumersPerGroup THEN "truncated" ELSE "sampled"

\* The status of a group that has n consumers.
SampleStatusOf(n, room) ==
    IF n > MaxConsumersPerGroup \/ n > room THEN "truncated" ELSE "sampled"

\* The call goes on with its next group.
NextGroup(c, g, snap, calls, room) ==
    /\ call' = [call EXCEPT ![c] = [@ EXCEPT
          !.snap = snap, !.todo = call[c].todo \ {g}, !.calls = calls, !.room = room]]
    /\ UNCHANGED <<redis, monitored, monitorVars, changes>>

InBudget(c) == call[c].calls > 0 /\ call[c].room > 0

\* XINFO CONSUMERS of a group, of which as many consumers are kept as there is room for.
SampleConsumers(c, g) ==
    LET n == Cardinality(Present(g))
        limit == AtMost(AtMost(n, MaxConsumersPerGroup), call[c].room)
    IN  /\ call[c].phase = "consumers" /\ g \in call[c].todo /\ InBudget(c)
        /\ redis.up /\ g \in redis.group
        /\ \E shown \in SUBSET Present(g) :
              /\ Cardinality(shown) = limit
              /\ NextGroup(c, g,
                    [call[c].snap EXCEPT
                        !.group[g] = SampleStatusOf(n, call[c].room),
                        !.consumer[g] = [x \in Consumer |->
                            IF x \in shown THEN redis.consumer[g][x] ELSE "absent"]],
                    call[c].calls - 1, call[c].room - limit)
        /\ UNCHANGED faults

ConsumersNotRead(c, g) ==
    /\ call[c].phase = "consumers" /\ g \in call[c].todo /\ InBudget(c)
    /\ IF redis.up /\ g \in redis.group THEN Fault ELSE UNCHANGED faults
    /\ NextGroup(c, g, call[c].snap, call[c].calls - 1, call[c].room)

\* not_sampled_budget
ConsumersNotAsked(c, g) ==
    /\ call[c].phase = "consumers" /\ g \in call[c].todo /\ ~InBudget(c)
    /\ NextGroup(c, g, call[c].snap, call[c].calls, call[c].room)
    /\ UNCHANGED faults

\* The snapshot is stored and the mark of the collection removed.
Store(c) ==
    /\ snapshot' = call[c].snap
    /\ collecting' = FALSE
    /\ call' = [call EXCEPT ![c] =
          [Idle EXCEPT !.phase = "record", !.lag = call[c].lag, !.snap = call[c].snap]]
    /\ seen' = Unseen
    /\ UNCHANGED <<redis, monitored, changes, faults>>

StoreStreams(c) ==
    /\ call[c].phase = "consumers" /\ call[c].todo = {}
    /\ Store(c)

StreamsNotDue(c) ==
    /\ call[c].phase = "streams" /\ ~call[c].due
    /\ Store(c)
-----------------------------------------------------------------------------
\* Ages saturate where the instances tell them apart no longer.
Older(a) == IF a = None THEN None ELSE IF a < Horizon THEN a + 1 ELSE a
Aged(s) == [s EXCEPT !.nodeAge = Older(@), !.streamAge = Older(@)]

MonitorTick ==
    /\ \A c \in Caller : call[c].phase # "idle" => call[c].lag < CallTime
    /\ snapshot' = Aged(snapshot)
    /\ call' = [c \in Caller |->
          IF call[c].phase = "idle" THEN call[c]
          ELSE [call[c] EXCEPT !.lag = @ + 1, !.snap = Aged(@)]]
    /\ UNCHANGED <<redis, monitored, collecting, seen, changes, faults>>

MonitorRestart ==
    /\ changes > 0 /\ changes' = changes - 1
    /\ snapshot' = NoSnapshot
    /\ collecting' = FALSE
    /\ call' = [c \in Caller |-> Idle]
    /\ seen' = Unseen
    /\ UNCHANGED <<redis, monitored, faults>>

MonitorNext ==
    \/ ReachableOrNot
    \/ \E n \in Node : NodeChanges(n)
    \/ \E g \in Group : GroupCreated(g) \/ GroupDestroyed(g)
    \/ \E s \in Stream : StreamDeleted(s) \/ MonitorOrNot(s)
    \/ \E g \in Group, x \in Consumer : ConsumerChanges(g, x)
    \/ \E c \in Caller :
          \/ Ask(c) \/ Coalesce(c)
          \/ BeginWithNodes(c) \/ BeginWithSomeNodes(c)
          \/ BeginWithoutAnswer(c) \/ BeginNotDue(c)
          \/ ReadStreams(c) \/ StreamsNotDue(c) \/ StoreStreams(c)
          \/ \E g \in Group :
                \/ SampleConsumers(c, g) \/ ConsumersNotRead(c, g) \/ ConsumersNotAsked(c, g)

CollectorPhase == {"streams", "consumers"}

\* One caller at a time collects, and the mark is there exactly as long: a mark left
\* behind would end the collection of the connection for good.
OneCollector ==
    LET collectors == {c \in Caller : call[c].phase \in CollectorPhase}
    IN  /\ collecting <=> collectors # {}
        /\ \A c, d \in collectors : c = d
=============================================================================
