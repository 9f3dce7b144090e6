------------------------- MODULE MonitoringHistory -------------------------
(***************************************************************************)
(* What is done with the snapshots of OperationalMonitor (history.go):     *)
(* recordOperationalSnapshot keeps the current groups, consumers and nodes *)
(* and writes an event for each transition. The events of a transaction    *)
(* are the value of an operator, as nothing reads them back; the samples   *)
(* for charts and forecasts, copied every few minutes, are left out.       *)
(***************************************************************************)
EXTENDS OperationalMonitor

VARIABLES
    groupRow,     \* consumer_group_current
    consumerRow,  \* consumer_current
    topology      \* redis_topology_current of the connection

tables == <<groupRow, consumerRow, topology>>
vars == <<redis, monitored, snapshot, collecting, call, seen, changes, faults, tables>>

GroupRow == [age: Age, status: SampleStatus, stalled: BOOLEAN]
ConsumerRow == [age: Age, stalled: BOOLEAN]
Topology == [age: Age, up: BOOLEAN, node: SUBSET Node]

ASSUME HistoryAssumption == None \notin GroupRow \cup ConsumerRow \cup Topology

TypeOK ==
    /\ MonitorTypeOK
    /\ groupRow \in [Group -> GroupRow \cup {None}]
    /\ consumerRow \in [Group -> [Consumer -> ConsumerRow \cup {None}]]
    /\ topology \in Topology \cup {None}

Init ==
    /\ MonitorInit
    /\ groupRow = [g \in Group |-> None]
    /\ consumerRow = [g \in Group |-> [x \in Consumer |-> None]]
    /\ topology = None

-----------------------------------------------------------------------------
(* recordConsumerHistory. *)

Available(snap, s) == snap.stream[s] \in {"unlisted", "listed"}

Recordable_AnySample(snap) == snap.streamAge # None /\ snap.up

\* Only a sample newer than every row is recorded.
Recordable(snap) ==
    /\ snap.streamAge # None /\ snap.up
    /\ \A g \in Group : groupRow[g] # None => groupRow[g].age > snap.streamAge

\* What a sample says is over: a group that is not in the list, which is not cut off,
\* a consumer that is not in the complete set, one that works, a group without a
\* stalled consumer.
SaysGroupGone(snap, g) ==
    /\ Available(snap, StreamOf[g]) /\ snap.group[g] = "absent"
    /\ ~snap.groupsTruncated

SaysConsumerGone_Never(snap, g, x) == FALSE

SaysConsumerGone(snap, g, x) == snap.group[g] = "sampled" /\ snap.consumer[g][x] = "absent"

SaysConsumerWorks(snap, g, x) == snap.consumer[g][x] = "working"

StalledIn(snap, g) == \E x \in Consumer : snap.consumer[g][x] = "stalled"

SaysGroupWorks(snap, g) == snap.group[g] = "sampled" /\ ~StalledIn(snap, g)

\* pruneUnmonitoredConsumerState
Unmonitored(snap, g) == snap.stream[StreamOf[g]] = "absent" /\ ~snap.streamsTruncated

GroupLeft(snap, g) == groupRow[g] # None /\ SaysGroupGone(snap, g)

Gone(snap, g) == GroupLeft(snap, g) \/ Unmonitored(snap, g)

\* A sample that was not taken keeps the number of stalled consumers.
NewGroupRow(snap, g) ==
    IF Gone(snap, g) THEN None
    ELSE IF snap.group[g] = "absent" THEN groupRow[g]
    ELSE [age |-> snap.streamAge, status |-> snap.group[g],
          stalled |-> IF snap.group[g] = "failed"
                      THEN groupRow[g] # None /\ groupRow[g].stalled
                      ELSE StalledIn(snap, g)]

Upserted(snap, g, x) ==
    IF snap.consumer[g][x] = "absent" THEN consumerRow[g][x]
    ELSE [age |-> snap.streamAge, stalled |-> snap.consumer[g][x] = "stalled"]

\* recordPartialConsumerSet: a partial one may push rows it does not show out of the
\* most recent operationalMaxConsumersPerGroup.
Crowded(snap) ==
    {k \in Group \X Consumer :
        snap.group[k[1]] = "truncated" /\ snap.consumer[k[1]][k[2]] = "absent"}

NewConsumerRow_OfLostGroup(snap, g, x, crowded) ==
    IF SaysConsumerGone(snap, g, x) \/ <<g, x>> \in crowded THEN None
    ELSE Upserted(snap, g, x)

\* recordCompleteConsumerSet removes the rows that are not in the set.
NewConsumerRow(snap, g, x, crowded) ==
    IF Gone(snap, g) \/ SaysConsumerGone(snap, g, x) \/ <<g, x>> \in crowded THEN None
    ELSE Upserted(snap, g, x)

\* What recordTopologyHistory reads of a snapshot.
NodesOnly(snap) == [NoSnapshot EXCEPT !.nodeAge = snap.nodeAge, !.up = snap.up, !.node = snap.node]

Recorded(c) ==
    /\ call[c].phase = "record"
    /\ call' = [call EXCEPT ![c] = [@ EXCEPT !.phase = "topology", !.snap = NodesOnly(call[c].snap)]]
    /\ UNCHANGED <<redis, monitored, monitorVars, changes, faults, topology>>

RecordConsumers(c) ==
    LET snap == call[c].snap
    IN  /\ Recorded(c)
        /\ Recordable(snap)
        /\ groupRow' = [g \in Group |-> NewGroupRow(snap, g)]
        /\ \E crowded \in SUBSET Crowded(snap) :
              consumerRow' = [g \in Group |-> [x \in Consumer |->
                 NewConsumerRow(snap, g, x, crowded)]]

RecordNothing(c) ==
    /\ Recorded(c)
    /\ ~Recordable(call[c].snap)
    /\ UNCHANGED <<groupRow, consumerRow>>
-----------------------------------------------------------------------------
(* recordTopologyHistory. *)

NewerTopology(snap) ==
    snap.nodeAge # None /\ (topology # None => topology.age > snap.nodeAge)

CurrentTopology_AsSampled(snap) == [age |-> snap.nodeAge, up |-> snap.up, node |-> snap.node]

\* A failed PING leaves the membership unknown: the nodes known before are down.
CurrentTopology(snap) ==
    [age |-> snap.nodeAge, up |-> snap.up,
     node |-> IF topology # None /\ ~snap.up /\ snap.node = {} THEN topology.node ELSE snap.node]

\* deriveTopologyEvents: node_left
NodesLeft(snap) ==
    IF topology = None THEN {} ELSE topology.node \ CurrentTopology(snap).node

EndCall(c) == call' = [call EXCEPT ![c] = Idle]

RecordTopology(c) ==
    LET snap == call[c].snap
    IN  /\ call[c].phase = "topology"
        /\ topology' = IF NewerTopology(snap) THEN CurrentTopology(snap) ELSE topology
        /\ call' = [call EXCEPT ![c] = [@ EXCEPT !.phase = "maintain", !.snap = NoSnapshot]]
        /\ UNCHANGED <<redis, monitored, monitorVars, changes, faults, groupRow, consumerRow>>
-----------------------------------------------------------------------------
(* maintainMonitoringHistory, once an hour. *)

MaintenanceNotDue(c) ==
    /\ call[c].phase = "maintain"
    /\ EndCall(c)
    /\ UNCHANGED <<redis, monitored, monitorVars, changes, faults, tables>>

\* Of the rows whose age has saturated any may be older than the retention.
Expirable(r) == r # None /\ r.age = Horizon

\* The rows of consumers go with the row of their group, which is of the same sample
\* or of a newer one.
RowsExpire(groups, consumers) ==
    /\ \A g \in Group, x \in Consumer :
          Expirable(consumerRow[g][x]) /\ (g \in groups \/ groupRow[g].status = "sampled") =>
             (<<g, x>> \in consumers <=> g \in groups)
    /\ groupRow' = [g \in Group |-> IF g \in groups THEN None ELSE groupRow[g]]
    /\ consumerRow' = [g \in Group |-> [x \in Consumer |->
          IF <<g, x>> \in consumers THEN None ELSE consumerRow[g][x]]]

Maintain(c) ==
    /\ call[c].phase = "maintain"
    /\ \E groups \in SUBSET {g \in Group : Expirable(groupRow[g])},
          consumers \in SUBSET {k \in Group \X Consumer : Expirable(consumerRow[k[1]][k[2]])} :
             RowsExpire(groups, consumers)
    /\ topology' \in {topology} \cup (IF Expirable(topology) THEN {None} ELSE {})
    /\ EndCall(c)
    /\ UNCHANGED <<redis, monitored, monitorVars, changes, faults>>
-----------------------------------------------------------------------------
\* A transaction fails: what it would have done and what follows is left out.
RecordFails(c) ==
    /\ call[c].phase \in {"record", "topology", "maintain"}
    /\ Fault
    /\ EndCall(c)
    /\ UNCHANGED <<redis, monitored, monitorVars, changes, tables>>

AgedRow(r) == IF r = None THEN None ELSE [r EXCEPT !.age = Older(@)]

Tick ==
    /\ MonitorTick
    /\ groupRow' = [g \in Group |-> AgedRow(groupRow[g])]
    /\ consumerRow' = [g \in Group |-> [x \in Consumer |-> AgedRow(consumerRow[g][x])]]
    /\ topology' = AgedRow(topology)

Restart == MonitorRestart /\ UNCHANGED tables

Next ==
    \/ MonitorNext /\ UNCHANGED tables
    \/ \E c \in Caller :
          \/ RecordConsumers(c) \/ RecordNothing(c) \/ RecordTopology(c)
          \/ MaintenanceNotDue(c) \/ Maintain(c)
          \/ RecordFails(c)
    \/ Tick
    \/ Restart

Spec == Init /\ [][Next]_vars
-----------------------------------------------------------------------------
\* What is reported as over was so at a moment of the collection, however Redis changes
\* between its calls and whatever was cut off, not asked for or not answered:
\* consumer_left, consumer_recovered, group_recovered (operational.go:753-793,
\* history.go:274-303, 453-470, 514-521).
ConsumerEventsAreTrue ==
    [][\A c \in Caller : StoreStreams(c) =>
        LET snap == call[c].snap
        IN  \A g \in Group, x \in Consumer :
               /\ SaysConsumerGone(snap, g, x) => "absent" \in seen[g][x]
               /\ SaysConsumerWorks(snap, g, x) => "working" \in seen[g][x]
               /\ SaysGroupWorks(snap, g) => seen[g][x] # {"stalled"}]_vars

\* "Suppress removals rather than emitting false leave events during bounded
\* collection" (history.go:327-328): a group reported as gone is not there. Said of an
\* instance in which Redis does not change, as otherwise it may be there again.
GroupLeaveIsTrue ==
    [][\A c \in Caller : RecordConsumers(c) =>
        \A g \in Group : GroupLeft(call[c].snap, g) => g \notin redis.group]_vars

\* A connection that does not answer is no leave of its nodes (history.go:609-619).
NodeLeaveIsTrue ==
    \A c \in Caller :
        call[c].phase = "topology" /\ NewerTopology(call[c].snap) =>
            \A n \in NodesLeft(call[c].snap) :
                call[c].snap.up /\ n \notin call[c].snap.node

\* A consumer has a row only as long as its group has one, which is of the same sample or
\* of a newer one (history.go:329-349, 365-393, 834-849).
NoOrphanConsumers ==
    \A g \in Group, x \in Consumer : consumerRow[g][x] # None =>
        groupRow[g] # None /\ groupRow[g].age <= consumerRow[g][x].age

\* A complete sample leaves nothing of an earlier one: every row of the group is of that
\* sample, and the group counts a stalled consumer exactly if one of its rows is
\* (history.go:268-325, 441-470).
CompleteMeansCurrent ==
    \A g \in Group : groupRow[g] # None /\ groupRow[g].status = "sampled" =>
        LET present == {x \in Consumer : consumerRow[g][x] # None}
        IN  /\ \A x \in present : consumerRow[g][x].age = groupRow[g].age
            /\ groupRow[g].stalled <=> \E x \in present : consumerRow[g][x].stalled

\* Whatever caller comes last, a row is never replaced by that of an older sample
\* (history.go:236-243, 602-604).
RowsNeverGoBack ==
    [][(\E c \in Caller : RecordConsumers(c) \/ RecordTopology(c)) =>
        /\ \A g \in Group :
              /\ groupRow[g] # None /\ groupRow'[g] # None => groupRow'[g].age <= groupRow[g].age
              /\ \A x \in Consumer :
                    consumerRow[g][x] # None /\ consumerRow'[g][x] # None =>
                        consumerRow'[g][x].age <= consumerRow[g][x].age
        /\ topology # None /\ topology' # None => topology'.age <= topology.age]_vars
=============================================================================
