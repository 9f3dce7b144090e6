--------------------------- MODULE AlertEscalation ---------------------------
(***************************************************************************)
(* Webhook routes, escalation policies and the escalation scheduler        *)
(* (alert_operations.go).                                                  *)
(*                                                                         *)
(* A pass of the scheduler reads the firing incidents, the ids of the      *)
(* policies, each policy and its steps, and then for every due step the    *)
(* suppressions, the route and its destinations, each in a query of its    *)
(* own; in between administrators store and delete policies and routes.    *)
(* The order of incidents, policies and steps in a pass is left open.      *)
(* Every policy of an instance is taken to match every incident of it.     *)
(* The age of an incident grows by one tick per pass, up to Horizon.       *)
(* The incidents are those of rules that are not deleted; that a pass      *)
(* reads 5000 of them at most, and 500 policies, is left out.              *)
(***************************************************************************)
EXTENDS Naturals, FiniteSets

CONSTANTS
    Incident, Route, Policy,
    Step,         \* escalation step ids (randomID)
    Destination,  \* destinations a route may have; their ids belong to the route
    Admin,        \* concurrent POST and PUT requests for policies
    Horizon,      \* age at which the age of an incident saturates
    MaxSteps,     \* steps of a policy
    MaxFaults,    \* errors and crashes of a behaviour
    None

ASSUME EscalationAssumption ==
    /\ Horizon \in Nat \ {0} /\ MaxSteps \in Nat \ {0} /\ MaxFaults \in Nat
    /\ None \notin Policy /\ None \notin Incident

VARIABLES
    incident,    \* status and age of alert_incidents
    route,       \* alert_webhook_routes with their destinations
    policy,      \* alert_escalation_policies with their steps
    suppressed,  \* incidents covered by a silence or a maintenance window
    edit,        \* policies validated by a request and not stored yet
    job,         \* escalation rows of alert_notification_jobs by dedup key
    phase,       \* where the scheduler is
    listed,      \* incidents this pass found firing
    ids,         \* policy ids this pass has still to read
    current,     \* the policy whose row was read and whose steps were not
    steps,       \* due work: incident, policy and step
    item,        \* the step being escalated
    pending,     \* its destinations not inserted yet
    faults

tables == <<incident, route, policy, suppressed, job>>
pass == <<phase, listed, ids, current, steps, item, pending>>
vars == <<tables, edit, pass, faults>>

StepRecord == [id: Step, after: 1..Horizon, route: Route]
RouteRecord ==
    [life: {"absent", "live", "deleted"}, enabled: BOOLEAN, dests: SUBSET Destination]
PolicyRecord ==
    [life: {"absent", "live", "deleted"}, enabled: BOOLEAN, steps: SUBSET StepRecord]
EditRecord ==
    [policy: Policy, new: BOOLEAN, enabled: BOOLEAN, steps: SUBSET StepRecord]
Work == [incident: Incident, policy: Policy, step: StepRecord]

\* alertDeterministicID("escalation", incident, policy, step, destination)
Key == [incident: Incident, policy: Policy, step: Step, dest: Route \X Destination]

NoRoute == [life |-> "absent", enabled |-> FALSE, dests |-> {}]
NoPolicy == [life |-> "absent", enabled |-> FALSE, steps |-> {}]

Phase == {"idle", "listing", "policies", "steps", "work", "route", "destinations", "enqueue"}

TypeOK ==
    /\ incident \in [Incident -> [status: {"none", "firing", "acknowledged", "resolved"},
                                  age: 0..Horizon]]
    /\ route \in [Route -> RouteRecord]
    /\ policy \in [Policy -> PolicyRecord]
    /\ suppressed \subseteq Incident
    /\ edit \in [Admin -> EditRecord \cup {None}]
    /\ job \in [Key -> {"none", "open", "completed"}]
    /\ phase \in Phase
    /\ listed \subseteq Incident
    /\ ids \subseteq Policy
    /\ current \in Policy \cup {None}
    /\ steps \subseteq Work
    /\ item \in Work \cup {None}
    /\ pending \subseteq Route \X Destination
    /\ faults \in 0..MaxFaults

Init ==
    /\ incident = [i \in Incident |-> [status |-> "none", age |-> 0]]
    /\ route = [r \in Route |-> NoRoute]
    /\ policy = [p \in Policy |-> NoPolicy]
    /\ suppressed = {}
    /\ edit = [a \in Admin |-> None]
    /\ job = [k \in Key |-> "none"]
    /\ phase = "idle"
    /\ listed = {} /\ ids = {} /\ current = None /\ steps = {} /\ item = None /\ pending = {}
    /\ faults = MaxFaults
-----------------------------------------------------------------------------
(* Incidents and suppressions, as the evaluator and administrators move them. *)

Fire(i) ==
    /\ incident[i].status = "none"
    /\ incident' = [incident EXCEPT ![i].status = "firing"]
    /\ UNCHANGED <<route, policy, suppressed, job, edit, pass, faults>>

Acknowledge(i) ==
    /\ incident[i].status = "firing"
    /\ incident' = [incident EXCEPT ![i].status = "acknowledged"]
    /\ UNCHANGED <<route, policy, suppressed, job, edit, pass, faults>>

\* Or its rule is deleted: the scheduler sees neither.
Resolve(i) ==
    /\ incident[i].status \in {"firing", "acknowledged"}
    /\ incident' = [incident EXCEPT ![i].status = "resolved"]
    /\ UNCHANGED <<route, policy, suppressed, job, edit, pass, faults>>

ToggleSuppression(i) ==
    /\ suppressed' = IF i \in suppressed THEN suppressed \ {i} ELSE suppressed \cup {i}
    /\ UNCHANGED <<incident, route, policy, job, edit, pass, faults>>

-----------------------------------------------------------------------------
(* Routes.                                                                   *)

\* Create or replace; the UPDATE asks that the route is not deleted. The destinations
\* are those that are enabled, of which there may be none.
StoreRoute(r, enabled, dests) ==
    /\ route[r].life \in {"absent", "live"}
    /\ route' = [route EXCEPT ![r] = [life |-> "live", enabled |-> enabled, dests |-> dests]]
    /\ UNCHANGED <<incident, policy, suppressed, job, edit, pass, faults>>

ReferencedByEnabled(r) ==
    \E p \in Policy : /\ policy[p].life = "live" /\ policy[p].enabled
                      /\ \E s \in policy[p].steps : s.route = r

\* The references are read first and checked again by the trigger
\* alert_webhook_route_delete_guard, in the statement that deletes.
DeleteRoute(r) ==
    /\ route[r].life = "live"
    /\ ~ReferencedByEnabled(r)
    /\ route' = [route EXCEPT ![r].life = "deleted", ![r].enabled = FALSE]
    /\ UNCHANGED <<incident, policy, suppressed, job, edit, pass, faults>>

-----------------------------------------------------------------------------
(* Policies.                                                                 *)

Ids(S) == {s.id : s \in S}

\* A random id is in no row, in no request and in no dedup key.
Fresh(id) ==
    /\ \A p \in Policy : id \notin Ids(policy[p].steps)
    /\ \A a \in Admin : edit[a] # None => id \notin Ids(edit[a].steps)
    /\ \A k \in Key : k.step = id => job[k] = "none"

WellFormed(S) ==
    /\ Cardinality(S) \in 1..MaxSteps
    /\ \A s, t \in S : s # t => s.id # t.id /\ s.after # t.after

\* normalizeAlertEscalationPolicyInput and the reads of its caller, all before
\* the transaction: every route exists, kept step ids belong to the policy.
Validate(a, e) ==
    /\ edit[a] = None
    /\ WellFormed(e.steps)
    /\ \A s \in e.steps : route[s.route].life = "live"
    /\ IF e.new
       THEN /\ policy[e.policy].life = "absent"
            /\ \A b \in Admin : edit[b] # None => edit[b].policy # e.policy
            /\ \A s \in e.steps : Fresh(s.id)
       ELSE /\ policy[e.policy].life = "live"
            /\ \A s \in e.steps : s.id \in Ids(policy[e.policy].steps) \/ Fresh(s.id)
    /\ edit' = [edit EXCEPT ![a] = e]
    /\ UNCHANGED <<tables, pass, faults>>

\* persistAlertEscalationPolicy.  The foreign key of a step asks for the row of
\* its route, deleted or not.
StorePolicy(a) ==
    LET e == edit[a]
    IN  /\ e # None
        /\ policy[e.policy].life = IF e.new THEN "absent" ELSE "live"
        /\ \A s \in e.steps : route[s.route].life # "absent"
        /\ policy' = [policy EXCEPT ![e.policy] =
              [life |-> "live", enabled |-> e.enabled, steps |-> e.steps]]
        /\ edit' = [edit EXCEPT ![a] = None]
        /\ UNCHANGED <<incident, route, suppressed, job, pass, faults>>

\* The policy was deleted meanwhile, or the request fails.
AbandonPolicy(a) ==
    /\ edit[a] # None
    /\ edit' = [edit EXCEPT ![a] = None]
    /\ UNCHANGED <<tables, pass, faults>>

DeletePolicy(p) ==
    /\ policy[p].life = "live"
    /\ policy' = [policy EXCEPT ![p].life = "deleted", ![p].enabled = FALSE]
    /\ UNCHANGED <<incident, route, suppressed, job, edit, pass, faults>>

-----------------------------------------------------------------------------
(* ScheduleEscalationsAt.                                                    *)

Older(a) == IF a = Horizon THEN a ELSE a + 1

\* Fault: every incident that is not resolved.
ToEscalate_Active == {i \in Incident : incident[i].status \in {"firing", "acknowledged"}}

ToEscalate == {i \in Incident : incident[i].status = "firing"}

BeginPass ==
    /\ phase = "idle"
    /\ incident' = [i \in Incident |-> IF incident[i].status = "none" THEN incident[i]
                                       ELSE [incident[i] EXCEPT !.age = Older(@)]]
    /\ listed' = ToEscalate
    /\ phase' = "listing"
    /\ UNCHANGED <<route, policy, suppressed, job, edit, ids, current, steps,
                   item, pending, faults>>

ListPolicies ==
    /\ phase = "listing"
    /\ ids' = {p \in Policy : policy[p].life = "live"}
    /\ phase' = "policies"
    /\ UNCHANGED <<tables, edit, listed, current, steps, item, pending, faults>>

AbandonPass ==
    /\ phase' = "idle"
    /\ listed' = {} /\ ids' = {} /\ current' = None /\ steps' = {} /\ item' = None
    /\ pending' = {}

\* A policy deleted since its id was listed ends the pass with an error; the
\* steps of a disabled one are not used.
ReadPolicy(p) ==
    /\ phase = "policies"
    /\ p \in ids
    /\ IF policy[p].life # "live"
       THEN AbandonPass
       ELSE /\ ids' = ids \ {p}
            /\ current' = IF policy[p].enabled THEN p ELSE None
            /\ phase' = IF policy[p].enabled THEN "steps" ELSE phase
            /\ UNCHANGED <<listed, steps, item, pending>>
    /\ UNCHANGED <<tables, edit, faults>>

\* Fault: the delay has to be exceeded.
Due_Strictly(i, s) == incident[i].age > s.after

Due(i, s) == incident[i].age >= s.after

ReadSteps ==
    /\ phase = "steps"
    /\ steps' = steps \cup
          {w \in [incident: listed, policy: {current}, step: policy[current].steps] :
              Due(w.incident, w.step)}
    /\ current' = None
    /\ phase' = "policies"
    /\ UNCHANGED <<tables, edit, listed, ids, item, pending, faults>>

PoliciesRead ==
    /\ phase = "policies"
    /\ ids = {}
    /\ phase' = "work"
    /\ UNCHANGED <<tables, edit, listed, ids, current, steps, item, pending, faults>>

\* The suppressions are read for every step.
TakeStep(w) ==
    /\ phase = "work"
    /\ w \in steps
    /\ steps' = steps \ {w}
    /\ IF w.incident \in suppressed
       THEN UNCHANGED <<item, phase>>
       ELSE item' = w /\ phase' = "route"
    /\ UNCHANGED <<tables, edit, listed, ids, current, pending, faults>>

\* A missing or a disabled route is passed over.
ReadRoute ==
    LET r == item.step.route
    IN  /\ phase = "route"
        /\ IF route[r].life = "live" /\ route[r].enabled
           THEN phase' = "destinations" /\ UNCHANGED item
           ELSE phase' = "work" /\ item' = None
        /\ UNCHANGED <<tables, edit, listed, ids, current, steps, pending, faults>>

ReadDestinations ==
    LET r == item.step.route
    IN  /\ phase = "destinations"
        /\ pending' = {r} \X route[r].dests
        /\ IF route[r].dests # {}
           THEN phase' = "enqueue" /\ UNCHANGED item
           ELSE phase' = "work" /\ item' = None
        /\ UNCHANGED <<tables, edit, listed, ids, current, steps, faults>>

KeyOf(d) ==
    [incident |-> item.incident, policy |-> item.policy, step |-> item.step.id, dest |-> d]

\* INSERT OR IGNORE.
Inserted(k) == job' = [job EXCEPT ![k] = IF @ = "none" THEN "open" ELSE @]

Enqueue(d) ==
    /\ phase = "enqueue"
    /\ d \in pending
    /\ Inserted(KeyOf(d))
    /\ pending' = pending \ {d}
    /\ IF pending = {d}
       THEN phase' = "work" /\ item' = None
       ELSE UNCHANGED <<phase, item>>
    /\ UNCHANGED <<incident, route, policy, suppressed, edit, listed, ids, current, steps,
                   faults>>

EndPass ==
    /\ phase = "work"
    /\ steps = {}
    /\ AbandonPass
    /\ UNCHANGED <<tables, edit, faults>>

-----------------------------------------------------------------------------
(* The outbox closes jobs; errors and crashes; retention.                    *)

CompleteJob(k) ==
    /\ job[k] = "open"
    /\ job' = [job EXCEPT ![k] = "completed"]
    /\ UNCHANGED <<incident, route, policy, suppressed, edit, pass, faults>>

Fault == faults > 0 /\ faults' = faults - 1

\* A query or an insert fails, or the deadline of the pass is over.
PassFails ==
    /\ Fault
    /\ phase # "idle"
    /\ AbandonPass
    /\ UNCHANGED <<tables, edit>>

Crash ==
    /\ Fault
    /\ AbandonPass
    /\ edit' = [a \in Admin |-> None]
    /\ UNCHANGED tables

\* maintainAdvancedAlertHistory runs in the scheduler's goroutine between two
\* passes; no request lasts for 30 days.
Retention == phase = "idle" /\ \A a \in Admin : edit[a] = None

PurgeJob(k) ==
    /\ Retention
    /\ job[k] = "completed"
    /\ job' = [job EXCEPT ![k] = "none"]
    /\ UNCHANGED <<incident, route, policy, suppressed, edit, pass, faults>>

\* The steps go with their policy (ON DELETE CASCADE).
PurgePolicy(p) ==
    /\ Retention
    /\ policy[p].life = "deleted"
    /\ policy' = [policy EXCEPT ![p] = NoPolicy]
    /\ UNCHANGED <<incident, route, suppressed, job, edit, pass, faults>>

\* Fault: a policy that is deleted itself does not count as a reference.
PurgeRoute_OfDeletedPolicies(r) ==
    /\ Retention
    /\ route[r].life = "deleted"
    /\ \A p \in Policy : policy[p].life = "live" => \A s \in policy[p].steps : s.route # r
    /\ route' = [route EXCEPT ![r] = NoRoute]
    /\ UNCHANGED <<incident, policy, suppressed, job, edit, pass, faults>>

PurgeRoute(r) ==
    /\ Retention
    /\ route[r].life = "deleted"
    /\ \A p \in Policy, s \in StepRecord : s \in policy[p].steps => s.route # r
    /\ route' = [route EXCEPT ![r] = NoRoute]
    /\ UNCHANGED <<incident, policy, suppressed, job, edit, pass, faults>>

-----------------------------------------------------------------------------

Administration ==
    \/ \E i \in Incident : Fire(i) \/ Acknowledge(i) \/ Resolve(i) \/ ToggleSuppression(i)
    \/ \E r \in Route, b \in BOOLEAN, D \in SUBSET Destination : StoreRoute(r, b, D)
    \/ \E r \in Route : DeleteRoute(r)
    \/ \E a \in Admin, e \in EditRecord : Validate(a, e)
    \/ \E a \in Admin : StorePolicy(a) \/ AbandonPolicy(a)
    \/ \E p \in Policy : DeletePolicy(p)

Scheduling ==
    \/ BeginPass \/ ListPolicies \/ ReadSteps \/ PoliciesRead
    \/ \E p \in Policy : ReadPolicy(p)
    \/ \E w \in Work : TakeStep(w)
    \/ ReadRoute \/ ReadDestinations \/ EndPass
    \/ \E d \in Route \X Destination : Enqueue(d)

Purging ==
    \/ \E k \in Key : PurgeJob(k)
    \/ \E p \in Policy : PurgePolicy(p)
    \/ \E r \in Route : PurgeRoute(r)

Next ==
    \/ Administration \/ Scheduling \/ Purging
    \/ \E k \in Key : CompleteJob(k)
    \/ PassFails \/ Crash

Spec == Init /\ [][Next]_vars

\* The scheduler is one goroutine driven by a ticker; nothing is asked of
\* administrators, the evaluator or the outbox.
FairSpec == Spec /\ WF_vars(Scheduling)

-----------------------------------------------------------------------------
(* Properties.                                                               *)

Over(k) ==
    /\ phase = "idle" /\ job[k] = "none"
    /\ incident[k.incident].status \in {"acknowledged", "resolved"}

\* activeAlertIncidentsForEscalation lists what is firing (alert_operations.go:1638),
\* and a pass works on the list for as long as it runs: an acknowledgement that commits
\* between two passes ends the escalation for good. No step that was left over by a
\* pass that failed or was cut off, no policy stored later and no purge of its job
\* brings the incident up again.
AcknowledgementEndsEscalation ==
    \A k \in Key : [](Over(k) => [](job[k] = "none"))

\* The row of a route outlives the steps that refer to it, so that the foreign
\* key never makes the whole retention transaction fail (PurgeRoute against
\* policies that are deleted or disabled but still have steps).
StepsReferToRows ==
    \A p \in Policy, s \in StepRecord :
        s \in policy[p].steps => route[s.route].life # "absent"

Deliverable(k) ==
    /\ incident[k.incident].status = "firing"
    /\ k.incident \notin suppressed
    /\ policy[k.policy].life = "live" /\ policy[k.policy].enabled
    /\ \E s \in policy[k.policy].steps :
          s.id = k.step /\ s.route = k.dest[1] /\ s.after <= incident[k.incident].age
    /\ route[k.dest[1]].life = "live" /\ route[k.dest[1]].enabled
    /\ k.dest[2] \in route[k.dest[1]].dests

\* An incident that stays unacknowledged past the delay of a step is escalated
\* to every destination of the step's route, however many passes ended with an
\* error, were suppressed or found the policy or the route changed.
DueIsEscalated == \A k \in Key : []<>~(Deliverable(k) /\ job[k] = "none")
=============================================================================
