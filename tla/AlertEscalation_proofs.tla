----------------------- MODULE AlertEscalation_proofs -----------------------
(***************************************************************************)
(* For any incidents, routes, policies, steps and administrators: the      *)
(* types, that a step never refers to a route without a row, and that the  *)
(* escalation of an incident ends with its acknowledgement.  The first and *)
(* the last need where a pass stands (PassShape): what it read of a policy *)
(* and the step it escalates, and that a pass leaves nothing to the next.  *)
(***************************************************************************)
EXTENDS AlertEscalation, TLAPS

PassShape ==
    /\ phase = "steps" => current \in Policy
    /\ phase \in {"route", "destinations", "enqueue"} => item \in Work
    /\ phase = "idle" => listed = {} /\ steps = {}

\* The inductive invariant.
IInv == TypeOK /\ PassShape /\ StepsReferToRows

-----------------------------------------------------------------------------

LEMMA InitIInv == Init => IInv
<1> SUFFICES ASSUME Init
             PROVE  IInv
  OBVIOUS
<1>1. TypeOK
  <2>1. NoRoute \in RouteRecord /\ NoPolicy \in PolicyRecord
    BY DEF NoRoute, RouteRecord, NoPolicy, PolicyRecord
  <2>2. 0 \in 0..Horizon /\ MaxFaults \in 0..MaxFaults
    BY EscalationAssumption
  <2>3. QED
    BY <2>1, <2>2 DEF Init, TypeOK, Phase
<1>2. PassShape
  BY DEF Init, PassShape
<1>3. StepsReferToRows
  BY DEF Init, StepsReferToRows, NoPolicy
<1>4. QED
  BY <1>1, <1>2, <1>3 DEF IInv

-----------------------------------------------------------------------------
(* Steps that leave some of the tables alone.                                *)

\* The pass is unchanged.
LEMMA PassStays ==
    ASSUME IInv, TypeOK', UNCHANGED pass, StepsReferToRows'
    PROVE  IInv'
BY DEF pass, IInv, PassShape

\* The tables are unchanged.
LEMMA TablesStay ==
    ASSUME IInv, TypeOK', UNCHANGED tables, PassShape'
    PROVE  IInv'
<1>1. StepsReferToRows'
  BY DEF tables, IInv, StepsReferToRows
<1>2. QED
  BY <1>1 DEF IInv

LEMMA FaultType ==
    ASSUME TypeOK, Fault
    PROVE  faults' \in 0..MaxFaults
BY EscalationAssumption DEF TypeOK, Fault

LEMMA AbandonedPass ==
    ASSUME AbandonPass
    PROVE  /\ phase' \in Phase /\ listed' \subseteq Incident /\ ids' \subseteq Policy
           /\ current' \in Policy \cup {None} /\ steps' \subseteq Work
           /\ item' \in Work \cup {None} /\ pending' \subseteq Route \X Destination
           /\ PassShape'
BY DEF AbandonPass, Phase, PassShape

-----------------------------------------------------------------------------
(* Incidents, suppressions, routes and policies.                             *)

LEMMA IncidentKeeps ==
    ASSUME IInv, NEW i \in Incident,
           Fire(i) \/ Acknowledge(i) \/ Resolve(i) \/ ToggleSuppression(i)
    PROVE  IInv'
<1>1. TypeOK'
  BY DEF Fire, Acknowledge, Resolve, ToggleSuppression, pass, IInv, TypeOK
<1>2. UNCHANGED <<route, policy, job, pass>>
  BY DEF Fire, Acknowledge, Resolve, ToggleSuppression, pass
<1>3. StepsReferToRows'
  BY <1>2 DEF IInv, StepsReferToRows
<1>4. QED
  BY <1>1, <1>2, <1>3, PassStays

LEMMA StoreRouteKeeps ==
    ASSUME IInv, NEW r \in Route, NEW b \in BOOLEAN, NEW D \in SUBSET Destination,
           StoreRoute(r, b, D)
    PROVE  IInv'
<1>1. TypeOK'
  BY DEF StoreRoute, pass, IInv, TypeOK, RouteRecord
<1>2. UNCHANGED <<policy, job, pass>>
  BY DEF StoreRoute, pass
<1>3. \A q \in Route : route[q].life # "absent" => route'[q].life # "absent"
  BY DEF StoreRoute, IInv, TypeOK
<1>4. StepsReferToRows'
  BY <1>2, <1>3 DEF IInv, StepsReferToRows, StepRecord
<1>5. QED
  BY <1>1, <1>2, <1>4, PassStays

LEMMA DeleteRouteKeeps ==
    ASSUME IInv, NEW r \in Route, DeleteRoute(r)
    PROVE  IInv'
<1> DEFINE row == [route[r] EXCEPT !.life = "deleted", !.enabled = FALSE]
<1>1. route[r] \in RouteRecord
  BY DEF IInv, TypeOK
<1>2. row \in RouteRecord /\ row.life = "deleted"
  BY <1>1 DEF RouteRecord
<1>3. route' = [route EXCEPT ![r] = row]
  BY DEF DeleteRoute, IInv, TypeOK
<1> HIDE DEF row
<1>4. TypeOK'
  BY <1>2, <1>3 DEF DeleteRoute, pass, IInv, TypeOK
<1>5. UNCHANGED <<policy, job, pass>>
  BY DEF DeleteRoute, pass
<1>6. \A q \in Route : route[q].life # "absent" => route'[q].life # "absent"
  BY <1>2, <1>3 DEF IInv, TypeOK
<1>7. StepsReferToRows'
  BY <1>5, <1>6 DEF IInv, StepsReferToRows, StepRecord
<1>8. QED
  BY <1>4, <1>5, <1>7, PassStays

LEMMA EditKeeps ==
    ASSUME IInv, NEW a \in Admin, (\E e \in EditRecord : Validate(a, e)) \/ AbandonPolicy(a)
    PROVE  IInv'
<1>1. TypeOK'
  BY DEF Validate, AbandonPolicy, tables, pass, IInv, TypeOK
<1>2. UNCHANGED <<tables, pass>>
  BY DEF Validate, AbandonPolicy, pass
<1>3. QED
  BY <1>1, <1>2, TablesStay DEF pass, IInv, PassShape

\* The foreign key of the steps is all that ties a stored policy to its routes.
LEMMA StorePolicyKeeps ==
    ASSUME IInv, NEW a \in Admin, StorePolicy(a)
    PROVE  IInv'
<1> DEFINE e == edit[a]
           row == [life |-> "live", enabled |-> e.enabled, steps |-> e.steps]
<1>1. e \in EditRecord
  BY DEF StorePolicy, IInv, TypeOK
<1>2. row \in PolicyRecord /\ row.steps = e.steps /\ e.policy \in Policy
  BY <1>1 DEF EditRecord, PolicyRecord
<1>3. policy' = [policy EXCEPT ![e.policy] = row]
  BY DEF StorePolicy
<1>4. \A s \in e.steps : route[s.route].life # "absent"
  BY DEF StorePolicy
<1>5. UNCHANGED <<route, job, pass>>
  BY DEF StorePolicy, pass
<1> HIDE DEF row, e
<1>6. TypeOK'
  BY <1>2, <1>3 DEF StorePolicy, pass, IInv, TypeOK
<1>7. StepsReferToRows'
  BY <1>2, <1>3, <1>4, <1>5 DEF IInv, TypeOK, StepsReferToRows
<1>8. QED
  BY <1>5, <1>6, <1>7, PassStays

LEMMA PolicyGoes ==
    ASSUME IInv, NEW p \in Policy, DeletePolicy(p) \/ PurgePolicy(p)
    PROVE  IInv'
<1>1. PICK row \in PolicyRecord : policy' = [policy EXCEPT ![p] = row]
                                 /\ row.steps \subseteq policy[p].steps
  <2>1. CASE DeletePolicy(p)
    <3> DEFINE row == [policy[p] EXCEPT !.life = "deleted", !.enabled = FALSE]
    <3>1. policy[p] \in PolicyRecord
      BY DEF IInv, TypeOK
    <3>2. row \in PolicyRecord /\ row.steps = policy[p].steps
      BY <3>1 DEF PolicyRecord
    <3>3. policy' = [policy EXCEPT ![p] = row]
      BY <2>1 DEF DeletePolicy, IInv, TypeOK
    <3> HIDE DEF row
    <3>4. QED
      BY <3>2, <3>3
  <2>2. CASE PurgePolicy(p)
    <3>1. NoPolicy \in PolicyRecord /\ NoPolicy.steps = {}
      BY DEF NoPolicy, PolicyRecord
    <3>2. QED
      BY <2>2, <3>1 DEF PurgePolicy
  <2>3. QED
    BY <2>1, <2>2
<1>2. UNCHANGED <<incident, route, suppressed, job, edit, pass, faults>>
  BY DEF DeletePolicy, PurgePolicy
<1>3. TypeOK'
  BY <1>1, <1>2 DEF pass, IInv, TypeOK
<1>4. StepsReferToRows'
  BY <1>1, <1>2 DEF IInv, TypeOK, StepsReferToRows
<1>5. QED
  BY <1>2, <1>3, <1>4, PassStays

\* Retention takes a route only when no step is left that refers to it.
LEMMA PurgeRouteKeeps ==
    ASSUME IInv, NEW r \in Route, PurgeRoute(r)
    PROVE  IInv'
<1>1. UNCHANGED <<policy, job, pass>>
  BY DEF PurgeRoute, pass
<1>2. /\ route' = [route EXCEPT ![r] = NoRoute]
      /\ \A p \in Policy, s \in StepRecord : s \in policy[p].steps => s.route # r
  BY DEF PurgeRoute
<1>3. TypeOK'
  BY DEF PurgeRoute, NoRoute, RouteRecord, pass, IInv, TypeOK
<1>4. StepsReferToRows'
  BY <1>1, <1>2 DEF IInv, TypeOK, StepsReferToRows, StepRecord
<1>5. QED
  BY <1>1, <1>3, <1>4, PassStays

-----------------------------------------------------------------------------
(* Jobs.                                                                     *)

LEMMA EnqueueKeeps ==
    ASSUME IInv, NEW d \in Route \X Destination, Enqueue(d)
    PROVE  IInv'
<1>1. item \in Work
  BY DEF Enqueue, IInv, PassShape
<1>2. KeyOf(d) \in Key
  BY <1>1 DEF KeyOf, Key, Work, StepRecord
<1>3. /\ Inserted(KeyOf(d)) /\ pending' = pending \ {d}
      /\ phase' \in {"enqueue", "work"} /\ item' \in {item, None}
      /\ phase' = "enqueue" => item' = item
      /\ UNCHANGED <<incident, route, policy, suppressed, edit, listed, ids, current, steps, faults>>
  BY DEF Enqueue
<1>4. job' \in [Key -> {"none", "open", "completed"}]
  BY <1>2, <1>3 DEF Inserted, IInv, TypeOK
<1>5. TypeOK'
  BY <1>1, <1>3, <1>4 DEF IInv, TypeOK, Phase
<1>6. PassShape'
  BY <1>1, <1>3 DEF PassShape
<1>7. StepsReferToRows'
  BY <1>3 DEF IInv, StepsReferToRows
<1>8. QED
  BY <1>5, <1>6, <1>7 DEF IInv

LEMMA JobKeeps ==
    ASSUME IInv, NEW k \in Key, CompleteJob(k) \/ PurgeJob(k)
    PROVE  IInv'
<1>1. TypeOK'
  BY DEF CompleteJob, PurgeJob, pass, IInv, TypeOK
<1>2. UNCHANGED <<policy, route, pass>>
  BY DEF CompleteJob, PurgeJob, pass
<1>3. StepsReferToRows'
  BY <1>2 DEF IInv, StepsReferToRows
<1>4. QED
  BY <1>1, <1>2, <1>3, PassStays

-----------------------------------------------------------------------------
(* The pass of the scheduler.                                                *)

LEMMA BeginPassKeeps ==
    ASSUME IInv, BeginPass
    PROVE  IInv'
<1>1. \A n \in 0..Horizon : Older(n) \in 0..Horizon
  BY EscalationAssumption DEF Older
<1>2. \A i \in Incident : incident'[i] \in [status: {"none", "firing", "acknowledged", "resolved"},
                                           age: 0..Horizon]
  <2>1. ASSUME NEW i \in Incident
        PROVE  [incident[i] EXCEPT !.age = Older(incident[i].age)]
                 \in [status: {"none", "firing", "acknowledged", "resolved"}, age: 0..Horizon]
    BY <1>1 DEF IInv, TypeOK
  <2>2. QED
    BY <2>1 DEF BeginPass, IInv, TypeOK
<1>3. incident' = [i \in Incident |-> incident'[i]]
  BY DEF BeginPass
<1>4. TypeOK'
  <2>1. incident' \in [Incident -> [status: {"none", "firing", "acknowledged", "resolved"},
                                    age: 0..Horizon]]
    BY <1>2, <1>3
  <2>2. listed' \subseteq Incident /\ phase' \in Phase
    BY DEF BeginPass, ToEscalate, Phase
  <2>3. QED
    BY <2>1, <2>2 DEF BeginPass, IInv, TypeOK
<1>5. UNCHANGED <<policy, route, job>> /\ phase' = "listing"
  BY DEF BeginPass
<1>6. StepsReferToRows' /\ PassShape'
  BY <1>5 DEF IInv, StepsReferToRows, PassShape
<1>7. QED
  BY <1>4, <1>6 DEF IInv

LEMMA ReadingKeeps ==
    ASSUME IInv, ListPolicies \/ PoliciesRead \/ EndPass \/ \E p \in Policy : ReadPolicy(p)
    PROVE  IInv'
<1>1. CASE ListPolicies \/ PoliciesRead
  <2>1. TypeOK' /\ UNCHANGED tables /\ PassShape'
    BY <1>1 DEF ListPolicies, PoliciesRead, tables, IInv, TypeOK, Phase, PassShape
  <2>2. QED
    BY <2>1, TablesStay
<1>2. CASE EndPass
  <2>1. TypeOK' /\ UNCHANGED tables /\ PassShape'
    BY <1>2, AbandonedPass DEF EndPass, tables, IInv, TypeOK
  <2>2. QED
    BY <2>1, TablesStay
<1>3. ASSUME NEW p \in Policy, ReadPolicy(p)
      PROVE  IInv'
  <2>1. UNCHANGED <<tables, edit, faults>>
    BY <1>3 DEF ReadPolicy
  <2>2. CASE policy[p].life # "live"
    <3>1. AbandonPass
      BY <1>3, <2>2 DEF ReadPolicy
    <3>2. TypeOK' /\ PassShape'
      BY <2>1, <3>1, AbandonedPass DEF tables, IInv, TypeOK
    <3>3. QED
      BY <2>1, <3>2, TablesStay
  <2>3. CASE policy[p].life = "live"
    <3>1. TypeOK' /\ PassShape'
      BY <1>3, <2>1, <2>3 DEF ReadPolicy, tables, IInv, TypeOK, Phase, PassShape
    <3>2. QED
      BY <2>1, <3>1, TablesStay
  <2>4. QED
    BY <2>2, <2>3
<1>4. QED
  BY <1>1, <1>2, <1>3

LEMMA ReadStepsKeeps ==
    ASSUME IInv, ReadSteps
    PROVE  IInv'
<1>1. current \in Policy /\ UNCHANGED tables
  BY DEF ReadSteps, IInv, PassShape
<1>2. policy[current].steps \subseteq StepRecord /\ listed \subseteq Incident
  BY <1>1 DEF IInv, TypeOK, PolicyRecord
<1>3. [incident: listed, policy: {current}, step: policy[current].steps] \subseteq Work
  BY <1>1, <1>2 DEF Work
<1>4. steps' \subseteq Work
  BY <1>3 DEF ReadSteps, IInv, TypeOK
<1>5. TypeOK' /\ PassShape'
  BY <1>4 DEF ReadSteps, tables, IInv, TypeOK, Phase, PassShape
<1>6. QED
  BY <1>1, <1>5, TablesStay

LEMMA WorkingKeeps ==
    ASSUME IInv, (\E w \in Work : TakeStep(w)) \/ ReadRoute \/ ReadDestinations
    PROVE  IInv'
<1>1. CASE \E w \in Work : TakeStep(w)
  <2>1. TypeOK' /\ UNCHANGED tables /\ PassShape'
    BY <1>1 DEF TakeStep, tables, IInv, TypeOK, Phase, PassShape
  <2>2. QED
    BY <2>1, TablesStay
<1>2. CASE ReadRoute
  <2>1. TypeOK' /\ UNCHANGED tables /\ PassShape'
    BY <1>2 DEF ReadRoute, tables, IInv, TypeOK, Phase, PassShape
  <2>2. QED
    BY <2>1, TablesStay
<1>3. CASE ReadDestinations
  <2>1. item \in Work /\ item.step.route \in Route
    BY <1>3 DEF ReadDestinations, IInv, PassShape, Work, StepRecord
  <2>2. pending' \subseteq Route \X Destination
    BY <1>3, <2>1 DEF ReadDestinations, IInv, TypeOK, RouteRecord
  <2>3. TypeOK' /\ UNCHANGED tables /\ PassShape'
    BY <1>3, <2>1, <2>2 DEF ReadDestinations, tables, IInv, TypeOK, Phase, PassShape
  <2>4. QED
    BY <2>3, TablesStay
<1>4. QED
  BY <1>1, <1>2, <1>3

LEMMA FaultsKeep ==
    ASSUME IInv, PassFails \/ Crash
    PROVE  IInv'
<1>1. AbandonPass /\ UNCHANGED tables /\ faults' \in 0..MaxFaults
  BY FaultType DEF PassFails, Crash, IInv
<1>2. edit' \in [Admin -> EditRecord \cup {None}]
  BY DEF PassFails, Crash, IInv, TypeOK
<1>3. TypeOK' /\ PassShape'
  BY <1>1, <1>2, AbandonedPass DEF tables, IInv, TypeOK
<1>4. QED
  BY <1>1, <1>3, TablesStay

-----------------------------------------------------------------------------

LEMMA NextIInv == IInv /\ [Next]_vars => IInv'
<1> SUFFICES ASSUME IInv, [Next]_vars
             PROVE  IInv'
  OBVIOUS
<1>1. CASE Administration
  BY <1>1, IncidentKeeps, StoreRouteKeeps, DeleteRouteKeeps, EditKeeps, StorePolicyKeeps, PolicyGoes
     DEF Administration
<1>2. CASE Scheduling
  BY <1>2, BeginPassKeeps, ReadingKeeps, ReadStepsKeeps, WorkingKeeps, EnqueueKeeps DEF Scheduling
<1>3. CASE Purging
  BY <1>3, JobKeeps, PolicyGoes, PurgeRouteKeeps DEF Purging
<1>4. ASSUME NEW k \in Key, CompleteJob(k)
      PROVE  IInv'
  BY <1>4, JobKeeps
<1>5. CASE PassFails \/ Crash
  BY <1>5, FaultsKeep
<1>6. CASE UNCHANGED vars
  <2>1. TypeOK' /\ UNCHANGED tables /\ PassShape'
    BY <1>6 DEF vars, tables, pass, IInv, TypeOK, PassShape
  <2>2. QED
    BY <2>1, TablesStay
<1>7. QED
  BY <1>1, <1>2, <1>3, <1>4, <1>5, <1>6 DEF Next

LEMMA Invariance == Spec => []IInv
BY InitIInv, NextIInv, PTL DEF Spec

\* The tables, the requests and the pass of the scheduler are well typed, for any
\* number of incidents, routes, policies and administrators.
THEOREM TypeCorrect == Spec => []TypeOK
<1>1. IInv => TypeOK
  BY DEF IInv
<1>2. QED
  BY <1>1, Invariance, PTL

\* A step of a policy never refers to a route without a row, so that the foreign
\* key never stops maintainAdvancedAlertHistory.
THEOREM RoutesKeepRows == Spec => []StepsReferToRows
<1>1. IInv => StepsReferToRows
  BY DEF IInv
<1>2. QED
  BY <1>1, Invariance, PTL
-----------------------------------------------------------------------------
(* The end of an escalation.                                                 *)

\* Nothing of the incident is left in the pass that runs.
Quiet(k) ==
    /\ job[k] = "none"
    /\ incident[k.incident].status \in {"acknowledged", "resolved"}
    /\ k.incident \notin listed
    /\ \A w \in steps : w.incident # k.incident
    /\ phase \in {"route", "destinations", "enqueue"} => item.incident # k.incident

LEMMA OverIsQuiet ==
    ASSUME IInv, NEW k \in Key, Over(k)
    PROVE  Quiet(k)
BY DEF IInv, PassShape, Over, Quiet

\* What is read later comes from the list, which the incident is not in.
LEMMA QuietStays ==
    ASSUME IInv, NEW k \in Key, Quiet(k), [Next]_vars
    PROVE  Quiet(k)'
<1> DEFINE i == k.incident
<1>0. i \in Incident /\ incident[i].status \in {"acknowledged", "resolved"}
  BY DEF Key, Quiet
<1>1. CASE Administration
  <2>1. UNCHANGED <<job, pass>>
    BY <1>1 DEF Administration, Fire, Acknowledge, Resolve, ToggleSuppression, StoreRoute,
       DeleteRoute, Validate, StorePolicy, AbandonPolicy, DeletePolicy, tables
  <2>2. incident'[i].status \in {"acknowledged", "resolved"}
    <3>1. ASSUME NEW j \in Incident,
                 Fire(j) \/ Acknowledge(j) \/ Resolve(j) \/ ToggleSuppression(j)
          PROVE  incident'[i].status \in {"acknowledged", "resolved"}
      BY <1>0, <3>1 DEF Fire, Acknowledge, Resolve, ToggleSuppression, IInv, TypeOK
    <3>2. CASE UNCHANGED incident
      BY <1>0, <3>2
    <3>3. QED
      BY <1>1, <3>1, <3>2 DEF Administration, StoreRoute, DeleteRoute, Validate, StorePolicy,
         AbandonPolicy, DeletePolicy, tables
  <2>3. QED
    BY <2>1, <2>2 DEF pass, Quiet
<1>2. CASE BeginPass
  <2>1. incident'[i].status = incident[i].status
    BY <1>0, <1>2 DEF BeginPass, IInv, TypeOK
  <2>2. i \notin listed' /\ steps' = steps /\ phase' = "listing" /\ job' = job
    BY <1>0, <1>2 DEF BeginPass, ToEscalate
  <2>3. QED
    BY <2>1, <2>2 DEF Quiet
<1>3. CASE ListPolicies \/ PoliciesRead \/ ReadRoute \/ ReadDestinations
  BY <1>3 DEF ListPolicies, PoliciesRead, ReadRoute, ReadDestinations, tables, Quiet
<1>4. CASE AbandonPass /\ UNCHANGED tables
  BY <1>4 DEF AbandonPass, tables, Quiet
<1>5. ASSUME NEW p \in Policy, ReadPolicy(p)
      PROVE  Quiet(k)'
  <2>1. CASE policy[p].life # "live"
    BY <1>4, <1>5, <2>1 DEF ReadPolicy
  <2>2. CASE policy[p].life = "live"
    BY <1>5, <2>2 DEF ReadPolicy, tables, Quiet
  <2>3. QED
    BY <2>1, <2>2
<1>6. CASE ReadSteps
  <2>1. \A w \in steps' : w \in steps \/ w.incident \in listed
    BY <1>6 DEF ReadSteps
  <2>2. QED
    BY <1>6, <2>1 DEF ReadSteps, tables, Quiet
<1>7. ASSUME NEW w \in Work, TakeStep(w)
      PROVE  Quiet(k)'
  BY <1>7 DEF TakeStep, tables, Quiet
<1>8. ASSUME NEW d \in Route \X Destination, Enqueue(d)
      PROVE  Quiet(k)'
  <2>1. item \in Work /\ item.incident # i
    BY <1>8 DEF Enqueue, IInv, PassShape, Quiet
  <2>2. KeyOf(d) # k
    BY <2>1 DEF KeyOf
  <2>3. job'[k] = job[k]
    BY <1>8, <2>2 DEF Enqueue, Inserted, IInv, TypeOK
  <2>4. QED
    BY <1>8, <2>3 DEF Enqueue, Quiet
<1>9. CASE EndPass \/ PassFails \/ Crash
  BY <1>4, <1>9 DEF EndPass, PassFails, Crash
<1>10. CASE Scheduling
  BY <1>2, <1>3, <1>5, <1>6, <1>7, <1>8, <1>9, <1>10 DEF Scheduling
<1>11. CASE Purging \/ \E j \in Key : CompleteJob(j)
  <2>1. UNCHANGED <<incident, pass>>
    BY <1>11 DEF Purging, PurgeJob, PurgePolicy, PurgeRoute, CompleteJob
  <2>2. job'[k] = job[k]
    BY <1>11 DEF Purging, PurgeJob, PurgePolicy, PurgeRoute, CompleteJob, IInv, TypeOK, Quiet
  <2>3. QED
    BY <2>1, <2>2 DEF pass, Quiet
<1>12. CASE UNCHANGED vars
  BY <1>12 DEF vars, tables, pass, Quiet
<1>13. QED
  BY <1>1, <1>9, <1>10, <1>11, <1>12 DEF Next

\* Once no pass runs and the incident is acknowledged or resolved, a destination that has
\* not been told of it never is: for any number of incidents, policies and passes, with
\* errors, crashes and retention in between.
THEOREM EscalationEnds == Spec => AcknowledgementEndsEscalation
<1> SUFFICES ASSUME NEW k \in Key
             PROVE  Spec => [](Over(k) => [](job[k] = "none"))
  BY DEF AcknowledgementEndsEscalation
<1>1. IInv /\ Over(k) => Quiet(k)
  BY OverIsQuiet
<1>2. IInv /\ Quiet(k) /\ [Next]_vars => Quiet(k)'
  BY QuietStays
<1>3. Quiet(k) => job[k] = "none"
  BY DEF Quiet
<1>4. QED
  BY <1>1, <1>2, <1>3, Invariance, PTL DEF Spec
=============================================================================
