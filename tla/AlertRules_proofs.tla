-------------------------- MODULE AlertRules_proofs --------------------------
(***************************************************************************)
(* For any rules, incidents, editors, destinations and rule contents: the  *)
(* type invariant, the agreement of the stored states with the incidents   *)
(* and the uniqueness of the active incident.  The type invariant is not   *)
(* inductive alone: an evaluation opens an incident with the expression of *)
(* its snapshot, so that snapshots, notes and edits must be known to hold  *)
(* real rows.  Nor is the agreement: a rule is purged or created with a    *)
(* fresh state, which is right only if no pass still lists it and no       *)
(* active incident was left behind.                                        *)
(*                                                                         *)
(* Then: what counts as notified was queued, a resolved notice is of a     *)
(* resolved incident, an acknowledged incident is not repeated, and a      *)
(* changed expression starts afresh.  The first two need what the note     *)
(* between the decision and its insertion says of the tables (Notes).      *)
(***************************************************************************)
EXTENDS AlertRules, TLAPS

\* Where the evaluator and the editors hold a row, it is a real one, and a
\* rule without a row has a clean state and no active incident.
References ==
    /\ \A r \in Rule : life[r] # "absent" => config[r] \in RuleInput
    /\ \A r \in Rule : life[r] = "absent" => state[r].status = "normal"
    /\ \A i \in Incident : IsActive(i) => incident[i].rule \in Rule
    /\ \A e \in Editor : editor[e] # NoEdit =>
          editor[e].rule \in Rule /\ editor[e].current \in RuleInput
    /\ \A e \in Editor : editor[e] # NoEdit => life[editor[e].rule] # "absent"
    /\ phase \in {"idle", "starting"} => listed = {}
    /\ \A r \in listed : life[r] # "absent" /\ snapshot[r] \in RuleInput
    /\ phase \in {"check", "enqueue"} =>
          note \in [event: Event, rule: Rule, incident: Incident]

\* The inductive invariant.
IInv == TypeOK /\ References /\ StateIncidentAgreement /\ OneActiveIncident

-----------------------------------------------------------------------------
(* The pure transition function. *)

LEMMA NextStateType ==
    ASSUME NEW c, NEW o, NEW s \in StateRecord
    PROVE  NextState(c, s, o) \in StateRecord
<1>1. 0 \in Age
  BY BoundAssumption DEF Age
<1>2. ConditionAge(s) \in Age
  BY <1>1 DEF ConditionAge, StateRecord
<1>3. QED
  BY <1>1, <1>2 DEF NextState, StateRecord, Status

\* What an evaluation does to the status, by the event it reports.
LEMMA NextStateStatus ==
    ASSUME NEW c, NEW o, NEW s \in StateRecord
    PROVE  /\ NotifyEvent(c, s, o) \in Event \cup {"none"}
           /\ NotifyEvent(c, s, o) = "firing" =>
                 s.status \in {"normal", "pending"} /\ NextState(c, s, o).status = "firing"
           /\ NotifyEvent(c, s, o) = "resolved" =>
                 s.status \in ActiveStatus /\ NextState(c, s, o).status = "normal"
           /\ NotifyEvent(c, s, o) = "repeat" =>
                 s.status = "firing" /\ NextState(c, s, o).status = "firing"
           /\ NotifyEvent(c, s, o) = "none" =>
                 \/ NextState(c, s, o).status = s.status
                 \/ /\ s.status \in {"normal", "pending"}
                    /\ NextState(c, s, o).status \in {"normal", "pending"}
<1>1. s.status \in Status /\ s = [status |-> s.status, since |-> s.since, notified |-> s.notified]
  BY DEF StateRecord
<1>2. CASE Recovers(c, o)
  <2>1. ~Breaches(c, o)
    BY <1>2 DEF Recovers, Breaches
  <2>2. ~Fires(c, s, o) /\ ~Repeats(c, s, o) /\ ~Waits(c, s, o)
    BY <2>1 DEF Fires, Repeats, Waits
  <2>3. NextState(c, s, o).status = "normal"
    BY <1>1, <1>2, <2>2 DEF NextState
  <2>4. NotifyEvent(c, s, o) = IF s.status \in ActiveStatus THEN "resolved" ELSE "none"
    BY <1>2, <2>2 DEF NotifyEvent
  <2>5. QED
    BY <1>1, <2>3, <2>4 DEF Status, Event, ActiveStatus
<1>3. CASE ~Recovers(c, o) /\ Fires(c, s, o)
  <2>1. s.status \in {"normal", "pending"} /\ ~Waits(c, s, o) /\ ~Repeats(c, s, o)
    BY <1>3 DEF Fires, Waits, Repeats
  <2>2. NextState(c, s, o).status = "firing"
    BY <1>3, <2>1 DEF NextState
  <2>3. NotifyEvent(c, s, o) = "firing"
    BY <1>3, <2>1 DEF NotifyEvent
  <2>4. QED
    BY <2>1, <2>2, <2>3 DEF Event
<1>4. CASE ~Recovers(c, o) /\ ~Fires(c, s, o) /\ Repeats(c, s, o)
  <2>1. s.status = "firing"
    BY <1>4 DEF Repeats
  <2>2. ~Waits(c, s, o)
    BY <2>1 DEF Waits
  <2>3. NextState(c, s, o).status = "firing"
    BY <1>1, <1>4, <2>1, <2>2 DEF NextState
  <2>4. NotifyEvent(c, s, o) = "repeat"
    BY <1>4 DEF NotifyEvent
  <2>5. QED
    BY <2>1, <2>3, <2>4 DEF Event
<1>5. CASE ~Recovers(c, o) /\ ~Fires(c, s, o) /\ ~Repeats(c, s, o)
  <2>1. NotifyEvent(c, s, o) = "none"
    BY <1>5 DEF NotifyEvent
  <2>2. CASE Waits(c, s, o)
    <3>1. NextState(c, s, o).status = "pending"
      BY <1>1, <1>5, <2>2 DEF NextState
    <3>2. s.status \in {"normal", "pending"}
      BY <2>2 DEF Waits
    <3>3. QED
      BY <2>1, <3>1, <3>2 DEF Event
  <2>3. CASE ~Waits(c, s, o)
    <3>1. NextState(c, s, o) = s
      BY <1>5, <2>3 DEF NextState
    <3>2. QED
      BY <2>1, <3>1 DEF Event
  <2>4. QED
    BY <2>2, <2>3
<1>6. QED
  BY <1>2, <1>3, <1>4, <1>5

-----------------------------------------------------------------------------

LEMMA InitIInv == Init => IInv
<1> SUFFICES ASSUME Init PROVE IInv
  OBVIOUS
<1>1. TypeOK
  BY BoundAssumption DEF Init, TypeOK, StateRecord, IncidentRecord, NoteRecord, NormalState, Unused,
        NoEdit, NoNote, Status, Phase, Event
<1>2. References
  BY DEF Init, References, NormalState, Unused, IsActive
<1>3. StateIncidentAgreement /\ OneActiveIncident
  BY DEF Init, StateIncidentAgreement, OneActiveIncident, NormalState, Unused, IsActive
<1>4. QED
  BY <1>1, <1>2, <1>3 DEF IInv

\* Resolving every active incident of a rule and setting its state to normal,
\* as an update of the expression and a deletion do, keeps the tables agreed.
LEMMA ResolveAllOfRule ==
    ASSUME TypeOK, References, StateIncidentAgreement, OneActiveIncident,
           NEW r \in Rule,
           incident' = Resolved(ActiveOf(r)),
           state' = [state EXCEPT ![r].status = "normal", ![r].since = None]
    PROVE  /\ incident' \in [Incident -> IncidentRecord]
           /\ state' \in [Rule -> StateRecord]
           /\ \A q \in Rule : q # r => state'[q] = state[q]
           /\ state'[r].status = "normal"
           /\ \A i \in Incident : IsActive(i)' => incident'[i] = incident[i] /\ IsActive(i)
           /\ StateIncidentAgreement'
           /\ OneActiveIncident'
<1>1. incident' \in [Incident -> IncidentRecord]
  <2>1. ASSUME NEW i \in Incident
        PROVE  [incident[i] EXCEPT !.status = "resolved"] \in IncidentRecord
    BY DEF TypeOK, IncidentRecord
  <2>2. QED
    BY <2>1 DEF TypeOK, Resolved
<1>2. /\ state' \in [Rule -> StateRecord]
      /\ \A q \in Rule : q # r => state'[q] = state[q]
      /\ state'[r].status = "normal"
  <2>1. state[r] \in StateRecord
    BY DEF TypeOK
  <2>2. [state[r] EXCEPT !.status = "normal", !.since = None] \in StateRecord
    BY <2>1 DEF StateRecord, Status
  <2>3. state' = [state EXCEPT ![r] = [state[r] EXCEPT !.status = "normal", !.since = None]]
    BY DEF TypeOK, StateRecord
  <2>4. QED
    BY <2>1, <2>2, <2>3 DEF TypeOK, StateRecord
<1>3. \A i \in Incident :
         IF i \in ActiveOf(r) THEN incident'[i].status = "resolved"
                              ELSE incident'[i] = incident[i]
  BY DEF TypeOK, IncidentRecord, Resolved
<1>4. \A i \in Incident : IsActive(i)' => incident'[i] = incident[i] /\ IsActive(i) /\ incident[i].rule # r
  BY <1>3 DEF IsActive, ActiveOf, ActiveStatus
<1>5. StateIncidentAgreement'
  <2>1. SUFFICES ASSUME NEW q \in Rule
        PROVE  /\ state'[q].status \in {"firing", "acknowledged"} =>
                     \E i \in Incident : incident'[i].rule = q /\ incident'[i].status = state'[q].status
               /\ \A i \in Incident : incident'[i].rule = q /\ IsActive(i)' =>
                     incident'[i].status = state'[q].status
    BY DEF StateIncidentAgreement
  <2>2. CASE q = r
    BY <1>2, <1>4, <2>2
  <2>3. CASE q # r
    <3>1. state'[q] = state[q]
      BY <1>2, <2>3
    <3>2. \A i \in Incident : incident[i].rule = q => incident'[i] = incident[i]
      BY <1>3, <2>3 DEF ActiveOf
    <3>3. ASSUME state'[q].status \in {"firing", "acknowledged"}
          PROVE  \E i \in Incident : incident'[i].rule = q /\ incident'[i].status = state'[q].status
      <4>1. PICK i \in Incident : incident[i].rule = q /\ incident[i].status = state[q].status
        BY <3>1, <3>3 DEF StateIncidentAgreement
      <4>2. incident'[i].rule = q /\ incident'[i].status = state'[q].status
        BY <3>1, <3>2, <4>1
      <4>3. QED
        BY <4>2
    <3>4. ASSUME NEW i \in Incident, incident'[i].rule = q, IsActive(i)'
          PROVE  incident'[i].status = state'[q].status
      <4>1. incident'[i] = incident[i] /\ IsActive(i)
        BY <1>4, <3>4
      <4>2. incident[i].status = state[q].status
        BY <3>4, <4>1 DEF StateIncidentAgreement
      <4>3. QED
        BY <3>1, <4>1, <4>2
    <3>5. QED
      BY <3>3, <3>4
  <2>4. QED
    BY <2>2, <2>3
<1>6. OneActiveIncident'
  BY <1>4 DEF OneActiveIncident
<1>7. QED
  BY <1>1, <1>2, <1>4, <1>5, <1>6

LEMMA CreateRuleStep ==
    ASSUME IInv, NEW r \in Rule, NEW c \in RuleInput, CreateRule(r, c)
    PROVE  IInv'
<1> USE DEF CreateRule, IInv, adminVars, passVars
<1>1. TypeOK'
  BY DEF TypeOK, StateRecord, NormalState, Status
<1>2. References'
  BY DEF References, TypeOK, IsActive, NormalState
<1>3. \A q \in Rule : state'[q].status = state[q].status
  BY DEF TypeOK, References, NormalState
<1>4. StateIncidentAgreement'
  BY <1>3 DEF StateIncidentAgreement, IsActive
<1>5. OneActiveIncident'
  BY DEF OneActiveIncident, IsActive
<1>6. QED
  BY <1>1, <1>2, <1>4, <1>5

LEMMA EditorStep ==
    ASSUME IInv, NEW e \in Editor,
           (\E r \in Rule : ReadForUpdate(e, r)) \/ AbandonUpdate(e)
    PROVE  IInv'
<1> USE DEF ReadForUpdate, AbandonUpdate, IInv, adminVars, passVars, tableVars
<1>1. TypeOK'
  BY DEF TypeOK, NoEdit
<1>2. References'
  BY DEF References, TypeOK, IsActive, NoEdit
<1>3. StateIncidentAgreement' /\ OneActiveIncident'
  BY DEF StateIncidentAgreement, OneActiveIncident, IsActive
<1>4. QED
  BY <1>1, <1>2, <1>3

LEMMA CommitUpdateStep ==
    ASSUME IInv, NEW e \in Editor, NEW c \in RuleInput, CommitUpdate(e, c)
    PROVE  IInv'
<1> DEFINE r == editor[e].rule
           changed == ExpressionChanged(editor[e].current, c)
<1>1. /\ r \in Rule /\ life[r] # "absent"
      /\ config' = [config EXCEPT ![r] = c]
      /\ editor' = [editor EXCEPT ![e] = NoEdit]
      /\ UNCHANGED <<life, jobs, obs, suppressed, routes, phase, listed, snapshot, note, pending,
                     faults, lost>>
  BY DEF CommitUpdate, IInv, References, adminVars, passVars
<1>2. /\ incident' \in [Incident -> IncidentRecord]
      /\ state' \in [Rule -> StateRecord]
      /\ \A q \in Rule : state'[q] # state[q] => state'[q].status = "normal"
      /\ \A i \in Incident : IsActive(i)' => incident'[i] = incident[i] /\ IsActive(i)
      /\ StateIncidentAgreement'
      /\ OneActiveIncident'
  <2>1. CASE changed
    <3>1. /\ incident' = Resolved(ActiveOf(r))
          /\ state' = [state EXCEPT ![r].status = "normal", ![r].since = None]
      BY <2>1 DEF CommitUpdate
    <3>2. QED
      BY <1>1, <3>1, ResolveAllOfRule DEF IInv
  <2>2. CASE ~changed
    <3>1. UNCHANGED <<incident, state>>
      BY <2>2 DEF CommitUpdate
    <3>2. QED
      BY <3>1 DEF IInv, TypeOK, StateIncidentAgreement, OneActiveIncident, IsActive
  <2>3. QED
    BY <2>1, <2>2
<1>3. TypeOK'
  BY <1>1, <1>2 DEF IInv, TypeOK, NoEdit
<1>4. References'
  <2>1. \A q \in Rule : state[q].status = "normal" => state'[q].status = "normal"
    BY <1>2
  <2>2. \A i \in Incident : IsActive(i)' => incident'[i].rule \in Rule
    BY <1>2 DEF IInv, References
  <2>3. QED
    BY <1>1, <2>1, <2>2 DEF IInv, References, TypeOK, NoEdit
<1>5. QED
  BY <1>2, <1>3, <1>4 DEF IInv

LEMMA DeleteRuleStep ==
    ASSUME IInv, NEW r \in Rule, DeleteRule(r)
    PROVE  IInv'
<1>1. /\ life[r] = "live"
      /\ life' = [life EXCEPT ![r] = "deleted"]
      /\ UNCHANGED <<config, jobs, obs, suppressed, routes, editor, phase, listed, snapshot, note,
                     pending, faults, lost>>
  BY DEF DeleteRule, adminVars, passVars
<1>2. /\ incident' \in [Incident -> IncidentRecord]
      /\ state' \in [Rule -> StateRecord]
      /\ \A q \in Rule : q # r => state'[q] = state[q]
      /\ state'[r].status = "normal"
      /\ \A i \in Incident : IsActive(i)' => incident'[i] = incident[i] /\ IsActive(i)
      /\ StateIncidentAgreement'
      /\ OneActiveIncident'
  BY ResolveAllOfRule DEF DeleteRule, IInv
<1>3. TypeOK'
  BY <1>1, <1>2 DEF IInv, TypeOK
<1>4. References'
  <2>1. \A q \in Rule : life'[q] = "absent" => life[q] = "absent" /\ q # r
    BY <1>1 DEF IInv, TypeOK
  <2>2. \A q \in Rule : life[q] = "absent" => life'[q] = "absent"
    BY <1>1 DEF IInv, TypeOK
  <2>3. \A i \in Incident : IsActive(i)' => incident'[i].rule \in Rule
    BY <1>2 DEF IInv, References
  <2>4. QED
    BY <1>1, <1>2, <2>1, <2>2, <2>3 DEF IInv, References, TypeOK, NoEdit
<1>5. QED
  BY <1>2, <1>3, <1>4 DEF IInv

LEMMA AcknowledgeStep ==
    ASSUME IInv, NEW i \in Incident, Acknowledge(i)
    PROVE  IInv'
<1> DEFINE r == incident[i].rule
<1>1. /\ IsActive(i) /\ r \in Rule /\ state[r].status = incident[i].status
      /\ incident' = [incident EXCEPT ![i].status = "acknowledged"]
      /\ state' = [state EXCEPT ![r].status = "acknowledged"]
      /\ UNCHANGED <<life, config, jobs, obs, suppressed, routes, editor, phase, listed, snapshot,
                     note, pending, faults, lost>>
  BY DEF Acknowledge, IInv, References, StateIncidentAgreement, IsActive, ActiveStatus, adminVars,
         passVars
<1>2. /\ incident[i] \in IncidentRecord /\ state[r] \in StateRecord
      /\ incident'[i] = [incident[i] EXCEPT !.status = "acknowledged"]
      /\ state'[r] = [state[r] EXCEPT !.status = "acknowledged"]
      /\ \A j \in Incident : j # i => incident'[j] = incident[j]
      /\ \A q \in Rule : q # r => state'[q] = state[q]
  BY <1>1 DEF IInv, TypeOK
<1>3. /\ incident'[i] \in IncidentRecord /\ incident'[i].status = "acknowledged"
      /\ incident'[i].rule = r
      /\ state'[r] \in StateRecord /\ state'[r].status = "acknowledged"
  BY <1>2 DEF IncidentRecord, StateRecord, Status
<1>4. TypeOK'
  BY <1>1, <1>2, <1>3 DEF IInv, TypeOK
<1>5. \A j \in Incident : IsActive(j)' <=> IsActive(j)
  BY <1>1, <1>2, <1>3 DEF IsActive
<1>6. \A j \in Incident : incident'[j].rule = incident[j].rule
  BY <1>2, <1>3
<1>7. OneActiveIncident'
  BY <1>5, <1>6 DEF IInv, OneActiveIncident
<1>8. References'
  <2>1. life[r] # "absent"
    BY <1>1 DEF IInv, References, IsActive
  <2>2. \A q \in Rule : life'[q] = "absent" => state'[q].status = "normal"
    BY <1>1, <1>2, <2>1 DEF IInv, References
  <2>3. \A j \in Incident : IsActive(j)' => incident'[j].rule \in Rule
    BY <1>5, <1>6 DEF IInv, References
  <2>4. QED
    BY <1>1, <2>2, <2>3 DEF IInv, References
<1>9. StateIncidentAgreement'
  <2>1. ASSUME NEW q \in Rule, state'[q].status \in {"firing", "acknowledged"}
        PROVE  \E j \in Incident : incident'[j].rule = q /\ incident'[j].status = state'[q].status
    <3>1. CASE q = r
      BY <1>3, <3>1
    <3>2. CASE q # r
      <4>1. PICK j \in Incident : incident[j].rule = q /\ incident[j].status = state[q].status
        BY <1>2, <2>1, <3>2 DEF IInv, StateIncidentAgreement
      <4>2. j # i
        BY <3>2, <4>1
      <4>3. QED
        BY <1>2, <3>2, <4>1, <4>2
    <3>3. QED
      BY <3>1, <3>2
  <2>2. ASSUME NEW q \in Rule, NEW j \in Incident, incident'[j].rule = q, IsActive(j)'
        PROVE  incident'[j].status = state'[q].status
    <3>1. CASE j = i
      BY <1>3, <2>2, <3>1
    <3>2. CASE j # i
      <4>1. IsActive(j) /\ incident[j].rule = q /\ incident'[j] = incident[j]
        BY <1>2, <1>5, <2>2, <3>2
      <4>2. q # r
        BY <1>1, <3>2, <4>1 DEF IInv, OneActiveIncident
      <4>3. QED
        BY <1>2, <4>1, <4>2 DEF IInv, StateIncidentAgreement
    <3>3. QED
      BY <3>1, <3>2
  <2>3. QED
    BY <2>1, <2>2 DEF StateIncidentAgreement
<1>10. QED
  BY <1>4, <1>7, <1>8, <1>9 DEF IInv

LEMMA ToggleStep ==
    ASSUME IInv,
           \/ \E r \in Rule : ToggleSuppression(r)
           \/ \E d \in Destination : ToggleRoute(d)
           \/ \E x \in Expr, v \in {"breached", "clear", "missing"} : Observe(x, v)
    PROVE  IInv'
<1> USE DEF ToggleSuppression, ToggleRoute, Observe, IInv, passVars, tableVars
<1>1. TypeOK'
  BY DEF TypeOK
<1>2. References'
  BY DEF References, IsActive
<1>3. StateIncidentAgreement' /\ OneActiveIncident'
  BY DEF StateIncidentAgreement, OneActiveIncident, IsActive
<1>4. QED
  BY <1>1, <1>2, <1>3

-----------------------------------------------------------------------------

\* A step that leaves the incidents and every status alone keeps the tables
\* agreed.
LEMMA StatusesUntouched ==
    ASSUME IInv, incident' = incident,
           \A q \in Rule : state'[q].status = state[q].status
    PROVE  StateIncidentAgreement' /\ OneActiveIncident'
BY DEF IInv, StateIncidentAgreement, OneActiveIncident, IsActive

LEMMA AgedType ==
    ASSUME NEW s \in StateRecord
    PROVE  Aged(s) \in StateRecord /\ Aged(s).status = s.status
<1>1. ASSUME NEW a \in Age \cup {None}
      PROVE  Older(a) \in Age \cup {None}
  BY BoundAssumption DEF Older, Age
<1>2. QED
  BY <1>1 DEF Aged, StateRecord

LEMMA BeginPassStep ==
    ASSUME IInv, BeginPass
    PROVE  IInv'
<1>1. state' \in [Rule -> StateRecord] /\ \A q \in Rule : state'[q].status = state[q].status
  BY AgedType DEF BeginPass, IInv, TypeOK
<1>2. TypeOK'
  BY <1>1 DEF BeginPass, IInv, TypeOK, References, adminVars, Phase
<1>3. References'
  BY <1>1 DEF BeginPass, IInv, TypeOK, References, adminVars, IsActive
<1>4. StateIncidentAgreement' /\ OneActiveIncident'
  BY <1>1, StatusesUntouched DEF BeginPass
<1>5. QED
  BY <1>2, <1>3, <1>4 DEF IInv

LEMMA EndPassStep ==
    ASSUME IInv, EndPass
    PROVE  IInv'
<1> USE DEF EndPass, IInv, adminVars, tableVars
<1>1. TypeOK'
  BY DEF TypeOK, Phase
<1>2. References'
  BY DEF References, IsActive
<1>3. QED
  BY <1>1, <1>2, StatusesUntouched

LEMMA DeferredType ==
    ASSUME TypeOK, NEW n, state' = Deferred(n)
    PROVE  state' \in [Rule -> StateRecord] /\ \A q \in Rule : state'[q].status = state[q].status
<1>1. CASE state' = state
  BY <1>1 DEF TypeOK
<1>2. CASE state' = [state EXCEPT ![n.rule].notified = None]
  <2>1. \A q \in Rule : [state[q] EXCEPT !.notified = None] \in StateRecord
    BY DEF TypeOK, StateRecord
  <2>2. \A q \in Rule : state'[q] \in {state[q], [state[q] EXCEPT !.notified = None]}
    BY <1>2 DEF TypeOK
  <2>3. \A q \in Rule : state'[q] \in StateRecord /\ state'[q].status = state[q].status
    BY <2>1, <2>2 DEF TypeOK, StateRecord
  <2>4. state' \in [Rule -> StateRecord]
    BY <1>2, <2>3 DEF TypeOK
  <2>5. QED
    BY <2>3, <2>4
<1>3. QED
  BY <1>1, <1>2 DEF Deferred

LEMMA DispatchStep ==
    ASSUME IInv, DispatchWithheld \/ DispatchStarts \/ \E t \in Target : Enqueue(t)
    PROVE  IInv'
<1>1. state' \in [Rule -> StateRecord] /\ \A q \in Rule : state'[q].status = state[q].status
  BY DeferredType DEF DispatchWithheld, DispatchStarts, Enqueue, tableVars, IInv, TypeOK
<1>2. /\ phase \in {"check", "enqueue"} /\ phase' \in {"rules", "enqueue"}
      /\ phase' = "enqueue" => note' = note
      /\ note' \in {note, NoNote}
      /\ UNCHANGED <<life, config, incident, obs, suppressed, routes, editor, listed, snapshot,
                     faults, lost>>
  BY DEF DispatchWithheld, DispatchStarts, Enqueue, tableVars, adminVars
<1>3. jobs' \subseteq [incident: Incident, event: Event, target: Target]
  <2>1. CASE UNCHANGED jobs
    BY <2>1 DEF IInv, TypeOK
  <2>2. CASE \E t \in Target : Enqueue(t)
    <3>1. PICK t \in Target :
             jobs' = jobs \cup {[incident |-> note.incident, event |-> note.event, target |-> t]}
      BY <2>2 DEF Enqueue
    <3>2. note.incident \in Incident /\ note.event \in Event
      BY <1>2 DEF IInv, References
    <3>3. QED
      BY <3>1, <3>2 DEF IInv, TypeOK
  <2>3. QED
    BY <2>1, <2>2 DEF DispatchWithheld, DispatchStarts, tableVars
<1>4. pending' \subseteq Target
  BY DEF DispatchWithheld, DispatchStarts, Enqueue, Targets, Target, IInv, TypeOK
<1>5. TypeOK'
  BY <1>1, <1>2, <1>3, <1>4 DEF IInv, TypeOK, Phase, NoteRecord, NoNote
<1>6. References'
  BY <1>1, <1>2 DEF IInv, References, IsActive
<1>7. QED
  BY <1>1, <1>2, <1>5, <1>6, StatusesUntouched DEF IInv

-----------------------------------------------------------------------------

\* The step that evaluates one rule, by the event it reports.
LEMMA EvaluateRuleStep ==
    ASSUME IInv, NEW r \in Rule, EvaluateRule(r)
    PROVE  IInv'
<1> DEFINE c  == snapshot[r]
           o  == obs[c.expr]
           ev == NotifyEvent(c, state[r], o)
<1>1. /\ phase = "rules" /\ r \in listed /\ life[r] # "absent"
      /\ c \in RuleInput /\ c.expr \in Expr
      /\ state[r] \in StateRecord
      /\ state' = [state EXCEPT ![r] = NextState(c, state[r], o)]
      /\ listed' = listed \ {r}
      /\ UNCHANGED <<life, config, jobs, obs, suppressed, routes, editor, snapshot, pending, faults,
                     lost>>
  BY DEF EvaluateRule, NextListed, IInv, TypeOK, References, adminVars, Expr
<1>2. /\ state'[r] = NextState(c, state[r], o)
      /\ \A q \in Rule : q # r => state'[q] = state[q]
  BY <1>1 DEF IInv, TypeOK
<1>3. state' \in [Rule -> StateRecord]
  BY <1>1, NextStateType DEF IInv, TypeOK
<1>4. \/ phase' = "rules" /\ note' = note
      \/ /\ phase' = "check"
         /\ note' \in [event: Event, rule: Rule, incident: Incident]
  <2>1. ActiveOf(r) \subseteq Incident
    BY DEF ActiveOf
  <2>2. (\E e \in Event, i \in Incident : Notify(e, r, i)) \/ NoNotification
    BY <2>1, Zenon DEF EvaluateRule, Event
  <2>3. QED
    BY <1>1, <2>2 DEF Notify, NoNotification
<1>5. ASSUME incident' \in [Incident -> IncidentRecord],
             \A i \in Incident : IsActive(i)' => incident'[i].rule \in Rule,
             StateIncidentAgreement', OneActiveIncident'
      PROVE  IInv'
  <2>1. TypeOK'
    BY <1>1, <1>3, <1>4, <1>5 DEF IInv, TypeOK, Phase, NoteRecord
  <2>2. References'
    <3>1. \A q \in Rule : life'[q] = "absent" => state'[q].status = "normal"
      BY <1>1, <1>2 DEF IInv, References
    <3>2. QED
      BY <1>1, <1>4, <1>5, <3>1 DEF IInv, References
  <2>3. QED
    BY <1>5, <2>1, <2>2 DEF IInv
<1>6. CASE /\ ev = "firing" /\ ActiveOf(r) = {}
           /\ \E i \in Incident :
                 /\ incident[i] = Unused
                 /\ incident' = [incident EXCEPT ![i] =
                       [status |-> "firing", rule |-> r, expr |-> c.expr]]
  <2>1. PICK i \in Incident :
                 /\ incident[i] = Unused
                 /\ incident' = [incident EXCEPT ![i] =
                       [status |-> "firing", rule |-> r, expr |-> c.expr]]
    BY <1>6
  <2>2. /\ incident'[i] = [status |-> "firing", rule |-> r, expr |-> c.expr]
        /\ \A j \in Incident : j # i => incident'[j] = incident[j]
        /\ ~IsActive(i)
    BY <2>1 DEF IInv, TypeOK, IsActive, Unused
  <2>3. incident' \in [Incident -> IncidentRecord]
    BY <1>1, <2>1 DEF IInv, TypeOK, IncidentRecord
  <2>4. state'[r].status = "firing"
    BY <1>1, <1>2, <1>6, NextStateStatus
  <2>5. \A j \in Incident : j # i =>
           (IsActive(j)' <=> IsActive(j)) /\ (IsActive(j) => incident[j].rule # r)
    BY <1>6, <2>2 DEF IsActive, ActiveOf, ActiveStatus
  <2>6. OneActiveIncident'
    BY <2>2, <2>5 DEF IInv, OneActiveIncident
  <2>7. ASSUME NEW q \in Rule, state'[q].status \in {"firing", "acknowledged"}
        PROVE  \E j \in Incident : incident'[j].rule = q /\ incident'[j].status = state'[q].status
    <3>1. CASE q = r
      BY <2>2, <2>4, <3>1
    <3>2. CASE q # r
      <4>1. PICK j \in Incident : incident[j].rule = q /\ incident[j].status = state[q].status
        BY <1>2, <2>7, <3>2 DEF IInv, StateIncidentAgreement
      <4>2. j # i
        BY <1>2, <2>2, <2>7, <3>2, <4>1 DEF IsActive
      <4>3. QED
        BY <1>2, <2>2, <3>2, <4>1, <4>2
    <3>3. QED
      BY <3>1, <3>2
  <2>8. ASSUME NEW q \in Rule, NEW j \in Incident, incident'[j].rule = q, IsActive(j)'
        PROVE  incident'[j].status = state'[q].status
    <3>1. CASE j = i
      BY <2>2, <2>4, <2>8, <3>1
    <3>2. CASE j # i
      BY <1>2, <2>2, <2>5, <2>8, <3>2 DEF IInv, StateIncidentAgreement
    <3>3. QED
      BY <3>1, <3>2
  <2>9. StateIncidentAgreement'
    BY <2>7, <2>8 DEF StateIncidentAgreement
  <2>10. \A j \in Incident : IsActive(j)' => incident'[j].rule \in Rule
    BY <2>2, <2>5 DEF IInv, References
  <2>11. QED
    BY <1>5, <2>3, <2>6, <2>9, <2>10
<1>7. CASE ev = "resolved" /\ \E i \in ActiveOf(r) : incident' = Resolved({i})
  <2>1. PICK i \in ActiveOf(r) : incident' = Resolved({i})
    BY <1>7
  <2>2. /\ i \in Incident /\ IsActive(i) /\ incident[i].rule = r
        /\ incident'[i].status = "resolved"
        /\ \A j \in Incident : j # i => incident'[j] = incident[j]
    BY <2>1 DEF ActiveOf, ActiveStatus, IsActive, Resolved, IInv, TypeOK, IncidentRecord
  <2>3. incident' \in [Incident -> IncidentRecord]
    <3>1. [incident[i] EXCEPT !.status = "resolved"] \in IncidentRecord
      BY <2>2 DEF IInv, TypeOK, IncidentRecord
    <3>2. QED
      BY <2>1, <3>1 DEF IInv, TypeOK, Resolved
  <2>4. state'[r].status = "normal"
    BY <1>1, <1>2, <1>7, NextStateStatus
  <2>5. \A j \in Incident : IsActive(j)' =>
           j # i /\ IsActive(j) /\ incident'[j] = incident[j] /\ incident[j].rule # r
    BY <2>2 DEF IsActive, IInv, OneActiveIncident
  <2>6. OneActiveIncident'
    BY <2>5 DEF IInv, OneActiveIncident
  <2>7. ASSUME NEW q \in Rule, state'[q].status \in {"firing", "acknowledged"}
        PROVE  \E j \in Incident : incident'[j].rule = q /\ incident'[j].status = state'[q].status
    <3>1. q # r
      BY <2>4, <2>7
    <3>2. PICK j \in Incident : incident[j].rule = q /\ incident[j].status = state[q].status
      BY <1>2, <2>7, <3>1 DEF IInv, StateIncidentAgreement
    <3>3. QED
      BY <1>2, <2>2, <3>1, <3>2
  <2>8. ASSUME NEW q \in Rule, NEW j \in Incident, incident'[j].rule = q, IsActive(j)'
        PROVE  incident'[j].status = state'[q].status
    BY <1>2, <2>5, <2>8 DEF IInv, StateIncidentAgreement
  <2>9. StateIncidentAgreement'
    BY <2>7, <2>8 DEF StateIncidentAgreement
  <2>10. \A j \in Incident : IsActive(j)' => incident'[j].rule \in Rule
    BY <2>5 DEF IInv, References
  <2>11. QED
    BY <1>5, <2>3, <2>6, <2>9, <2>10
<1>8. CASE /\ UNCHANGED incident
           /\ \/ ev = "none"
              \/ ActiveOf(r) # {} /\ ev \in {"firing", "repeat"}
              \/ ActiveOf(r) = {} /\ ev \in {"resolved", "repeat"}
  <2>1. state[r].status \in {"firing", "acknowledged"} <=> ActiveOf(r) # {}
    <3>1. state[r].status \in {"firing", "acknowledged"} => ActiveOf(r) # {}
      BY DEF IInv, StateIncidentAgreement, ActiveOf, ActiveStatus
    <3>2. ActiveOf(r) # {} => state[r].status \in {"firing", "acknowledged"}
      BY DEF IInv, StateIncidentAgreement, ActiveOf, ActiveStatus, IsActive
    <3>3. QED
      BY <3>1, <3>2
  <2>2. \/ state'[r].status = state[r].status
        \/ /\ state[r].status \in {"normal", "pending"}
           /\ state'[r].status \in {"normal", "pending"}
    BY <1>1, <1>2, <1>8, <2>1, NextStateStatus DEF ActiveStatus
  <2>3. StateIncidentAgreement'
    BY <1>2, <1>8, <2>1, <2>2 DEF IInv, StateIncidentAgreement, IsActive
  <2>4. QED
    BY <1>5, <1>8, <2>3 DEF IInv, TypeOK, References, OneActiveIncident, IsActive
<1>9. \/ /\ ev = "firing" /\ ActiveOf(r) = {}
         /\ \E i \in Incident :
               /\ incident[i] = Unused
               /\ incident' = [incident EXCEPT ![i] =
                     [status |-> "firing", rule |-> r, expr |-> c.expr]]
      \/ ev = "resolved" /\ \E i \in ActiveOf(r) : incident' = Resolved({i})
      \/ ev \in {"firing", "repeat"} /\ (\E i \in ActiveOf(r) : TRUE) /\ UNCHANGED incident
      \/ (ev = "none" \/ (ev \in {"resolved", "repeat"} /\ ActiveOf(r) = {})) /\ UNCHANGED incident
  BY Zenon DEF EvaluateRule
<1>10. (\E i \in ActiveOf(r) : TRUE) => ActiveOf(r) # {}
  OBVIOUS
<1>11. QED
  <2> HIDE DEF c, o, ev
  <2>1. QED
    BY <1>6, <1>7, <1>8, <1>9, <1>10, Zenon

-----------------------------------------------------------------------------

\* Errors and crashes leave the tables agreed and drop what the pass held.
LEMMA FailureStep ==
    ASSUME IInv, EnqueueFails \/ PassFails \/ Crash
    PROVE  IInv'
<1>1. /\ state' \in [Rule -> StateRecord]
      /\ \A q \in Rule : state'[q].status = state[q].status
  BY DeferredType DEF EnqueueFails, PassFails, Crash, tableVars, IInv, TypeOK
<1>2. /\ phase' \in {"idle", "starting"} /\ listed' = {} /\ pending' = {} /\ note' = NoNote
      /\ snapshot' = [r \in Rule |-> None]
      /\ editor' \in {editor, [e \in Editor |-> NoEdit]}
      /\ faults > 0 /\ faults' = faults - 1
      /\ lost' \subseteq lost \cup Incident
      /\ UNCHANGED <<life, config, incident, jobs, obs, suppressed, routes>>
  BY DEF EnqueueFails, PassFails, Crash, AbandonPass, Fault, tableVars, adminVars
<1>3. editor' \in [Editor -> [rule: Rule \cup {None}, current: RuleInput \cup {None}]]
  BY <1>2 DEF IInv, TypeOK, NoEdit
<1>4. faults' \in 0..MaxFaults
  BY <1>2, BoundAssumption DEF IInv, TypeOK
<1>5. TypeOK'
  BY <1>1, <1>2, <1>3, <1>4 DEF IInv, TypeOK, Phase, NoteRecord, NoNote
<1>6. References'
  BY <1>1, <1>2 DEF IInv, TypeOK, References, IsActive
<1>7. QED
  BY <1>1, <1>2, <1>5, <1>6, StatusesUntouched DEF IInv

LEMMA PurgeIncidentStep ==
    ASSUME IInv, NEW i \in Incident, PurgeIncident(i)
    PROVE  IInv'
<1>1. /\ ~IsActive(i)
      /\ incident' = [j \in Incident |-> IF j \in {i} THEN Unused ELSE incident[j]]
      /\ jobs' = {j \in jobs : j.incident \notin {i}}
      /\ lost' = lost \ {i}
      /\ UNCHANGED <<life, config, state, obs, suppressed, routes, editor, phase, listed,
                     snapshot, note, pending, faults>>
  BY DEF PurgeIncident, Retired, IsActive, adminVars, passVars
<1>2. Unused \in IncidentRecord /\ Unused.status = "unused"
  BY DEF Unused, IncidentRecord
<1>3. \A j \in Incident : IsActive(j)' => IsActive(j) /\ incident'[j] = incident[j]
  BY <1>1, <1>2 DEF IsActive
<1>4. \A j \in Incident : IsActive(j) => incident'[j] = incident[j]
  BY <1>1 DEF IsActive
<1>5. TypeOK'
  BY <1>1, <1>2 DEF IInv, TypeOK
<1>6. References'
  BY <1>1, <1>3 DEF IInv, References
<1>7. OneActiveIncident'
  BY <1>3 DEF IInv, OneActiveIncident
<1>8. StateIncidentAgreement'
  BY <1>1, <1>3, <1>4 DEF IInv, StateIncidentAgreement, IsActive
<1>9. QED
  BY <1>5, <1>6, <1>7, <1>8 DEF IInv

\* The cascade of a purged rule takes all its incidents and its state.
LEMMA PurgeRuleStep ==
    ASSUME IInv, NEW r \in Rule, PurgeRule(r)
    PROVE  IInv'
<1> DEFINE S == {i \in Incident : incident[i].rule = r}
<1>1. /\ phase = "idle" /\ life[r] = "deleted" /\ \A e \in Editor : editor[e].rule # r
      /\ life' = [life EXCEPT ![r] = "absent"]
      /\ config' = [config EXCEPT ![r] = None]
      /\ state' = [state EXCEPT ![r] = NormalState]
      /\ incident' = [j \in Incident |-> IF j \in S THEN Unused ELSE incident[j]]
      /\ jobs' = {j \in jobs : j.incident \notin S}
      /\ lost' = lost \ S
      /\ UNCHANGED <<obs, suppressed, routes, editor, phase, listed, snapshot, note, pending,
                     faults>>
  BY DEF PurgeRule, Retired, adminVars, passVars
<1>2. /\ Unused \in IncidentRecord /\ Unused.status = "unused" /\ Unused.rule = None
      /\ NormalState \in StateRecord /\ NormalState.status = "normal"
  BY DEF Unused, IncidentRecord, NormalState, StateRecord, Status
<1>3. \A j \in Incident : IsActive(j)' =>
         IsActive(j) /\ incident'[j] = incident[j] /\ incident[j].rule # r
  BY <1>1, <1>2 DEF IsActive
<1>4. \A j \in Incident : incident[j].rule # r => incident'[j] = incident[j]
  BY <1>1
<1>5. \A q \in Rule : IF q = r THEN state'[q] = NormalState /\ life'[q] = "absent"
                      ELSE state'[q] = state[q] /\ life'[q] = life[q] /\ config'[q] = config[q]
  BY <1>1 DEF IInv, TypeOK
<1>6. TypeOK'
  BY <1>1, <1>2 DEF IInv, TypeOK
<1>7. References'
  <2>1. \A e \in Editor : editor[e] # NoEdit => editor[e].rule \in Rule \ {r}
    BY <1>1 DEF IInv, References
  <2>2. \A e \in Editor : editor'[e] # NoEdit => life'[editor'[e].rule] # "absent"
    BY <1>1, <1>5, <2>1 DEF IInv, References
  <2>3. listed' = {}
    BY <1>1 DEF IInv, References
  <2>4. QED
    BY <1>1, <1>2, <1>3, <1>5, <2>2, <2>3 DEF IInv, References
<1>8. OneActiveIncident'
  BY <1>3 DEF IInv, OneActiveIncident
<1>9. StateIncidentAgreement'
  <2>1. ASSUME NEW q \in Rule, state'[q].status \in {"firing", "acknowledged"}
        PROVE  \E j \in Incident : incident'[j].rule = q /\ incident'[j].status = state'[q].status
    <3>1. q # r /\ state'[q] = state[q]
      BY <1>2, <1>5, <2>1
    <3>2. QED
      BY <1>4, <2>1, <3>1 DEF IInv, StateIncidentAgreement
  <2>2. ASSUME NEW q \in Rule, NEW j \in Incident, incident'[j].rule = q, IsActive(j)'
        PROVE  incident'[j].status = state'[q].status
    BY <1>3, <1>5, <2>2 DEF IInv, StateIncidentAgreement
  <2>3. QED
    BY <2>1, <2>2 DEF StateIncidentAgreement
<1>10. QED
  BY <1>6, <1>7, <1>8, <1>9 DEF IInv

-----------------------------------------------------------------------------

\* Every step of the system, and every stutter, preserves the invariant.
LEMMA NextIInv == IInv /\ [Next]_vars => IInv'
<1> SUFFICES ASSUME IInv, [Next]_vars
             PROVE  IInv'
  OBVIOUS
<1>1. CASE UNCHANGED vars
  BY <1>1 DEF vars, tableVars, adminVars, passVars, IInv, TypeOK, References,
              StateIncidentAgreement, OneActiveIncident, IsActive
<1>2. CASE Administration
  BY <1>2, CreateRuleStep, EditorStep, CommitUpdateStep, DeleteRuleStep, AcknowledgeStep,
     ToggleStep DEF Administration
<1>3. CASE Evaluation
  BY <1>3, BeginPassStep, EvaluateRuleStep, EndPassStep, DispatchStep DEF Evaluation
<1>4. CASE Failure
  BY <1>4, FailureStep DEF Failure
<1>5. CASE Retention
  BY <1>5, PurgeIncidentStep, PurgeRuleStep DEF Retention
<1>6. QED
  BY <1>1, <1>2, <1>3, <1>4, <1>5 DEF Next

LEMMA Invariance == Spec => []IInv
BY InitIInv, NextIInv, PTL DEF Spec

\* Every variable keeps its type through every interleaving of evaluations,
\* updates, acknowledgements, faults and retention.
THEOREM TypeCorrect == Spec => []TypeOK
<1>1. IInv => TypeOK
  BY DEF IInv
<1>2. QED
  BY <1>1, Invariance, PTL

\* alert_rule_states and alert_incidents agree, for any number of rules,
\* incidents, editors and faults.
THEOREM TablesAgree == Spec => []StateIncidentAgreement
<1>1. IInv => StateIncidentAgreement
  BY DEF IInv
<1>2. QED
  BY <1>1, Invariance, PTL

\* A rule never has two active incidents: the unique index of the table never
\* rejects an evaluation.
THEOREM AtMostOneActive == Spec => []OneActiveIncident
<1>1. IInv => OneActiveIncident
  BY DEF IInv
<1>2. QED
  BY <1>1, Invariance, PTL

-----------------------------------------------------------------------------
(* What was notified, and what was resolved.                                 *)

Dispatching == phase \in {"check", "enqueue"}

\* The note that is dispatched is of the incident as the evaluation left it, and nothing
\* but the dispatch touches the timestamp meanwhile.
Notes ==
    /\ ~Dispatching => note = NoNote
    /\ Dispatching =>
          /\ incident[note.incident].rule = note.rule
          /\ note.event = "resolved" => incident[note.incident].status = "resolved"
          /\ note.event # "resolved" => state[note.rule].notified \in {0, None}

\* The rest of the inductive invariant.
Announced == Notes /\ ResolvedNoticeIsTrue /\ NotifiedMeansEnqueued

LEMMA InitAnnounced == Init => Announced
BY DEF Init, Announced, Notes, Dispatching, ResolvedNoticeIsTrue, NotifiedMeansEnqueued, Unused

\* What holds of an incident that is firing, with the parts of NotifiedMeansEnqueued.
Covered(i) ==
    \/ \E j \in jobs : j.incident = i
    \/ note.incident = i
    \/ i \in lost

LEMMA FiringRule ==
    ASSUME IInv, Announced, NEW i \in Incident, incident[i].status = "firing"
    PROVE  /\ incident[i].rule \in Rule
           /\ state[incident[i].rule].notified # None => Covered(i)
BY DEF IInv, References, IsActive, Announced, NotifiedMeansEnqueued, Covered

\* A step in which no incident fires anew, none is reopened and no rule is notified.
LEMMA QuietStep ==
    ASSUME IInv, Announced, UNCHANGED <<note, jobs, lost>>, Dispatching' = Dispatching,
           \A i \in Incident :
              /\ incident'[i].rule = incident[i].rule
              /\ incident[i].status = "resolved" => incident'[i].status = "resolved"
              /\ incident'[i].status = "firing" => incident[i].status = "firing",
           \A r \in Rule :
              /\ state'[r].notified # None => state[r].notified # None
              /\ Dispatching => state'[r].notified \in {state[r].notified, None}
    PROVE  Announced'
<1>1. Dispatching => note.rule \in Rule /\ note.incident \in Incident
  BY DEF IInv, References, Dispatching
<1>2. Notes'
  <2>1. CASE Dispatching
    BY <1>1, <2>1 DEF Announced, Notes
  <2>2. CASE ~Dispatching
    BY <2>2 DEF Announced, Notes
  <2>3. QED
    BY <2>1, <2>2
<1>3. ResolvedNoticeIsTrue'
  BY DEF Announced, ResolvedNoticeIsTrue, IInv, TypeOK
<1>4. NotifiedMeansEnqueued'
  <2> SUFFICES ASSUME NEW i \in Incident, incident'[i].status = "firing",
                      state'[incident'[i].rule].notified # None
               PROVE  Covered(i)'
    BY DEF NotifiedMeansEnqueued, Covered
  <2>1. Covered(i)
    BY FiringRule
  <2>2. QED
    BY <2>1 DEF Covered
<1>5. QED
  BY <1>2, <1>3, <1>4 DEF Announced

\* Resolving some incidents reopens none.
LEMMA ResolvedKeeps ==
    ASSUME TypeOK, NEW S, incident' = Resolved(S)
    PROVE  \A i \in Incident :
              /\ incident'[i].rule = incident[i].rule
              /\ incident[i].status = "resolved" => incident'[i].status = "resolved"
              /\ incident'[i].status = "firing" => incident[i].status = "firing"
<1> SUFFICES ASSUME NEW i \in Incident
             PROVE  /\ incident'[i].rule = incident[i].rule
                    /\ incident[i].status = "resolved" => incident'[i].status = "resolved"
                    /\ incident'[i].status = "firing" => incident[i].status = "firing"
  OBVIOUS
<1>1. incident'[i] \in {incident[i], [incident[i] EXCEPT !.status = "resolved"]}
  BY DEF Resolved
<1>2. incident[i] \in IncidentRecord
  BY DEF TypeOK
<1>3. QED
  BY <1>1, <1>2 DEF IncidentRecord

\* A reset leaves the timestamp alone.
LEMMA ResetKeeps ==
    ASSUME TypeOK, NEW r \in Rule,
           state' = [state EXCEPT ![r].status = "normal", ![r].since = None]
    PROVE  \A q \in Rule : state'[q].notified = state[q].notified
BY DEF TypeOK, StateRecord

LEMMA AdministrationAnnounced ==
    ASSUME IInv, Announced, Administration
    PROVE  Announced'
<1>0. TypeOK
  BY DEF IInv
<1>1. ASSUME NEW r \in Rule, NEW c \in RuleInput, CreateRule(r, c)
      PROVE  Announced'
  <2>1. \A q \in Rule : state'[q].notified \in {state[q].notified, None}
    BY <1>0, <1>1 DEF CreateRule, NormalState, TypeOK
  <2>2. UNCHANGED <<incident, note, jobs, lost, phase>>
    BY <1>1 DEF CreateRule, passVars
  <2>3. QED
    BY <2>1, <2>2, QuietStep DEF Dispatching
<1>2. ASSUME NEW e \in Editor, (\E r \in Rule : ReadForUpdate(e, r)) \/ AbandonUpdate(e)
      PROVE  Announced'
  <2>1. UNCHANGED <<incident, state, note, jobs, lost, phase>>
    BY <1>2 DEF ReadForUpdate, AbandonUpdate, passVars, tableVars
  <2>2. QED
    BY <2>1, QuietStep DEF Dispatching
<1>3. ASSUME NEW e \in Editor, NEW c \in RuleInput, CommitUpdate(e, c)
      PROVE  Announced'
  <2> DEFINE r == editor[e].rule
             changed == ExpressionChanged(editor[e].current, c)
  <2>1. UNCHANGED <<note, jobs, lost, phase>> /\ r \in Rule
    BY <1>3 DEF CommitUpdate, passVars, IInv, References
  <2>2. CASE changed
    <3>1. incident' = Resolved(ActiveOf(r))
          /\ state' = [state EXCEPT ![r].status = "normal", ![r].since = None]
      BY <1>3, <2>2 DEF CommitUpdate
    <3>2. QED
      BY <1>0, <2>1, <3>1, ResolvedKeeps, ResetKeeps, QuietStep DEF Dispatching
  <2>3. CASE ~changed
    <3>1. UNCHANGED <<incident, state>>
      BY <1>3, <2>3 DEF CommitUpdate
    <3>2. QED
      BY <2>1, <3>1, QuietStep DEF Dispatching
  <2>4. QED
    BY <2>2, <2>3
<1>4. ASSUME NEW r \in Rule, DeleteRule(r)
      PROVE  Announced'
  <2>1. UNCHANGED <<note, jobs, lost, phase>> /\ incident' = Resolved(ActiveOf(r))
        /\ state' = [state EXCEPT ![r].status = "normal", ![r].since = None]
    BY <1>4 DEF DeleteRule, passVars
  <2>2. QED
    BY <1>0, <2>1, ResolvedKeeps, ResetKeeps, QuietStep DEF Dispatching
<1>5. ASSUME NEW i \in Incident, Acknowledge(i)
      PROVE  Announced'
  <2>1. UNCHANGED <<note, jobs, lost, phase>>
    BY <1>5 DEF Acknowledge, passVars
  <2>2. \A j \in Incident :
           /\ incident'[j].rule = incident[j].rule
           /\ incident[j].status = "resolved" => incident'[j].status = "resolved"
           /\ incident'[j].status = "firing" => incident[j].status = "firing"
    <3>1. incident' = [incident EXCEPT ![i].status = "acknowledged"]
          /\ incident[i].status # "resolved" /\ incident[i] \in IncidentRecord
      BY <1>0, <1>5 DEF Acknowledge, ActiveStatus, TypeOK
    <3>2. \A j \in Incident : j # i => incident'[j] = incident[j]
      BY <1>0, <3>1 DEF TypeOK
    <3>3. incident'[i] = [incident[i] EXCEPT !.status = "acknowledged"]
      BY <1>0, <3>1 DEF TypeOK
    <3>4. incident'[i].status = "acknowledged" /\ incident'[i].rule = incident[i].rule
      BY <3>1, <3>3 DEF IncidentRecord
    <3>5. QED
      BY <3>1, <3>2, <3>4
  <2>3. \A q \in Rule : state'[q].notified = state[q].notified
    <3>1. state' = [state EXCEPT ![incident[i].rule].status = "acknowledged"]
      BY <1>5 DEF Acknowledge
    <3>2. QED
      BY <1>0, <3>1 DEF TypeOK, StateRecord
  <2>4. QED
    BY <2>1, <2>2, <2>3, QuietStep DEF Dispatching
<1>6. ASSUME \/ \E r \in Rule : ToggleSuppression(r)
             \/ \E d \in Destination : ToggleRoute(d)
             \/ \E x \in Expr, v \in {"breached", "clear", "missing"} : Observe(x, v)
      PROVE  Announced'
  <2>1. UNCHANGED <<incident, state, note, jobs, lost, phase>>
    BY <1>6 DEF ToggleSuppression, ToggleRoute, Observe, passVars, tableVars
  <2>2. QED
    BY <2>1, QuietStep DEF Dispatching
<1>7. QED
  BY <1>1, <1>2, <1>3, <1>4, <1>5, <1>6 DEF Administration

\* What an evaluation does to the timestamp, by the event it reports.
LEMMA NextStateNotified ==
    ASSUME NEW c, NEW o, NEW s \in StateRecord
    PROVE  IF NotifyEvent(c, s, o) \in {"firing", "repeat"}
           THEN NextState(c, s, o).notified = 0
           ELSE NextState(c, s, o).notified = s.notified
<1>1. CASE Recovers(c, o)
  <2>1. ~Fires(c, s, o) /\ ~Repeats(c, s, o)
    BY <1>1 DEF Recovers, Fires, Repeats, Breaches
  <2>2. NotifyEvent(c, s, o) \in {"resolved", "none"}
    BY <1>1, <2>1 DEF NotifyEvent
  <2>3. NextState(c, s, o) = [s EXCEPT !.status = "normal", !.since = None]
    BY <1>1, <2>1 DEF NextState, Waits, Recovers, Breaches
  <2>4. QED
    BY <2>2, <2>3 DEF StateRecord
<1>2. CASE ~Recovers(c, o) /\ Fires(c, s, o)
  <2>1. ~Waits(c, s, o) /\ ~Repeats(c, s, o)
    BY <1>2 DEF Fires, Waits, Repeats
  <2>2. NotifyEvent(c, s, o) = "firing" /\ NextState(c, s, o).notified = 0
    BY <1>2, <2>1 DEF NotifyEvent, NextState
  <2>3. QED
    BY <2>2
<1>3. CASE ~Recovers(c, o) /\ ~Fires(c, s, o) /\ Repeats(c, s, o)
  <2>1. ~Waits(c, s, o)
    BY <1>3 DEF Waits, Repeats
  <2>2. NotifyEvent(c, s, o) = "repeat" /\ NextState(c, s, o) = [s EXCEPT !.notified = 0]
    BY <1>3, <2>1 DEF NotifyEvent, NextState
  <2>3. QED
    BY <2>2 DEF StateRecord
<1>4. CASE ~Recovers(c, o) /\ ~Fires(c, s, o) /\ ~Repeats(c, s, o)
  <2>1. NotifyEvent(c, s, o) = "none"
    BY <1>4 DEF NotifyEvent
  <2>2. NextState(c, s, o).notified = s.notified
    BY <1>4 DEF NextState, StateRecord
  <2>3. QED
    BY <2>1, <2>2
<1>5. QED
  BY <1>1, <1>2, <1>3, <1>4

\* A note of the incident a rule is firing with; those of the other rules are as before.
LEMMA NotedStep ==
    ASSUME IInv, Announced, phase = "rules", NEW r \in Rule, NEW i \in Incident,
           NEW ev \in {"firing", "repeat"}, Notify(ev, r, i), UNCHANGED <<jobs, lost>>,
           incident'[i].rule = r, incident'[i].status # "resolved",
           incident[i].status # "resolved" \/ incident[i] = Unused,
           \A j \in Incident \ {i} :
              incident'[j] = incident[j]
              /\ (IsActive(j) => incident[j].rule # r),
           \A q \in Rule \ {r} : state'[q] = state[q],
           state'[r].notified = 0
    PROVE  Announced'
<1>1. note' = [event |-> ev, rule |-> r, incident |-> i] /\ phase' = "check"
  BY DEF Notify
<1>2. note.incident = None
  BY DEF Announced, Notes, Dispatching, NoNote
<1>3. Notes'
  BY <1>1 DEF Notes, Dispatching
<1>4. ResolvedNoticeIsTrue'
  <2> SUFFICES ASSUME NEW j \in jobs, j.event = "resolved"
               PROVE  incident'[j.incident].status = "resolved"
    BY DEF ResolvedNoticeIsTrue
  <2>1. incident[j.incident].status = "resolved" /\ j.incident \in Incident
    BY DEF Announced, ResolvedNoticeIsTrue, IInv, TypeOK
  <2>2. j.incident # i
    BY <2>1 DEF Unused
  <2>3. QED
    BY <2>1, <2>2
<1>5. NotifiedMeansEnqueued'
  <2> SUFFICES ASSUME NEW j \in Incident, incident'[j].status = "firing",
                      state'[incident'[j].rule].notified # None, j # i
               PROVE  Covered(j)'
    BY <1>1 DEF NotifiedMeansEnqueued, Covered
  <2>1. incident'[j] = incident[j] /\ incident[j].rule # r /\ incident[j].rule \in Rule
    BY FiringRule DEF IsActive
  <2>2. Covered(j)
    BY <2>1, FiringRule
  <2>3. QED
    BY <1>2, <2>2, RuleAssumption DEF Covered
<1>6. QED
  BY <1>3, <1>4, <1>5 DEF Announced

LEMMA EvaluateAnnounced ==
    ASSUME IInv, Announced, NEW r \in Rule, EvaluateRule(r)
    PROVE  Announced'
<1> DEFINE c  == snapshot[r]
           o  == obs[c.expr]
           ev == NotifyEvent(c, state[r], o)
<1>1. /\ phase = "rules" /\ state[r] \in StateRecord
      /\ state' = [state EXCEPT ![r] = NextState(c, state[r], o)]
      /\ UNCHANGED <<jobs, lost>>
  BY DEF EvaluateRule, IInv, TypeOK
<1>2. /\ state'[r] = NextState(c, state[r], o)
      /\ \A q \in Rule \ {r} : state'[q] = state[q]
  BY <1>1 DEF IInv, TypeOK
<1>3. IF ev \in {"firing", "repeat"} THEN state'[r].notified = 0
      ELSE state'[r].notified = state[r].notified
  BY <1>1, <1>2, NextStateNotified
<1>4. /\ ev = "firing" => state[r].status \in {"normal", "pending"}
      /\ ev = "repeat" => state[r].status = "firing"
  BY <1>1, NextStateStatus
<1>5. \/ /\ ev = "firing" /\ ActiveOf(r) = {}
         /\ \E i \in Incident :
               /\ incident[i] = Unused
               /\ incident' = [incident EXCEPT ![i] =
                     [status |-> "firing", rule |-> r, expr |-> c.expr]]
               /\ Notify(ev, r, i)
      \/ ev = "resolved" /\ \E i \in ActiveOf(r) : incident' = Resolved({i}) /\ Notify(ev, r, i)
      \/ ev \in {"firing", "repeat"} /\ (\E i \in ActiveOf(r) : Notify(ev, r, i)) /\ UNCHANGED incident
      \/ /\ ev = "none" \/ (ev \in {"resolved", "repeat"} /\ ActiveOf(r) = {})
         /\ NoNotification /\ UNCHANGED incident
  BY Zenon DEF EvaluateRule
<1> HIDE DEF c, o, ev
<1>6. ASSUME ev = "firing", ActiveOf(r) = {}, NEW i \in Incident, incident[i] = Unused,
             incident' = [incident EXCEPT ![i] =
                             [status |-> "firing", rule |-> r, expr |-> c.expr]],
             Notify(ev, r, i)
      PROVE  Announced'
  <2>1. /\ incident'[i] = [status |-> "firing", rule |-> r, expr |-> c.expr]
        /\ \A j \in Incident \ {i} : incident'[j] = incident[j]
    BY <1>6 DEF IInv, TypeOK
  <2>2. \A j \in Incident : IsActive(j) => incident[j].rule # r
    BY <1>6 DEF ActiveOf, ActiveStatus, IsActive
  <2>3. QED
    BY <1>1, <1>2, <1>3, <1>6, <2>1, <2>2, NotedStep
<1>7. ASSUME ev = "resolved", NEW i \in ActiveOf(r), incident' = Resolved({i}), Notify(ev, r, i)
      PROVE  Announced'
  <2>1. /\ i \in Incident /\ IsActive(i) /\ incident[i].rule = r
        /\ incident'[i] = [incident[i] EXCEPT !.status = "resolved"]
        /\ \A j \in Incident : j # i => incident'[j] = incident[j]
    BY <1>7 DEF ActiveOf, ActiveStatus, IsActive, Resolved
  <2>2. incident'[i].status = "resolved" /\ incident'[i].rule = r
    BY <2>1 DEF IInv, TypeOK, IncidentRecord
  <2>3. note' = [event |-> "resolved", rule |-> r, incident |-> i] /\ phase' = "check"
    BY <1>7 DEF Notify
  <2>4. note.incident = None
    BY <1>1 DEF Announced, Notes, Dispatching, NoNote
  <2>5. Notes'
    BY <2>2, <2>3 DEF Notes, Dispatching
  <2>6. ResolvedNoticeIsTrue'
    BY <1>1, <2>1, <2>2 DEF Announced, ResolvedNoticeIsTrue, IInv, TypeOK
  <2>7. NotifiedMeansEnqueued'
    <3> SUFFICES ASSUME NEW j \in Incident, incident'[j].status = "firing",
                        state'[incident'[j].rule].notified # None
                 PROVE  Covered(j)'
      BY DEF NotifiedMeansEnqueued, Covered
    <3>1. incident'[j] = incident[j] /\ j # i
      BY <2>1, <2>2
    <3>2. state[incident[j].rule].notified # None
      BY <1>2, <1>3, <1>7, <3>1, FiringRule
    <3>3. Covered(j)
      BY <3>1, <3>2, FiringRule
    <3>4. QED
      BY <1>1, <2>4, <3>3, RuleAssumption DEF Covered
  <2>8. QED
    BY <2>5, <2>6, <2>7 DEF Announced
<1>8. ASSUME ev \in {"firing", "repeat"}, NEW i \in ActiveOf(r), Notify(ev, r, i), UNCHANGED incident
      PROVE  Announced'
  <2>1. i \in Incident /\ IsActive(i) /\ incident[i].rule = r
    BY DEF ActiveOf, ActiveStatus, IsActive
  <2>2. \A j \in Incident \ {i} : IsActive(j) => incident[j].rule # r
    BY <2>1 DEF IInv, OneActiveIncident
  <2>3. incident'[i].rule = r /\ incident'[i].status # "resolved" /\ incident[i].status # "resolved"
        /\ \A j \in Incident \ {i} : incident'[j] = incident[j]
    BY <1>8, <2>1 DEF IsActive
  <2>4. QED
    BY <1>1, <1>2, <1>3, <1>8, <2>1, <2>2, <2>3, NotedStep
<1>9. ASSUME ev = "none" \/ (ev \in {"resolved", "repeat"} /\ ActiveOf(r) = {}),
             NoNotification, UNCHANGED incident
      PROVE  Announced'
  <2>1. state[r].status = "firing" => ActiveOf(r) # {}
    BY DEF IInv, StateIncidentAgreement, ActiveOf, ActiveStatus
  <2>2. ev \notin {"firing", "repeat"}
    BY <1>4, <1>9, <2>1
  <2>3. \A q \in Rule : state'[q].notified = state[q].notified
    BY <1>2, <1>3, <2>2
  <2>4. note' = note /\ phase' = phase
    BY <1>9 DEF NoNotification
  <2>5. QED
    BY <1>1, <1>9, <2>3, <2>4, QuietStep DEF Dispatching
<1>10. QED
  BY <1>5, <1>6, <1>7, <1>8, <1>9

\* Withheld or not inserted: the timestamp is cleared, or the incident is over.
LEMMA DeferredAnnounced ==
    ASSUME IInv, Announced, Dispatching, state' = Deferred(note), UNCHANGED <<incident, jobs, lost>>,
           note' = NoNote, phase' \in {"rules", "idle"}
    PROVE  Announced'
<1>1. note \in [event: Event, rule: Rule, incident: Incident]
  BY DEF IInv, References, Dispatching
<1>2. \A q \in Rule : state'[q].notified \in {state[q].notified, None}
  BY <1>1 DEF Deferred, IInv, TypeOK, StateRecord
<1>3. note.event # "resolved" => state'[note.rule].notified = None
  <2> SUFFICES ASSUME note.event # "resolved"
               PROVE  state'[note.rule].notified = None
    OBVIOUS
  <2>1. state[note.rule].notified \in {0, None} /\ note.event \in {"firing", "repeat"}
    BY <1>1 DEF Announced, Notes, Event
  <2>2. CASE state[note.rule].notified = 0
    <3>1. state' = [state EXCEPT ![note.rule].notified = None]
      BY <2>1, <2>2 DEF Deferred
    <3>2. QED
      BY <1>1, <3>1 DEF IInv, TypeOK, StateRecord
  <2>3. CASE state[note.rule].notified # 0
    BY <2>1, <2>3 DEF Deferred
  <2>4. QED
    BY <2>2, <2>3
<1>4. NotifiedMeansEnqueued'
  <2> SUFFICES ASSUME NEW i \in Incident, incident[i].status = "firing",
                      state'[incident[i].rule].notified # None
               PROVE  Covered(i)'
    BY DEF NotifiedMeansEnqueued, Covered
  <2>1. Covered(i)
    BY <1>2, FiringRule
  <2>2. note.incident # i
    BY <1>3 DEF Announced, Notes
  <2>3. QED
    BY <2>1, <2>2 DEF Covered
<1>5. QED
  BY <1>4 DEF Announced, Notes, Dispatching, ResolvedNoticeIsTrue

LEMMA EnqueueAnnounced ==
    ASSUME IInv, Announced, NEW t \in Target, Enqueue(t)
    PROVE  Announced'
<1>1. /\ Dispatching /\ UNCHANGED <<state, incident, lost>>
      /\ jobs' = jobs \cup {[incident |-> note.incident, event |-> note.event, target |-> t]}
      /\ \/ note' = NoNote /\ phase' = "rules"
         \/ note' = note /\ phase' = phase
  BY DEF Enqueue, Dispatching
<1>2. note \in [event: Event, rule: Rule, incident: Incident]
  BY <1>1 DEF IInv, References, Dispatching
<1>3. Notes'
  BY <1>1 DEF Announced, Notes, Dispatching
<1>4. ResolvedNoticeIsTrue'
  BY <1>1 DEF Announced, Notes, ResolvedNoticeIsTrue
<1>5. NotifiedMeansEnqueued'
  <2> SUFFICES ASSUME NEW i \in Incident, incident[i].status = "firing",
                      state[incident[i].rule].notified # None
               PROVE  Covered(i)'
    BY <1>1 DEF NotifiedMeansEnqueued, Covered
  <2>1. Covered(i)
    BY FiringRule
  <2>2. CASE note.incident = i
    <3> DEFINE job == [incident |-> note.incident, event |-> note.event, target |-> t]
    <3>1. job \in jobs' /\ job.incident = i
      BY <1>1, <2>2
    <3>2. QED
      BY <3>1 DEF Covered
  <2>3. CASE note.incident # i
    BY <1>1, <2>1, <2>3 DEF Covered
  <2>4. QED
    BY <2>2, <2>3
<1>6. QED
  BY <1>3, <1>4, <1>5 DEF Announced

LEMMA EvaluationAnnounced ==
    ASSUME IInv, Announced, Evaluation
    PROVE  Announced'
<1>1. CASE BeginPass
  <2>1. UNCHANGED <<incident, note, jobs, lost>> /\ phase \in {"idle", "starting"}
        /\ phase' = "rules"
    BY <1>1 DEF BeginPass
  <2>2. \A r \in Rule : state'[r].notified # None => state[r].notified # None
    <3>1. \A r \in Rule : Aged(state[r]).notified = Older(state[r].notified)
      BY DEF Aged, IInv, TypeOK, StateRecord
    <3>2. \A r \in Rule : state'[r] \in {state[r], Aged(state[r])}
      BY <1>1 DEF BeginPass
    <3>3. QED
      BY <3>1, <3>2 DEF Older
  <2>3. QED
    BY <2>1, <2>2, QuietStep DEF Dispatching
<1>2. CASE EndPass \/ DispatchStarts
  <2>1. UNCHANGED <<incident, state, note, jobs, lost>> /\ Dispatching' = Dispatching
    BY <1>2 DEF EndPass, DispatchStarts, Dispatching, tableVars
  <2>2. QED
    BY <2>1, QuietStep
<1>3. CASE DispatchWithheld
  BY <1>3, DeferredAnnounced DEF DispatchWithheld, Dispatching
<1>4. QED
  BY <1>1, <1>2, <1>3, EvaluateAnnounced, EnqueueAnnounced DEF Evaluation

LEMMA FailureAnnounced ==
    ASSUME IInv, Announced, Failure
    PROVE  Announced'
<1>1. CASE EnqueueFails
  BY <1>1, DeferredAnnounced DEF EnqueueFails, AbandonPass, Dispatching
<1>2. CASE PassFails \/ Crash
  <2>1. /\ UNCHANGED <<state, incident, jobs>> /\ note' = NoNote /\ ~Dispatching'
        /\ lost' = lost \cup {i \in Incident : i = note.incident}
    BY <1>2 DEF PassFails, Crash, AbandonPass, Dispatching, tableVars
  <2>2. Notes' /\ ResolvedNoticeIsTrue'
    BY <2>1 DEF Announced, Notes, ResolvedNoticeIsTrue
  <2>3. NotifiedMeansEnqueued'
    <3> SUFFICES ASSUME NEW i \in Incident, incident[i].status = "firing",
                        state[incident[i].rule].notified # None
                 PROVE  Covered(i)'
      BY <2>1 DEF NotifiedMeansEnqueued, Covered
    <3>1. Covered(i)
      BY FiringRule
    <3>2. QED
      BY <2>1, <3>1 DEF Covered
  <2>4. QED
    BY <2>2, <2>3 DEF Announced
<1>3. QED
  BY <1>1, <1>2 DEF Failure

\* What refers to a purged incident goes with it.
LEMMA RetiredAnnounced ==
    ASSUME IInv, Announced, NEW S, Retired(S), UNCHANGED <<phase, note>>, phase = "idle",
           \A i \in Incident \ S : incident[i].rule \in Rule =>
              state'[incident[i].rule] = state[incident[i].rule]
    PROVE  Announced'
<1>1. Notes'
  BY DEF Announced, Notes, Dispatching
<1>2. ResolvedNoticeIsTrue'
  <2> SUFFICES ASSUME NEW j \in jobs, j.incident \notin S, j.event = "resolved"
               PROVE  incident'[j.incident].status = "resolved"
    BY DEF ResolvedNoticeIsTrue, Retired
  <2>1. j.incident \in Incident /\ incident[j.incident].status = "resolved"
    BY DEF Announced, ResolvedNoticeIsTrue, IInv, TypeOK
  <2>2. QED
    BY <2>1 DEF Retired
<1>3. NotifiedMeansEnqueued'
  <2> SUFFICES ASSUME NEW i \in Incident, incident'[i].status = "firing",
                      state'[incident'[i].rule].notified # None
               PROVE  Covered(i)'
    BY DEF NotifiedMeansEnqueued, Covered
  <2>1. i \notin S /\ incident'[i] = incident[i]
    BY DEF Retired, Unused
  <2>2. Covered(i)
    BY <2>1, FiringRule
  <2>3. QED
    BY <2>1, <2>2 DEF Covered, Retired
<1>4. QED
  BY <1>1, <1>2, <1>3 DEF Announced

LEMMA RetentionAnnounced ==
    ASSUME IInv, Announced, Retention
    PROVE  Announced'
<1>1. ASSUME NEW i \in Incident, PurgeIncident(i)
      PROVE  Announced'
  <2>1. Retired({i}) /\ UNCHANGED <<phase, note, state>> /\ phase = "idle"
    BY <1>1 DEF PurgeIncident, passVars
  <2>2. QED
    BY <2>1, RetiredAnnounced
<1>2. ASSUME NEW r \in Rule, PurgeRule(r)
      PROVE  Announced'
  <2> DEFINE S == {i \in Incident : incident[i].rule = r}
  <2>1. Retired(S) /\ UNCHANGED <<phase, note>> /\ phase = "idle"
        /\ state' = [state EXCEPT ![r] = NormalState]
    BY <1>2 DEF PurgeRule, passVars
  <2>2. \A i \in Incident \ S : incident[i].rule \in Rule =>
           state'[incident[i].rule] = state[incident[i].rule]
    BY <2>1 DEF IInv, TypeOK
  <2> HIDE DEF S
  <2>3. QED
    BY <2>1, <2>2, RetiredAnnounced
<1>3. QED
  BY <1>1, <1>2 DEF Retention

LEMMA NextAnnounced == IInv /\ Announced /\ [Next]_vars => Announced'
<1> SUFFICES ASSUME IInv, Announced, [Next]_vars
             PROVE  Announced'
  OBVIOUS
<1>1. CASE UNCHANGED vars
  <2>1. UNCHANGED <<incident, state, note, jobs, lost, phase>>
    BY <1>1 DEF vars, tableVars, passVars
  <2>2. QED
    BY <2>1, QuietStep DEF Dispatching
<1>2. QED
  BY <1>1, AdministrationAnnounced, EvaluationAnnounced, FailureAnnounced, RetentionAnnounced
     DEF Next

LEMMA AnnouncedInvariance == Spec => []Announced
<1>1. Init => Announced
  BY InitAnnounced
<1>2. IInv /\ Announced /\ [Next]_vars => Announced'
  BY NextAnnounced
<1>3. QED
  BY <1>1, <1>2, Invariance, PTL DEF Spec

\* last_notification_at tells the truth of every firing incident: it was queued, is being
\* dispatched or was lost between the commit and the inserts; suppression, missing targets
\* and failed inserts clear the timestamp (alert_operations.go, alerts.go:1400).
THEOREM NotifiedWasQueued == Spec => []NotifiedMeansEnqueued
<1>1. Announced => NotifiedMeansEnqueued
  BY DEF Announced
<1>2. QED
  BY <1>1, AnnouncedInvariance, PTL

\* No receiver is told of the end of an incident that goes on: a resolved note is of an
\* incident that is resolved when it is queued, and no step reopens it.
THEOREM ResolvedNoticesAreTrue == Spec => []ResolvedNoticeIsTrue
<1>1. Announced => ResolvedNoticeIsTrue
  BY DEF Announced
<1>2. QED
  BY <1>1, AnnouncedInvariance, PTL

-----------------------------------------------------------------------------
(* What a step may never do. *)

\* Nothing but the resolution of an acknowledged incident is decided: its rule is
\* acknowledged as well, and such a rule neither fires nor repeats.
THEOREM AcknowledgedIsSilent == Spec => AcknowledgementSilences
<1> DEFINE Silent ==
        \A i \in Incident :
            incident[i].status = "acknowledged" /\ note' # note /\ note'.incident = i
                => note'.event = "resolved"
<1>1. ASSUME IInv, Next
      PROVE  Silent
  <2> SUFFICES ASSUME NEW i \in Incident, incident[i].status = "acknowledged",
                      note' # note, note'.incident = i
               PROVE  note'.event = "resolved"
    OBVIOUS
  <2>1. note' # NoNote
    BY RuleAssumption DEF NoNote
  <2>2. PICK r \in Rule : EvaluateRule(r)
    BY <1>1, <2>1 DEF Next, Administration, Evaluation, Failure, Retention, CreateRule,
       ReadForUpdate, CommitUpdate, AbandonUpdate, DeleteRule, Acknowledge, ToggleSuppression,
       ToggleRoute, Observe, BeginPass, EndPass, DispatchWithheld, DispatchStarts, Enqueue,
       EnqueueFails, PassFails, Crash, AbandonPass, PurgeIncident, PurgeRule, passVars
  <2> DEFINE c  == snapshot[r]
             o  == obs[c.expr]
             ev == NotifyEvent(c, state[r], o)
  <2>3. state[r] \in StateRecord
    BY <1>1 DEF IInv, TypeOK
  <2>4. \/ ev = "firing" /\ \E j \in Incident : incident[j] = Unused /\ Notify(ev, r, j)
        \/ ev = "resolved" /\ \E j \in ActiveOf(r) : Notify(ev, r, j)
        \/ ev \in {"firing", "repeat"} /\ \E j \in ActiveOf(r) : Notify(ev, r, j)
        \/ NoNotification
    BY <2>2, Zenon DEF EvaluateRule
  <2>5. /\ ev = "firing" => state[r].status \in {"normal", "pending"}
        /\ ev = "repeat" => state[r].status = "firing"
    BY <2>3, NextStateStatus
  <2>6. i \in ActiveOf(r) => state[r].status = "acknowledged"
    BY <1>1, <2>2 DEF IInv, StateIncidentAgreement, ActiveOf, ActiveStatus, IsActive
  <2>7. incident[i] # Unused
    BY DEF Unused
  <2> HIDE DEF c, o, ev
  <2>8. QED
    BY <2>4, <2>5, <2>6, <2>7 DEF Notify, NoNotification
<1>2. IInv /\ [Next]_vars => [Silent]_vars
  BY <1>1
<1>3. QED
  BY <1>2, Invariance, PTL DEF Spec, AcknowledgementSilences

\* Of any number of racing updates, each that changes the expression of a live rule resets
\* its state, but for those that were overtaken by another one since they read the row
\* (alerts.go:719-721).
THEOREM ChangeResets == Spec => ChangedExpressionResets
<1> DEFINE Resets ==
        \A r \in Rule :
            life[r] = "live" /\ life'[r] = "live" /\ config'[r].expr # config[r].expr
                => \/ state'[r].status = "normal"
                   \/ \E e \in Editor : editor[e].rule = r /\ editor'[e] = NoEdit /\ Overtaken(e)
<1>1. ASSUME IInv, Next
      PROVE  Resets
  <2> SUFFICES ASSUME NEW r \in Rule, life[r] = "live", life'[r] = "live",
                      config'[r].expr # config[r].expr, state'[r].status # "normal"
               PROVE  \E e \in Editor : editor[e].rule = r /\ editor'[e] = NoEdit /\ Overtaken(e)
    OBVIOUS
  <2>1. config' # config /\ TypeOK
    BY <1>1 DEF IInv
  <2>2. \/ \E q \in Rule, c \in RuleInput : CreateRule(q, c)
        \/ \E e \in Editor, c \in RuleInput : CommitUpdate(e, c)
        \/ \E q \in Rule : PurgeRule(q)
    BY <1>1, <2>1 DEF Next, Administration, Evaluation, Failure, Retention,
       ReadForUpdate, AbandonUpdate, DeleteRule, Acknowledge, ToggleSuppression,
       ToggleRoute, Observe, BeginPass, EvaluateRule, EndPass, DispatchWithheld, DispatchStarts,
       Enqueue, EnqueueFails, PassFails, Crash, PurgeIncident, tableVars
  <2>3. ASSUME NEW q \in Rule, (\E c \in RuleInput : CreateRule(q, c)) \/ PurgeRule(q)
        PROVE  FALSE
    <3>1. \A p \in Rule : p # q => config'[p] = config[p]
      BY <2>1, <2>3 DEF CreateRule, PurgeRule, TypeOK
    <3>2. r = q
      BY <3>1
    <3>3. QED
      BY <2>1, <2>3, <3>2 DEF CreateRule, PurgeRule, TypeOK
  <2>4. PICK e \in Editor, c \in RuleInput : CommitUpdate(e, c)
    BY <2>2, <2>3
  <2>5. /\ editor[e] # NoEdit /\ editor[e].rule \in Rule
        /\ config' = [config EXCEPT ![editor[e].rule] = c]
        /\ editor' = [editor EXCEPT ![e] = NoEdit]
    BY <1>1, <2>4 DEF CommitUpdate, IInv, References
  <2>6. editor[e].rule = r /\ config'[r] = c /\ editor'[e] = NoEdit
    BY <2>1, <2>5 DEF TypeOK
  <2>7. ~ExpressionChanged(editor[e].current, c)
    <3> SUFFICES ASSUME ExpressionChanged(editor[e].current, c)
                 PROVE  FALSE
      OBVIOUS
    <3>1. state' = [state EXCEPT ![r].status = "normal", ![r].since = None]
      BY <2>4, <2>6 DEF CommitUpdate
    <3>2. state'[r].status = "normal"
      BY <2>1, <3>1 DEF TypeOK, StateRecord
    <3>3. QED
      BY <3>2
  <2>8. Overtaken(e)
    BY <2>6, <2>7 DEF ExpressionChanged, Overtaken
  <2>9. QED
    BY <2>6, <2>8
<1>2. IInv /\ [Next]_vars => [Resets]_vars
  BY <1>1
<1>3. QED
  BY <1>2, Invariance, PTL DEF Spec, ChangedExpressionResets
=============================================================================
