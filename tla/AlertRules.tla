----------------------------- MODULE AlertRules -----------------------------
(***************************************************************************)
(* Alert rules, their incidents and the evaluator (alerts.go), up to the   *)
(* point where a notification is handed to the durable outbox              *)
(* (alert_operations.go).                                                  *)
(*                                                                         *)
(* The tables live in one SQLite database opened with immediate            *)
(* transactions (store.go), so every transaction of the code is one        *)
(* action.  What interleaves is what the code does in several statements:  *)
(* the evaluator lists the rules, then runs one transaction per rule, then *)
(* reads suppressions and routes, then inserts one job per target; an      *)
(* update of a rule reads it, validates the input and only then writes.    *)
(*                                                                         *)
(* Time is the age of a stored instant: every pass of the evaluator takes  *)
(* its one `now`, one tick after the pass before it, and all ages grow by  *)
(* a tick up to Horizon, where they stay.  Between two passes no stored    *)
(* instant is compared, so time needs no other step.                       *)
(***************************************************************************)
EXTENDS Integers, FiniteSets

CONSTANTS
    Rule,          \* rule ids; their order is the order of listAlertRules
    Incident,      \* incident ids (randomID)
    Editor,        \* concurrent PUT /api/alert-rules/{id} requests
    Destination,   \* enabled webhook destinations of matching routes
    RuleInput,     \* the rule contents an administrator may submit
    Horizon,       \* age at which ages saturate
    MaxFaults,     \* how many errors and crashes a behaviour may have
    None           \* SQL NULL, or no value

Expr == {c.expr : c \in RuleInput}          \* metric, operator, threshold, scope
OwnWebhook == "rule webhook"                \* the rule's own webhook_url
Target == Destination \cup {OwnWebhook}
Age == 0..Horizon

ASSUME RuleAssumption == Rule \subseteq Nat /\ None \notin Rule /\ None \notin Incident
ASSUME InputAssumption ==
    /\ None \notin RuleInput
    /\ \A c \in RuleInput :
          /\ c.enabled \in BOOLEAN /\ c.webhook \in BOOLEAN
          /\ c.for \in Age /\ c.cooldown \in Age
ASSUME BoundAssumption == Horizon \in Nat /\ MaxFaults \in Nat

VARIABLES
    life,        \* of each rule: no row, a live row, or deleted_at is set
    config,      \* contents of each rule row
    state,       \* alert_rule_states: status, condition_since, last_notification_at
    incident,    \* alert_incidents
    jobs,        \* notifications inserted into alert_notification_jobs
    obs,         \* what the collectors report for each expression
    suppressed,  \* rules covered by an active silence or maintenance window
    routes,      \* destinations of the enabled matching routes
    editor,      \* updates that have read their rule and not written it yet
    phase,       \* where the evaluator is
    listed,      \* rules of the current pass still to evaluate
    snapshot,    \* the contents listAlertRules returned to this pass
    note,        \* notification decided by a committed evaluation
    pending,     \* its targets not inserted yet
    faults,      \* errors and crashes left
    lost         \* incidents with a notification dropped by a fault

adminVars == <<suppressed, routes, obs>>
passVars  == <<phase, listed, snapshot, note, pending>>
tableVars == <<life, config, state, incident, jobs>>
vars == <<tableVars, adminVars, editor, passVars, faults, lost>>

Status == {"normal", "pending", "firing", "acknowledged"}
Event  == {"firing", "repeat", "resolved"}
Phase  == {"starting", "idle", "rules", "check", "enqueue"}

NormalState == [status |-> "normal", since |-> None, notified |-> None]
Unused      == [status |-> "unused", rule |-> None, expr |-> None]
NoEdit      == [rule |-> None, current |-> None]
NoNote      == [event |-> "none", rule |-> None, incident |-> None]

StateRecord == [status: Status, since: Age \cup {None}, notified: Age \cup {None}]

IncidentRecord ==
    [status: {"unused", "firing", "acknowledged", "resolved"},
     rule: Rule \cup {None}, expr: Expr \cup {None}]

NoteRecord ==
    [event: Event \cup {"none"}, rule: Rule \cup {None}, incident: Incident \cup {None}]

TypeOK ==
    /\ life \in [Rule -> {"absent", "live", "deleted"}]
    /\ config \in [Rule -> RuleInput \cup {None}]
    /\ state \in [Rule -> StateRecord]
    /\ incident \in [Incident -> IncidentRecord]
    /\ jobs \subseteq [incident: Incident, event: Event, target: Target]
    /\ obs \in [Expr -> {"breached", "clear", "missing"}]
    /\ suppressed \subseteq Rule
    /\ routes \subseteq Destination
    /\ editor \in [Editor -> [rule: Rule \cup {None}, current: RuleInput \cup {None}]]
    /\ phase \in Phase
    /\ listed \subseteq Rule
    /\ snapshot \in [Rule -> RuleInput \cup {None}]
    /\ note \in NoteRecord
    /\ pending \subseteq Target
    /\ faults \in 0..MaxFaults
    /\ lost \subseteq Incident

Init ==
    /\ life = [r \in Rule |-> "absent"]
    /\ config = [r \in Rule |-> None]
    /\ state = [r \in Rule |-> NormalState]
    /\ incident = [i \in Incident |-> Unused]
    /\ jobs = {}
    /\ obs = [x \in Expr |-> "missing"]
    /\ suppressed = {}
    /\ routes = {}
    /\ editor = [e \in Editor |-> NoEdit]
    /\ phase = "starting"
    /\ listed = {}
    /\ snapshot = [r \in Rule |-> None]
    /\ note = NoNote
    /\ pending = {}
    /\ faults = MaxFaults
    /\ lost = {}

-----------------------------------------------------------------------------
(* evaluateAlertTransition: a pure function of the rule, its stored state    *)
(* and the selected observation.                                             *)

ActiveStatus == {"firing", "acknowledged"}

Recovers(c, o) == ~c.enabled \/ o = "clear"
Breaches(c, o) == c.enabled /\ o = "breached"

ConditionAge(s) == IF s.since = None THEN 0 ELSE s.since

Fires(c, s, o) ==
    /\ Breaches(c, o)
    /\ \/ s.status = "normal" /\ c.for = 0
       \/ s.status = "pending" /\ ConditionAge(s) >= c.for

\* Fault: an acknowledged incident keeps repeating.
Repeats_Acknowledged(c, s, o) ==
    /\ Breaches(c, o)
    /\ s.status \in ActiveStatus
    /\ s.notified = None \/ (c.cooldown > 0 /\ s.notified >= c.cooldown)

\* Fault: a cleared timestamp is not taken as "never notified".
Repeats_OnlyByCooldown(c, s, o) ==
    /\ Breaches(c, o)
    /\ s.status = "firing"
    /\ s.notified # None /\ c.cooldown > 0 /\ s.notified >= c.cooldown

Repeats(c, s, o) ==
    /\ Breaches(c, o)
    /\ s.status = "firing"
    /\ s.notified = None \/ (c.cooldown > 0 /\ s.notified >= c.cooldown)

Waits(c, s, o) == Breaches(c, o) /\ s.status \in {"normal", "pending"} /\ ~Fires(c, s, o)

NextState(c, s, o) ==
    CASE Recovers(c, o)   -> [s EXCEPT !.status = "normal", !.since = None]
      [] Fires(c, s, o)   -> [status |-> "firing", since |-> ConditionAge(s), notified |-> 0]
      [] Waits(c, s, o)   -> [s EXCEPT !.status = "pending",
                                       !.since = IF s.status = "normal" THEN 0 ELSE ConditionAge(s)]
      [] Repeats(c, s, o) -> [s EXCEPT !.notified = 0]
      [] OTHER            -> s

\* Fault: the recovery of an acknowledged incident resolves nothing.
NotifyEvent_FiringOnly(c, s, o) ==
    CASE Recovers(c, o) /\ s.status = "firing" -> "resolved"
      [] Fires(c, s, o)   -> "firing"
      [] Repeats(c, s, o) -> "repeat"
      [] OTHER            -> "none"

NotifyEvent(c, s, o) ==
    CASE Recovers(c, o) /\ s.status \in ActiveStatus -> "resolved"
      [] Fires(c, s, o)   -> "firing"
      [] Repeats(c, s, o) -> "repeat"
      [] OTHER            -> "none"

\* Fault: WHERE status='firing' forgets the acknowledged incident.
ActiveOf_FiringOnly(r) == {i \in Incident : incident[i].rule = r /\ incident[i].status = "firing"}

ActiveOf(r) == {i \in Incident : incident[i].rule = r /\ incident[i].status \in ActiveStatus}

\* Fault: an acknowledged incident cannot be resolved.
Resolved_FiringOnly(S) == [i \in Incident |->
    IF i \in S /\ incident[i].status = "firing"
    THEN [incident[i] EXCEPT !.status = "resolved"] ELSE incident[i]]

Resolved(S) == [i \in Incident |->
    IF i \in S THEN [incident[i] EXCEPT !.status = "resolved"] ELSE incident[i]]

Older(a) == IF a = None \/ a = Horizon THEN a ELSE a + 1

Aged(s) == [s EXCEPT !.since = Older(@), !.notified = Older(@)]

-----------------------------------------------------------------------------
(* Administrators.                                                           *)

CreateRule(r, c) ==
    /\ life[r] = "absent"
    /\ life' = [life EXCEPT ![r] = "live"]
    /\ config' = [config EXCEPT ![r] = c]
    /\ state' = [state EXCEPT ![r] = NormalState]
    /\ UNCHANGED <<incident, jobs, adminVars, editor, passVars, faults, lost>>

\* updateAlertRule reads the row before its transaction begins.
ReadForUpdate(e, r) ==
    /\ editor[e] = NoEdit
    /\ life[r] = "live"
    /\ editor' = [editor EXCEPT ![e] = [rule |-> r, current |-> config[r]]]
    /\ UNCHANGED <<tableVars, adminVars, passVars, faults, lost>>

\* Fault: the comparison looks at the wrong column.
ExpressionChanged_Cooldown(current, c) == current.cooldown # c.cooldown

ExpressionChanged(current, c) == current.expr # c.expr

\* A changed expression, compared with the row as it was read, resolves the
\* incident and resets the state.  The UPDATE does not look at deleted_at.
CommitUpdate(e, c) ==
    LET r == editor[e].rule
        changed == ExpressionChanged(editor[e].current, c)
    IN  /\ editor[e] # NoEdit
        /\ config' = [config EXCEPT ![r] = c]
        /\ incident' = IF changed THEN Resolved(ActiveOf(r)) ELSE incident
        /\ state' = IF changed
                    THEN [state EXCEPT ![r].status = "normal", ![r].since = None]
                    ELSE state
        /\ editor' = [editor EXCEPT ![e] = NoEdit]
        /\ UNCHANGED <<life, jobs, adminVars, passVars, faults, lost>>

\* Validation, the webhook host lookup or the transaction fails.
AbandonUpdate(e) ==
    /\ editor[e] # NoEdit
    /\ editor' = [editor EXCEPT ![e] = NoEdit]
    /\ UNCHANGED <<tableVars, adminVars, passVars, faults, lost>>

\* Fault: the incident is resolved and the stored state is left as it was.
DeleteRule_KeepsState(r) ==
    /\ life[r] = "live"
    /\ life' = [life EXCEPT ![r] = "deleted"]
    /\ incident' = Resolved(ActiveOf(r))
    /\ UNCHANGED <<config, state, jobs, adminVars, editor, passVars, faults, lost>>

\* enabled = 0 is written too; no reader of the column sees a deleted row.
DeleteRule(r) ==
    /\ life[r] = "live"
    /\ life' = [life EXCEPT ![r] = "deleted"]
    /\ incident' = Resolved(ActiveOf(r))
    /\ state' = [state EXCEPT ![r].status = "normal", ![r].since = None]
    /\ UNCHANGED <<config, jobs, adminVars, editor, passVars, faults, lost>>

Acknowledge(i) ==
    /\ incident[i].status \in ActiveStatus
    /\ incident' = [incident EXCEPT ![i].status = "acknowledged"]
    /\ state' = [state EXCEPT ![incident[i].rule].status = "acknowledged"]
    /\ UNCHANGED <<life, config, jobs, adminVars, editor, passVars, faults, lost>>

\* Silences and maintenance windows begin and end by the clock or by hand.
ToggleSuppression(r) ==
    /\ suppressed' = IF r \in suppressed THEN suppressed \ {r} ELSE suppressed \cup {r}
    /\ UNCHANGED <<tableVars, routes, obs, editor, passVars, faults, lost>>

ToggleRoute(d) ==
    /\ routes' = IF d \in routes THEN routes \ {d} ELSE routes \cup {d}
    /\ UNCHANGED <<tableVars, suppressed, obs, editor, passVars, faults, lost>>

\* A pass works on the observations collected before it, so that a new value
\* matters only between passes.
Observe(x, v) ==
    /\ phase = "idle"
    /\ obs[x] # v
    /\ obs' = [obs EXCEPT ![x] = v]
    /\ UNCHANGED <<tableVars, suppressed, routes, editor, passVars, faults, lost>>

-----------------------------------------------------------------------------
(* The evaluator: alertService.Run, EvaluateAt, evaluateRule.                *)

\* The ticker fires, or the service starts and evaluates at once.
BeginPass ==
    /\ phase \in {"idle", "starting"}
    /\ state' = IF phase = "idle" THEN [r \in Rule |-> Aged(state[r])] ELSE state
    /\ listed' = {r \in Rule : life[r] = "live"}
    /\ snapshot' = [r \in Rule |-> IF life[r] = "live" THEN config[r] ELSE None]
    /\ phase' = "rules"
    /\ UNCHANGED <<life, config, incident, jobs, adminVars, editor, note, pending,
                   faults, lost>>

NextListed(r) == r \in listed /\ \A q \in listed : r <= q

Notify(ev, r, i) ==
    /\ note' = [event |-> ev, rule |-> r, incident |-> i]
    /\ phase' = "check"

NoNotification == UNCHANGED <<note, phase>>

EvaluateRule(r) ==
    LET c  == snapshot[r]
        o  == obs[c.expr]
        ev == NotifyEvent(c, state[r], o)
    IN  /\ phase = "rules"
        /\ NextListed(r)
        /\ state' = [state EXCEPT ![r] = NextState(c, @, o)]
        /\ \/ /\ ev = "firing" /\ ActiveOf(r) = {}
              /\ \E i \in Incident :
                    /\ incident[i] = Unused
                    /\ incident' = [incident EXCEPT ![i] =
                          [status |-> "firing", rule |-> r, expr |-> c.expr]]
                    /\ Notify(ev, r, i)
           \/ /\ ev = "resolved"
              /\ \E i \in ActiveOf(r) : incident' = Resolved({i}) /\ Notify(ev, r, i)
           \/ /\ ev \in {"firing", "repeat"}
              /\ \E i \in ActiveOf(r) : Notify(ev, r, i)
              /\ UNCHANGED incident
           \/ /\ ev = "none" \/ (ev \in {"resolved", "repeat"} /\ ActiveOf(r) = {})
              /\ NoNotification
              /\ UNCHANGED incident
        /\ listed' = listed \ {r}
        /\ UNCHANGED <<life, config, jobs, adminVars, editor, snapshot, pending, faults, lost>>

EndPass ==
    /\ phase = "rules"
    /\ listed = {}
    /\ phase' = "idle"
    /\ snapshot' = [r \in Rule |-> None]
    /\ UNCHANGED <<tableVars, adminVars, editor, listed, note, pending, faults, lost>>

-----------------------------------------------------------------------------
(* dispatchAlertNotification.                                                *)

Targets(c) == routes \cup IF c.webhook THEN {OwnWebhook} ELSE {}

\* Fault: only a firing is put off, a withheld repeat counts as sent.
Deferred_FiringOnly(n) ==
    IF n.event = "firing" /\ state[n.rule].notified = 0
    THEN [state EXCEPT ![n.rule].notified = None]
    ELSE state

\* deferSuppressedAlertNotification clears last_notification_at if it is still
\* the instant of this pass.
Deferred(n) ==
    IF n.event \in {"firing", "repeat"} /\ state[n.rule].notified = 0
    THEN [state EXCEPT ![n.rule].notified = None]
    ELSE state

\* Suppressed, or nobody to notify: a firing or repeat is put off to the next
\* pass, a resolved notification is dropped.
DispatchWithheld ==
    /\ phase = "check"
    /\ note.rule \in suppressed \/ Targets(snapshot[note.rule]) = {}
    /\ state' = Deferred(note)
    /\ note' = NoNote
    /\ phase' = "rules"
    /\ UNCHANGED <<life, config, incident, jobs, adminVars, editor, listed, snapshot,
                   pending, faults, lost>>

DispatchStarts ==
    /\ phase = "check"
    /\ note.rule \notin suppressed
    /\ Targets(snapshot[note.rule]) # {}
    /\ pending' = Targets(snapshot[note.rule])
    /\ phase' = "enqueue"
    /\ UNCHANGED <<tableVars, adminVars, editor, listed, snapshot, note, faults, lost>>

\* One INSERT OR IGNORE per target, the rule's own webhook first.
Enqueue(t) ==
    /\ phase = "enqueue"
    /\ t \in pending
    /\ OwnWebhook \in pending => t = OwnWebhook
    /\ jobs' = jobs \cup {[incident |-> note.incident, event |-> note.event, target |-> t]}
    /\ pending' = pending \ {t}
    /\ IF pending = {t}
       THEN note' = NoNote /\ phase' = "rules"
       ELSE UNCHANGED <<note, phase>>
    /\ UNCHANGED <<life, config, state, incident, adminVars, editor, listed, snapshot,
                   faults, lost>>

-----------------------------------------------------------------------------
(* Errors, crashes, retention.                                               *)

AbandonPass ==
    /\ listed' = {}
    /\ snapshot' = [r \in Rule |-> None]
    /\ note' = NoNote
    /\ pending' = {}

Fault == faults > 0 /\ faults' = faults - 1

\* An insert fails: the timestamp is cleared and the error ends the pass.
EnqueueFails ==
    /\ Fault
    /\ phase = "enqueue"
    /\ state' = Deferred(note)
    /\ phase' = "idle"
    /\ AbandonPass
    /\ UNCHANGED <<life, config, incident, jobs, adminVars, editor, lost>>

\* A transaction of evaluateRule rolls back, or the suppressions or the routes
\* cannot be read, or the clearing of the timestamp fails too: the error ends
\* the pass, and a notification already decided is dropped as it is.
PassFails ==
    /\ Fault
    /\ phase \in {"rules", "check", "enqueue"}
    /\ phase' = "idle"
    /\ AbandonPass
    /\ lost' = lost \cup {i \in Incident : i = note.incident}
    /\ UNCHANGED <<tableVars, adminVars, editor>>

Crash ==
    /\ Fault
    /\ phase' = "starting"
    /\ AbandonPass
    /\ lost' = lost \cup {i \in Incident : i = note.incident}
    /\ editor' = [e \in Editor |-> NoEdit]
    /\ UNCHANGED <<tableVars, adminVars>>

\* maintainOperationalHistory, 30 days on: no pass and no update of that day
\* is still running.  A job outlives its incident in the table (no foreign key);
\* the model uses the purged id again, so what refers to the old incident goes.
Retired(S) ==
    /\ incident' = [i \in Incident |-> IF i \in S THEN Unused ELSE incident[i]]
    /\ jobs' = {j \in jobs : j.incident \notin S}
    /\ lost' = lost \ S

PurgeIncident(i) ==
    /\ phase = "idle"
    /\ incident[i].status = "resolved"
    /\ Retired({i})
    /\ UNCHANGED <<life, config, state, adminVars, editor, passVars, faults>>

PurgeRule(r) ==
    /\ phase = "idle"
    /\ life[r] = "deleted"
    /\ \A e \in Editor : editor[e].rule # r
    /\ life' = [life EXCEPT ![r] = "absent"]
    /\ config' = [config EXCEPT ![r] = None]
    /\ state' = [state EXCEPT ![r] = NormalState]
    /\ Retired({i \in Incident : incident[i].rule = r})
    /\ UNCHANGED <<adminVars, editor, passVars, faults>>

-----------------------------------------------------------------------------

Administration ==
    \/ \E r \in Rule, c \in RuleInput : CreateRule(r, c)
    \/ \E e \in Editor, r \in Rule : ReadForUpdate(e, r)
    \/ \E e \in Editor, c \in RuleInput : CommitUpdate(e, c)
    \/ \E e \in Editor : AbandonUpdate(e)
    \/ \E r \in Rule : DeleteRule(r)
    \/ \E i \in Incident : Acknowledge(i)
    \/ \E r \in Rule : ToggleSuppression(r)
    \/ \E d \in Destination : ToggleRoute(d)
    \/ \E x \in Expr, v \in {"breached", "clear", "missing"} : Observe(x, v)

Evaluation ==
    \/ BeginPass
    \/ \E r \in Rule : EvaluateRule(r)
    \/ EndPass
    \/ DispatchWithheld
    \/ DispatchStarts
    \/ \E t \in Target : Enqueue(t)

Failure == EnqueueFails \/ PassFails \/ Crash

Retention == (\E i \in Incident : PurgeIncident(i)) \/ (\E r \in Rule : PurgeRule(r))

Next == Administration \/ Evaluation \/ Failure \/ Retention

Spec == Init /\ [][Next]_vars

\* The evaluator is one goroutine driven by a ticker and it has no guard it
\* could wait on for ever; retention runs hourly.  Nothing is asked of
\* administrators, of the collectors or of faults.
FairSpec ==
    /\ Spec
    /\ WF_vars(Evaluation)
    /\ \A i \in Incident : WF_vars(PurgeIncident(i))

-----------------------------------------------------------------------------
(* Properties.                                                               *)

IsActive(i) == incident[i].status \in {"firing", "acknowledged"}

\* The stored state of a rule and its incidents agree whatever the order of
\* evaluations, acknowledgements, updates and deletions: a rule is firing or
\* acknowledged exactly when it has an active incident in that status
\* (evaluateRule, acknowledgeAlertIncident, updateAlertRule, deleteAlertRule
\* each write both tables).
StateIncidentAgreement ==
    \A r \in Rule :
        /\ state[r].status \in {"firing", "acknowledged"} =>
              \E i \in Incident : incident[i].rule = r /\ incident[i].status = state[r].status
        /\ \A i \in Incident : incident[i].rule = r /\ IsActive(i) =>
              incident[i].status = state[r].status

\* A rule never has two active incidents, so that the unique partial index
\* alert_incidents_active_rule_idx never makes an evaluation fail.
OneActiveIncident ==
    \A i, j \in Incident :
        IsActive(i) /\ IsActive(j) /\ incident[i].rule = incident[j].rule => i = j

\* last_notification_at tells the truth: an unacknowledged incident whose rule
\* says it was notified has at least one durable job, is being dispatched right
\* now, or lost its notification to a crash or a read error between the commit
\* of evaluateRule and the inserts.  Suppression, missing targets and failed
\* inserts must clear the timestamp.
NotifiedMeansEnqueued ==
    \A i \in Incident :
        LET r == incident[i].rule
        IN  incident[i].status = "firing" /\ state[r].notified # None =>
                \/ \E j \in jobs : j.incident = i
                \/ note.incident = i
                \/ i \in lost

\* Acknowledging an incident silences it: from then on no evaluation decides a
\* firing or repeat notification for it, only its resolution.
AcknowledgementSilences ==
    [][\A i \in Incident :
          incident[i].status = "acknowledged" /\ note' # note /\ note'.incident = i
              => note'.event = "resolved"]_vars

\* A receiver is told that an incident is over only when it is over and was not
\* reopened under the same id.
ResolvedNoticeIsTrue ==
    \A j \in jobs : j.event = "resolved" => incident[j.incident].status = "resolved"

Deliverable(r) ==
    /\ life[r] = "live"
    /\ Breaches(config[r], obs[config[r].expr])
    /\ r \notin suppressed
    /\ Targets(config[r]) # {}

\* A firing incident that could be delivered does not stay unannounced for
\* ever: an insert that failed, a silence that ended, a route added later or a
\* crash before the inserts is made up for by a later pass (at the latest when
\* the cooldown is over).
FiringIsAnnounced ==
    \A i \in Incident :
        []<>~(/\ incident[i].status = "firing"
              /\ Deliverable(incident[i].rule)
              /\ \A j \in jobs : j.incident # i)

\* An incident of a live rule does not outlive its condition: while the rule is
\* disabled or its current expression is clear, some pass resolves it, even if
\* the incident was opened by a pass that still used the rule's old contents.
RecoveryResolves ==
    \A i \in Incident :
        []<>~(/\ IsActive(i)
              /\ life[incident[i].rule] = "live"
              /\ LET c == config[incident[i].rule] IN Recovers(c, obs[c.expr]))

\* The row was changed by another update after this one had read it.
Overtaken(e) == editor[e].current.expr # config[editor[e].rule].expr

\* alerts.go:719 "A changed expression starts a fresh for-duration window": the
\* step that changes the expression of a live rule resets its state, however
\* updates, evaluations and acknowledgements cross.  The comparison is with the row
\* as it was read, so that an update that was overtaken may change back unnoticed.
ChangedExpressionResets ==
    [][\A r \in Rule :
          life[r] = "live" /\ life'[r] = "live" /\ config'[r].expr # config[r].expr
              => \/ state'[r].status = "normal"
                 \/ \E e \in Editor :
                       editor[e].rule = r /\ editor'[e] = NoEdit /\ Overtaken(e)]_vars
=============================================================================
