----------------------------- MODULE QualityLoop -----------------------------
(***************************************************************************)
(* The quality loop of the backend (backend/app/services.py): an inspection *)
(* is received, scored by the outbox worker, routed by the policy, reviewed *)
(* by a person and, when nonconforming, followed by MES/QMS actions that    *)
(* are executed, replayed and finally closed.                               *)
(*                                                                          *)
(* What is shared is the database: every API request and every event of the *)
(* worker is one READ COMMITTED transaction of backend/app/database.py.     *)
(* What a transaction has read and not yet written is kept in handler[h] or *)
(* in worker; a commit writes the columns the ORM session found changed,    *)
(* by primary key and without looking at the row again.                     *)
(*                                                                          *)
(* One tenant is modelled: every query filters on tenant_id.  The worker is *)
(* the single one of infra/docker-compose.yml, with process_inline = False. *)
(***************************************************************************)
EXTENDS Naturals, FiniteSets

CONSTANTS
    Inspections,   \* inspections the plant may submit
    Users,         \* people holding the inspector or quality_manager role
    Managers,      \* those of them with the quality_manager role
    ClientKeys,    \* Idempotency-Key headers a client may use on an incident
    Handlers,      \* API requests that may be open at the same time
    NoOne,         \* the NULL assignee of a review task
    MaxAttempts,   \* RetryingConnectorExecutor.max_attempts
    MaxEvents      \* bound: pending outbox events of one external action

ASSUME QualityLoopAssumption ==
    /\ Managers \subseteq Users
    /\ NoOne \notin Users
    /\ MaxAttempts \in Nat \ {0}
    /\ MaxEvents \in Nat \ {0}
    /\ ClientKeys \cap {"mes:hold", "qms:create"} = {}

(***************************************************************************)
(* backend/app/domain.py.                                                   *)
(***************************************************************************)
InspectionStatus ==
    {"RECEIVED", "VALIDATED", "INFERENCING", "SCORED", "AUTO_RELEASED",
     "REVIEW_REQUIRED", "BATCH_HELD", "RELEASE_APPROVED",
     "NONCONFORMANCE_CONFIRMED", "ACTION_PENDING", "ACTION_EXECUTING",
     "ACTION_COMPLETED", "ACTION_FAILED", "VERIFYING", "CLOSED",
     "REJECTED_INPUT", "INFERENCE_FAILED", "ESCALATED"}

InspectionTransitions == [s \in InspectionStatus |->
    CASE s = "RECEIVED"                   -> {"VALIDATED", "REJECTED_INPUT"}
      [] s = "VALIDATED"                  -> {"INFERENCING"}
      [] s = "INFERENCING"                -> {"SCORED", "INFERENCE_FAILED"}
      [] s = "INFERENCE_FAILED"           -> {"REVIEW_REQUIRED"}
      [] s = "SCORED"                     -> {"AUTO_RELEASED", "REVIEW_REQUIRED", "BATCH_HELD"}
      [] s \in {"REVIEW_REQUIRED", "BATCH_HELD"} ->
             {"RELEASE_APPROVED", "NONCONFORMANCE_CONFIRMED", "ESCALATED"}
      [] s \in {"NONCONFORMANCE_CONFIRMED", "ACTION_FAILED"} -> {"ACTION_PENDING"}
      [] s = "ACTION_PENDING"             -> {"ACTION_EXECUTING"}
      [] s = "ACTION_EXECUTING"           -> {"ACTION_COMPLETED", "ACTION_FAILED"}
      [] s = "ACTION_COMPLETED"           -> {"VERIFYING", "CLOSED"}
      [] s = "VERIFYING"                  -> {"CLOSED", "ESCALATED"}
      [] s = "ESCALATED"                  -> {"REVIEW_REQUIRED", "BATCH_HELD"}
      [] OTHER                            -> {}]

Terminal == {s \in InspectionStatus : InspectionTransitions[s] = {}}

\* REWORK, SCRAP and INVESTIGATE differ only in the text of the ticket.
HighRisk     == {"NONCONFORMING"}
ReviewChoice == HighRisk \cup {"GOOD", "UNABLE_TO_DETERMINE"}
ActionStatus == {"PENDING", "SUCCEEDED", "FAILED", "MANUAL_REVIEW"}
Recoverable  == {"FAILED", "MANUAL_REVIEW"}

\* Rows that do not exist yet.
Absent == "absent"

(***************************************************************************)
(* External actions are identified by their idempotency key: the two that   *)
(* _create_incident derives from the incident, and the client's.            *)
(***************************************************************************)
Automatic == {"mes:hold", "qms:create"}
Keys      == Inspections \X (Automatic \cup ClientKeys)
KeysOf(i) == {i} \X (Automatic \cup ClientKeys)

VARIABLES
    inspection,   \* inspections.status
    evidence,     \* which inference evidence was stored with the inspection
    inference,    \* inspections with a PENDING inspection.inference_requested event
    task,         \* review_tasks
    claims,       \* review.claimed rows of the audit log
    decisions,    \* review_decisions
    incident,     \* quality_incidents.status
    action,       \* external_actions.status, by idempotency key
    events,       \* number of PENDING external_action.requested events, by key
    external,     \* keys for which MES or QMS holds a record
    worker,       \* the open transaction of the outbox worker
    handler       \* the open transaction of each API request

vars == <<inspection, evidence, inference, task, claims, decisions, incident,
          action, events, external, worker, handler>>

reviewVars == <<evidence, inference, task, claims, decisions>>

-----------------------------------------------------------------------------
IncidentStatus == {"ACTION_PENDING", "ACTION_EXECUTING", "ACTION_COMPLETED",
                   "ACTION_FAILED", "CLOSED"}

Task == [status : {Absent, "OPEN", "COMPLETED"}, assignee : Users \cup {NoOne},
         version : Nat]

NoTask == [status |-> Absent, assignee |-> NoOne, version |-> 0]

Decision == [actor : Users, choice : ReviewChoice, version : Nat]

Idle == [op |-> "idle"]

WorkerTransaction ==
         {Idle}
    \cup [op : {"infer"}, ins : Inspections]
    \cup [op : {"skip"}, key : Keys]
    \cup [op : {"call"}, key : Keys, seen : InspectionStatus \cup {Absent},
          seenIncident : IncidentStatus \cup {Absent}, attempts : 0..(MaxAttempts - 1)]
    \cup [op : {"settle"}, key : Keys, seen : InspectionStatus \cup {Absent},
          seenIncident : IncidentStatus \cup {Absent}, result : ActionStatus \ {"PENDING"}]

HandlerTransaction ==
         {Idle}
    \cup [op : {"decide"}, ins : Inspections, user : Users, choice : ReviewChoice,
          version : Nat]
    \cup [op : {"request"}, key : Keys]
    \cup [op : {"replay"}, key : Keys, seen : InspectionStatus \cup {Absent},
          seenIncident : IncidentStatus \cup {Absent}]
    \cup [op : {"close"}, ins : Inspections, seenIncident : IncidentStatus \cup {Absent}]

TypeOK ==
    /\ inspection \in [Inspections -> InspectionStatus \cup {Absent}]
    /\ evidence \in [Inspections -> {"none", "scored", "unavailable"}]
    /\ inference \subseteq Inspections
    /\ task \in [Inspections -> Task]
    /\ claims \in [Inspections -> SUBSET Users]
    /\ decisions \in [Inspections -> SUBSET Decision]
    /\ incident \in [Inspections -> IncidentStatus \cup {Absent}]
    /\ action \in [Keys -> ActionStatus \cup {Absent}]
    /\ events \in [Keys -> Nat]
    /\ external \subseteq Keys
    /\ worker \in WorkerTransaction
    /\ handler \in [Handlers -> HandlerTransaction]

Init ==
    /\ inspection = [i \in Inspections |-> Absent]
    /\ evidence = [i \in Inspections |-> "none"]
    /\ inference = {}
    /\ task = [i \in Inspections |-> NoTask]
    /\ claims = [i \in Inspections |-> {}]
    /\ decisions = [i \in Inspections |-> {}]
    /\ incident = [i \in Inspections |-> Absent]
    /\ action = [k \in Keys |-> Absent]
    /\ events = [k \in Keys |-> 0]
    /\ external = {}
    /\ worker = Idle
    /\ handler = [h \in Handlers |-> Idle]

-----------------------------------------------------------------------------
(***************************************************************************)
(* Intake: create_inspection, in worker mode.  The inspection becomes       *)
(* visible as VALIDATED together with its outbox event.                     *)
(***************************************************************************)
CreateInspection(i) ==
    /\ inspection[i] = Absent
    /\ inspection' = [inspection EXCEPT ![i] = "VALIDATED"]
    /\ inference' = inference \cup {i}
    /\ UNCHANGED <<evidence, task, claims, decisions, incident, action, events,
                   external, worker, handler>>

(***************************************************************************)
(* The worker: process_one_outbox picks a PENDING event under a row lock,   *)
(* handles it and commits.  Between the two, other transactions commit.     *)
(* The order of the picks is left open here; OutboxWorkers has it.          *)
(***************************************************************************)
TakeInference(i) ==
    /\ worker = Idle
    /\ i \in inference
    /\ inspection[i] = "VALIDATED"
    /\ worker' = [op |-> "infer", ins |-> i]
    /\ UNCHANGED <<inspection, reviewVars, incident, action, events, external, handler>>

\* _ensure_review_task
EnsureReviewTask(i) ==
    IF task[i].status = Absent
    THEN task' = [task EXCEPT ![i] = [status |-> "OPEN", assignee |-> NoOne, version |-> 1]]
    ELSE UNCHANGED task

\* Variant: infer() raised and the product passes.
InferenceUnavailableFailsOpen(i) ==
    /\ inspection' = [inspection EXCEPT ![i] = "AUTO_RELEASED"]
    /\ evidence' = [evidence EXCEPT ![i] = "unavailable"]
    /\ UNCHANGED task

\* Variant: the second transition of the fail-safe path is missing.
InferenceUnavailableStops(i) ==
    /\ inspection' = [inspection EXCEPT ![i] = "INFERENCE_FAILED"]
    /\ evidence' = [evidence EXCEPT ![i] = "unavailable"]
    /\ EnsureReviewTask(i)

\* The path of process_inference on which infer() raised: fail-safe routing.
InferenceUnavailable(i) ==
    /\ inspection' = [inspection EXCEPT ![i] = "REVIEW_REQUIRED"]
    /\ evidence' = [evidence EXCEPT ![i] = "unavailable"]
    /\ EnsureReviewTask(i)

\* The path on which the policy routed a score to `target`.
InferenceScored(i, target) ==
    /\ inspection' = [inspection EXCEPT ![i] = target]
    /\ evidence' = [evidence EXCEPT ![i] = "scored"]
    /\ IF target = "AUTO_RELEASED" THEN UNCHANGED task ELSE EnsureReviewTask(i)

FinishInference ==
    /\ worker.op = "infer"
    /\ LET i == worker.ins IN
       /\ \/ InferenceUnavailable(i)
          \/ \E target \in InspectionTransitions["SCORED"] : InferenceScored(i, target)
       /\ inference' = inference \ {i}
    /\ worker' = Idle
    /\ UNCHANGED <<claims, decisions, incident, action, events, external, handler>>

\* The rows an external-action event makes the worker read.
TakeAction(k) ==
    /\ worker = Idle
    /\ events[k] > 0
    /\ worker' = IF action[k] = "PENDING"
                 THEN [op |-> "call", key |-> k, seen |-> inspection[k[1]],
                       seenIncident |-> incident[k[1]], attempts |-> 0]
                 ELSE [op |-> "skip", key |-> k]
    /\ UNCHANGED <<inspection, reviewVars, incident, action, events, external, handler>>

\* Variant: all events of the action are consumed with the one that was read.
SkipEventsOfAction ==
    /\ worker.op = "skip"
    /\ events' = [events EXCEPT ![worker.key] = 0]
    /\ worker' = Idle
    /\ UNCHANGED <<inspection, reviewVars, incident, action, external, handler>>

\* The action was no longer PENDING when it was read: only the event is consumed.
SkipEvent ==
    /\ worker.op = "skip"
    /\ events' = [events EXCEPT ![worker.key] = @ - 1]
    /\ worker' = Idle
    /\ UNCHANGED <<inspection, reviewVars, incident, action, external, handler>>

Settling(result) ==
    [op |-> "settle", key |-> worker.key, seen |-> worker.seen,
     seenIncident |-> worker.seenIncident, result |-> result]

(***************************************************************************)
(* One attempt of RetryingConnectorExecutor.execute.  The remote system may *)
(* have recorded the key even when no answer arrives; it records a key once.*)
(***************************************************************************)
ConnectorSucceeds ==
    /\ worker.op = "call"
    /\ external' = external \cup {worker.key}
    /\ worker' = Settling("SUCCEEDED")
    /\ UNCHANGED <<inspection, reviewVars, incident, action, events, handler>>

\* Variant: one attempt too many.
ConnectorUnansweredOnceMore ==
    /\ worker.op = "call"
    /\ external' \in {external, external \cup {worker.key}}
    /\ worker' = IF worker.attempts = MaxAttempts
                 THEN Settling("FAILED")
                 ELSE [worker EXCEPT !.attempts = @ + 1]
    /\ UNCHANGED <<inspection, reviewVars, incident, action, events, handler>>

ConnectorUnanswered ==
    /\ worker.op = "call"
    /\ external' \in {external, external \cup {worker.key}}
    /\ worker' = IF worker.attempts + 1 = MaxAttempts
                 THEN Settling("FAILED")
                 ELSE [worker EXCEPT !.attempts = @ + 1]
    /\ UNCHANGED <<inspection, reviewVars, incident, action, events, handler>>

ConnectorRefuses ==
    /\ worker.op = "call"
    /\ \E result \in Recoverable : worker' = Settling(result)
    /\ UNCHANGED <<inspection, reviewVars, incident, action, events, external, handler>>

(***************************************************************************)
(* The rest of _execute_external_action.  `seen` is the ORM session's copy  *)
(* of inspections.status and quality_incidents.status; external_actions is  *)
(* read again after the flush.  A column whose value equals the copy is not *)
(* written.                                                                 *)
(***************************************************************************)
Statuses(acts, i) == {acts[k] : k \in KeysOf(i)} \ {Absent}

\* Variant: an action left for manual review is not a failure.
SummaryOfFailures(statuses, other) ==
    IF statuses \subseteq {"SUCCEEDED"} THEN "ACTION_COMPLETED"
    ELSE IF "FAILED" \in statuses THEN "ACTION_FAILED"
    ELSE other

Summary(statuses, other) ==
    IF statuses \subseteq {"SUCCEEDED"} THEN "ACTION_COMPLETED"
    ELSE IF statuses \cap Recoverable # {} THEN "ACTION_FAILED"
    ELSE other

SettleAction(consumed) ==
    LET k        == worker.key
        i        == k[1]
        after    == [action EXCEPT ![k] = worker.result]
        started  == worker.seen = "ACTION_PENDING"
        running  == IF started THEN "ACTION_EXECUTING" ELSE worker.seen
        flushed  == IF started THEN "ACTION_EXECUTING" ELSE worker.seenIncident
        final    == IF running = "ACTION_EXECUTING"
                    THEN Summary(Statuses(after, i), running) ELSE running
        finalIncident == Summary(Statuses(after, i), flushed)
    IN
    /\ worker.op = "settle"
    /\ consumed \in 1..events[k]
    /\ action' = after
    /\ events' = [events EXCEPT ![k] = @ - consumed]
    /\ inspection' = IF final = worker.seen
                     THEN inspection ELSE [inspection EXCEPT ![i] = final]
    /\ incident' = IF flushed = worker.seenIncident /\ finalIncident = flushed
                   THEN incident ELSE [incident EXCEPT ![i] = finalIncident]
    /\ worker' = Idle
    /\ UNCHANGED <<reviewVars, external, handler>>

\* An exception that leaves process_one_outbox, or the end of the process: the
\* transaction is rolled back, what the connector did stays done.
WorkerRollback ==
    /\ worker # Idle
    /\ worker' = Idle
    /\ UNCHANGED <<inspection, reviewVars, incident, action, events, external, handler>>

Worker ==
    \/ \E i \in Inspections : TakeInference(i)
    \/ FinishInference
    \/ \E k \in Keys : TakeAction(k)
    \/ SkipEvent
    \/ ConnectorSucceeds
    \/ ConnectorUnanswered
    \/ ConnectorRefuses
    \/ \E consumed \in 1..2 : SettleAction(consumed)
    \/ WorkerRollback

-----------------------------------------------------------------------------
(***************************************************************************)
(* Review.  claim_review is one conditional UPDATE.  decide_review reads    *)
(* the assignee first and updates under the version afterwards; a request   *)
(* carries a version its sender was shown, so never a later one.            *)
(***************************************************************************)
ClaimReview(i, u) ==
    /\ task[i].status = "OPEN"
    /\ task[i].assignee = NoOne
    /\ task' = [task EXCEPT ![i].assignee = u, ![i].version = @ + 1]
    /\ claims' = [claims EXCEPT ![i] = @ \cup {u}]
    /\ UNCHANGED <<inspection, evidence, inference, decisions, incident, action,
                   events, external, worker, handler>>

\* Variant: the role is not looked at.
DecideReadByAnyone(h, i, u, choice) ==
    /\ handler[h] = Idle
    /\ task[i].status # Absent
    /\ task[i].assignee \in {NoOne, u}
    /\ \E version \in 1..task[i].version :
          handler' = [handler EXCEPT ![h] = [op |-> "decide", ins |-> i, user |-> u,
                                             choice |-> choice, version |-> version]]
    /\ UNCHANGED <<inspection, reviewVars, incident, action, events, external, worker>>

DecideRead(h, i, u, choice) ==
    /\ handler[h] = Idle
    /\ task[i].status # Absent
    /\ task[i].assignee \in {NoOne, u}
    /\ choice \in HighRisk => u \in Managers
    /\ \E version \in 1..task[i].version :
          handler' = [handler EXCEPT ![h] = [op |-> "decide", ins |-> i, user |-> u,
                                             choice |-> choice, version |-> version]]
    /\ UNCHANGED <<inspection, reviewVars, incident, action, events, external, worker>>

\* Variant: the version is not compared.
CompleteReviewUnversioned(i, u, choice, version) ==
    /\ task[i].status = "OPEN"
    /\ task' = [task EXCEPT ![i] = [status |-> "COMPLETED", assignee |-> u,
                                    version |-> @.version + 1]]
    /\ decisions' = [decisions EXCEPT ![i] =
                        @ \cup {[actor |-> u, choice |-> choice, version |-> version]}]

\* Variant: the task stays open.
CompleteReviewReopens(i, u, choice, version) ==
    /\ task[i].status = "OPEN"
    /\ task[i].version = version
    /\ task' = [task EXCEPT ![i].assignee = u, ![i].version = version + 1]
    /\ decisions' = [decisions EXCEPT ![i] =
                        @ \cup {[actor |-> u, choice |-> choice, version |-> version]}]

\* The compare-and-set of decide_review and the review_decisions row.
CompleteReview(i, u, choice, version) ==
    /\ task[i].status = "OPEN"
    /\ task[i].version = version
    /\ task' = [task EXCEPT ![i] = [status |-> "COMPLETED", assignee |-> u,
                                    version |-> version + 1]]
    /\ decisions' = [decisions EXCEPT ![i] =
                        @ \cup {[actor |-> u, choice |-> choice, version |-> version]}]

\* _create_incident with its two external actions and their outbox events.
CreateIncident(i) ==
    LET automatic == {i} \X Automatic IN
    /\ incident[i] = Absent
    /\ incident' = [incident EXCEPT ![i] = "ACTION_PENDING"]
    /\ action' = [k \in Keys |-> IF k \in automatic THEN "PENDING" ELSE action[k]]
    /\ events' = [k \in Keys |-> IF k \in automatic THEN events[k] + 1 ELSE events[k]]

Disposition(choice) ==
    CASE choice = "GOOD"                -> "RELEASE_APPROVED"
      [] choice = "UNABLE_TO_DETERMINE" -> "ESCALATED"
      [] OTHER                          -> "NONCONFORMANCE_CONFIRMED"

DecideCommit(h) ==
    /\ handler[h].op = "decide"
    /\ LET i == handler[h].ins  choice == handler[h].choice IN
       /\ CompleteReview(i, handler[h].user, choice, handler[h].version)
       /\ Disposition(choice) \in InspectionTransitions[inspection[i]]
       /\ IF choice \in HighRisk
          THEN /\ CreateIncident(i)
               /\ inspection' = [inspection EXCEPT ![i] = "ACTION_PENDING"]
          ELSE /\ inspection' = [inspection EXCEPT ![i] = Disposition(choice)]
               /\ UNCHANGED <<incident, action, events>>
    /\ handler' = [handler EXCEPT ![h] = Idle]
    /\ UNCHANGED <<evidence, inference, claims, external, worker>>

(***************************************************************************)
(* Further actions, replay and closure: each handler reads its rows first   *)
(* and commits later.                                                       *)
(***************************************************************************)
Exists(i) == incident[i] # Absent

RequestRead(h, k) ==
    /\ handler[h] = Idle
    /\ Exists(k[1])
    /\ k[2] \in ClientKeys
    /\ action[k] = Absent
    /\ handler' = [handler EXCEPT ![h] = [op |-> "request", key |-> k]]
    /\ UNCHANGED <<inspection, reviewVars, incident, action, events, external, worker>>

\* uq_external_idempotency refuses the row when another request inserted the key.
RequestCommit(h) ==
    /\ handler[h].op = "request"
    /\ LET k == handler[h].key IN
       /\ action[k] = Absent
       /\ action' = [action EXCEPT ![k] = "PENDING"]
       /\ events' = [events EXCEPT ![k] = @ + 1]
    /\ handler' = [handler EXCEPT ![h] = Idle]
    /\ UNCHANGED <<inspection, reviewVars, incident, external, worker>>

ReplayRead(h, k) ==
    /\ handler[h] = Idle
    /\ action[k] \in Recoverable
    /\ handler' = [handler EXCEPT ![h] = [op |-> "replay", key |-> k,
                       seen |-> inspection[k[1]], seenIncident |-> incident[k[1]]]]
    /\ UNCHANGED <<inspection, reviewVars, incident, action, events, external, worker>>

\* Variant: the inspection is moved whatever its status.
ReplayCommitReopens(h) ==
    /\ handler[h].op = "replay"
    /\ LET k == handler[h].key IN
       /\ events[k] < MaxEvents
       /\ action' = [action EXCEPT ![k] = "PENDING"]
       /\ events' = [events EXCEPT ![k] = @ + 1]
       /\ inspection' = [inspection EXCEPT ![k[1]] = "ACTION_PENDING"]
       /\ incident' = [incident EXCEPT ![k[1]] = "ACTION_PENDING"]
    /\ handler' = [handler EXCEPT ![h] = Idle]
    /\ UNCHANGED <<reviewVars, external, worker>>

\* The guard on MaxEvents bounds the model, not the code.
ReplayCommit(h) ==
    /\ handler[h].op = "replay"
    /\ LET k == handler[h].key  i == k[1] IN
       /\ events[k] < MaxEvents
       /\ action' = [action EXCEPT ![k] = "PENDING"]
       /\ events' = [events EXCEPT ![k] = @ + 1]
       /\ inspection' = IF handler[h].seen = "ACTION_FAILED"
                        THEN [inspection EXCEPT ![i] = "ACTION_PENDING"] ELSE inspection
       /\ incident' = IF handler[h].seenIncident # "ACTION_PENDING"
                      THEN [incident EXCEPT ![i] = "ACTION_PENDING"] ELSE incident
    /\ handler' = [handler EXCEPT ![h] = Idle]
    /\ UNCHANGED <<reviewVars, external, worker>>

CloseRead(h, i) ==
    /\ handler[h] = Idle
    /\ Exists(i)
    /\ Statuses(action, i) = {"SUCCEEDED"}
    /\ inspection[i] = "ACTION_COMPLETED"
    /\ handler' = [handler EXCEPT ![h] = [op |-> "close", ins |-> i,
                                          seenIncident |-> incident[i]]]
    /\ UNCHANGED <<inspection, reviewVars, incident, action, events, external, worker>>

\* ACTION_COMPLETED -> VERIFYING -> CLOSED in one flush.
CloseCommit(h) ==
    /\ handler[h].op = "close"
    /\ LET i == handler[h].ins IN
       /\ inspection' = [inspection EXCEPT ![i] = "CLOSED"]
       /\ incident' = IF handler[h].seenIncident # "CLOSED"
                      THEN [incident EXCEPT ![i] = "CLOSED"] ELSE incident
    /\ handler' = [handler EXCEPT ![h] = Idle]
    /\ UNCHANGED <<reviewVars, action, events, external, worker>>

\* A conflict, a disconnected client or the end of the process: rollback.
HandlerRollback(h) ==
    /\ handler[h] # Idle
    /\ handler' = [handler EXCEPT ![h] = Idle]
    /\ UNCHANGED <<inspection, reviewVars, incident, action, events, external, worker>>

Api(h) ==
    \/ \E i \in Inspections, u \in Users, choice \in ReviewChoice : DecideRead(h, i, u, choice)
    \/ DecideCommit(h)
    \/ \E k \in Keys : RequestRead(h, k) \/ ReplayRead(h, k)
    \/ RequestCommit(h)
    \/ ReplayCommit(h)
    \/ \E i \in Inspections : CloseRead(h, i)
    \/ CloseCommit(h)
    \/ HandlerRollback(h)

Next ==
    \/ \E i \in Inspections : CreateInspection(i)
    \/ \E i \in Inspections, u \in Users : ClaimReview(i, u)
    \/ Worker
    \/ \E h \in Handlers : Api(h)

Spec == Init /\ [][Next]_vars

-----------------------------------------------------------------------------
(***************************************************************************)
(* Safety under any interleaving.                                           *)
(***************************************************************************)

\* A record in MES or QMS exists only for an inspection that a quality manager
\* has judged nonconforming: neither the model's score, nor the policy, nor an
\* inspector's decision reaches an external system, whatever the worker, the
\* replays and the requests in flight do (docs/decisions/003-connector-boundary.md).
EffectNeedsManager ==
    \A k \in external :
        \E d \in decisions[k[1]] : d.actor \in Managers /\ d.choice \in HighRisk

\* However many decisions race on a review task, one is recorded, and the task
\* is COMPLETED exactly when it is (decide_review's compare-and-set).
DecidedOnce ==
    \A i \in Inspections :
        /\ \A d, e \in decisions[i] : d = e
        /\ task[i].status = "COMPLETED" <=> decisions[i] # {}

\* Whoever claimed a review task is the one who decided it, although
\* decide_review looks at the assignee in a read of its own before the update.
ClaimIsExclusive ==
    \A i \in Inspections :
        /\ \A u, v \in claims[i] : u = v
        /\ \A d \in decisions[i] : claims[i] \subseteq {d.actor}

\* A product is let go either by the policy on stored score evidence that no
\* person was asked about, or by a named GOOD decision; no incident and no
\* external action exists for it.
ReleaseIsFounded ==
    \A i \in Inspections :
        /\ inspection[i] = "AUTO_RELEASED" => evidence[i] = "scored" /\ task[i] = NoTask
        /\ inspection[i] = "RELEASE_APPROVED" => \E d \in decisions[i] : d.choice = "GOOD"
        /\ inspection[i] \in {"AUTO_RELEASED", "RELEASE_APPROVED", "ESCALATED"} =>
              incident[i] = Absent /\ \A k \in KeysOf(i) : action[k] = Absent

\* No external action is forgotten: while it is PENDING there is an outbox event
\* that will bring the worker to it, also when a replay commits while the worker
\* holds or drops an older event of the same action.
PendingHasEvent == \A k \in Keys : action[k] = "PENDING" => events[k] > 0

\* An inspection that says its actions are under way has one that is: nobody
\* waits on work the worker will never see.  It holds while API requests come one
\* at a time, beside the worker.
StatusHasCause ==
    \A i \in Inspections :
        inspection[i] \in {"ACTION_PENDING", "ACTION_EXECUTING"} => "PENDING" \in Statuses(action, i)

\* The way out of a failed action stays open: once every action of an incident
\* has succeeded and nothing is in flight, the inspection can be closed or is
\* (backend/tests/test_e2e.py, test_connector_final_failure_remains_recoverable:
\* a replay that succeeds ends in ACTION_COMPLETED).
RecoveryCompletes ==
    \A i \in Inspections :
        /\ incident[i] # Absent
        /\ Statuses(action, i) = {"SUCCEEDED"}
        /\ worker = Idle
        /\ \A h \in Handlers : handler[h] = Idle
        => inspection[i] \in {"ACTION_COMPLETED", "CLOSED"}

(***************************************************************************)
(* What the transition table promises.  One API request at a time keeps it, *)
(* beside the worker; two requests do not.                                  *)
(***************************************************************************)

\* No transaction moves an inspection out of a status that the transition table
\* of domain.py gives no successor.
TerminalIsFinal ==
    [][\A i \in Inspections :
          inspection[i] \in Terminal => inspection'[i] = inspection[i]]_inspection

-----------------------------------------------------------------------------
(***************************************************************************)
(* The loop implements HumanGate.                                           *)
(***************************************************************************)
InReview == {"REVIEW_REQUIRED", "BATCH_HELD"}
Acting   == {"ACTION_PENDING", "ACTION_EXECUTING", "ACTION_COMPLETED", "ACTION_FAILED", "CLOSED"}

PhaseOf(s) ==
    CASE s = Absent                                   -> "none"
      [] s = "VALIDATED"                              -> "machine"
      [] s \in InReview                               -> "people"
      [] s \in {"AUTO_RELEASED", "RELEASE_APPROVED"}  -> "released"
      [] s = "ESCALATED"                              -> "escalated"
      [] OTHER                                        -> "disposition"

AuthorityOf(ds, s) ==
    IF ds # {} THEN (CHOOSE d \in ds : TRUE).actor
    ELSE IF s = "AUTO_RELEASED" THEN "policy" ELSE "nobody"

Gate == INSTANCE HumanGate WITH
    Effects   <- Keys,
    Policy    <- "policy",
    Nobody    <- "nobody",
    phase     <- [i \in Inspections |-> PhaseOf(inspection[i])],
    authority <- [i \in Inspections |-> AuthorityOf(decisions[i], inspection[i])],
    effects   <- external

\* Every step of the loop is a step of HumanGate or leaves phase, authority and
\* effects alone: status changes of the worker, replays, closures and rollbacks
\* never create, move or withdraw a decision.
ImplementsHumanGate == Gate!Spec

-----------------------------------------------------------------------------
(***************************************************************************)
(* The inductive invariant behind the safety properties.                    *)
(***************************************************************************)

\* How far the review and the incident of an inspection have got, by its status.
ReviewMatchesStatus ==
    \A i \in Inspections :
        /\ i \in inference <=> inspection[i] = "VALIDATED"
        /\ inspection[i] \in {Absent, "VALIDATED", "AUTO_RELEASED"} <=> task[i].status = Absent
        /\ inspection[i] \in InReview <=> task[i].status = "OPEN"
        /\ inspection[i] \in {"RELEASE_APPROVED", "ESCALATED"} \cup Acting
              <=> task[i].status = "COMPLETED"
        /\ task[i].status = Absent => task[i] = NoTask /\ claims[i] = {}
        /\ inspection[i] = "AUTO_RELEASED" => evidence[i] = "scored"
        /\ inspection[i] = "RELEASE_APPROVED" => \E d \in decisions[i] : d.choice = "GOOD"
        /\ inspection[i] \in Acting <=> incident[i] # Absent
        /\ inspection[i] \in Acting =>
              \E d \in decisions[i] : d.actor \in Managers /\ d.choice \in HighRisk

\* The claim recorded for an open task is its assignee.
ClaimMatchesTask ==
    \A i \in Inspections :
        task[i].status = "OPEN" =>
            claims[i] = IF task[i].assignee = NoOne THEN {} ELSE {task[i].assignee}

ActionsMatchIncident ==
    /\ \A k \in Keys : action[k] # Absent => incident[k[1]] # Absent
    /\ \A k \in Keys : events[k] > 0 => action[k] # Absent
    /\ \A k \in external : incident[k[1]] # Absent

\* What the worker's open transaction may still rely on.
WorkerIsCurrent ==
    /\ worker.op = "infer" => inspection[worker.ins] = "VALIDATED"
    /\ worker.op \in {"skip", "call", "settle"} =>
          action[worker.key] # Absent /\ events[worker.key] > 0
    /\ worker.op = "skip" /\ action[worker.key] = "PENDING" => events[worker.key] > 1
    /\ worker.op \in {"call", "settle"} => worker.seen \in Acting /\ worker.seenIncident # Absent

\* What an open API request may still rely on.
HandlerIsCurrent ==
    \A h \in Handlers :
        /\ handler[h].op = "decide" =>
              LET i == handler[h].ins  u == handler[h].user IN
              /\ handler[h].choice \in HighRisk => u \in Managers
              /\ handler[h].version <= task[i].version
              /\ task[i].status = "OPEN" /\ handler[h].version = task[i].version =>
                    task[i].assignee \in {NoOne, u}
        /\ handler[h].op \in {"request", "replay"} => incident[handler[h].key[1]] # Absent
        /\ handler[h].op = "replay" => action[handler[h].key] # Absent
        /\ handler[h].op = "close" => incident[handler[h].ins] # Absent

LoopInvariant ==
    /\ TypeOK
    /\ DecidedOnce
    /\ ClaimIsExclusive
    /\ PendingHasEvent
    /\ ReviewMatchesStatus
    /\ ClaimMatchesTask
    /\ ActionsMatchIncident
    /\ WorkerIsCurrent
    /\ HandlerIsCurrent

=============================================================================
