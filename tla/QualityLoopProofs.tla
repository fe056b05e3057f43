-------------------------- MODULE QualityLoopProofs --------------------------
(***************************************************************************)
(* LoopInvariant is an inductive invariant of QualityLoop, for any number   *)
(* of inspections, people, keys and open requests, and the safety           *)
(* properties follow from it.                                               *)
(***************************************************************************)
EXTENDS QualityLoop, TLAPS

-----------------------------------------------------------------------------
(***************************************************************************)
(* The record an open transaction is, by the operation it names.            *)
(***************************************************************************)
\* What TypeOK says of the worker's transaction (WorkerTransaction).
LEMMA WorkerRecord ==
    ASSUME TypeOK
    PROVE  /\ worker.op \in {"idle", "infer", "skip", "call", "settle"}
           /\ worker.op = "idle" => worker = Idle
           /\ worker.op = "infer" => worker.ins \in Inspections
           /\ worker.op \in {"skip", "call", "settle"} => worker.key \in Keys
           /\ worker.op = "call" =>
                 worker \in [op : {"call"}, key : Keys, seen : InspectionStatus \cup {Absent},
                             seenIncident : IncidentStatus \cup {Absent},
                             attempts : 0..(MaxAttempts - 1)]
           /\ worker.op = "settle" =>
                 /\ worker.seen \in InspectionStatus \cup {Absent}
                 /\ worker.seenIncident \in IncidentStatus \cup {Absent}
                 /\ worker.result \in ActionStatus \ {"PENDING"}
  BY DEF TypeOK, WorkerTransaction, Idle

\* What TypeOK says of the transaction of an API request (HandlerTransaction).
LEMMA HandlerRecord ==
    ASSUME TypeOK, NEW h \in Handlers
    PROVE  /\ handler[h].op \in {"idle", "decide", "request", "replay", "close"}
           /\ handler[h].op = "decide" =>
                 /\ handler[h].ins \in Inspections
                 /\ handler[h].user \in Users
                 /\ handler[h].choice \in ReviewChoice
                 /\ handler[h].version \in Nat
           /\ handler[h].op \in {"request", "replay"} => handler[h].key \in Keys
           /\ handler[h].op = "replay" =>
                 /\ handler[h].seen \in InspectionStatus \cup {Absent}
                 /\ handler[h].seenIncident \in IncidentStatus \cup {Absent}
           /\ handler[h].op = "close" => handler[h].ins \in Inspections
  <1>1. handler[h] \in HandlerTransaction
    BY DEF TypeOK
  <1> QED
    BY <1>1 DEF HandlerTransaction, Idle

\* The initial states satisfy the invariant.
LEMMA InitInvariant == Init => LoopInvariant
  <1> SUFFICES ASSUME Init PROVE LoopInvariant
    OBVIOUS
  <1>1. TypeOK
    BY QualityLoopAssumption DEF Init, TypeOK, Task, NoTask, WorkerTransaction, HandlerTransaction
  <1>2. DecidedOnce /\ ClaimIsExclusive /\ PendingHasEvent /\ ActionsMatchIncident
    BY DEF Init, DecidedOnce, ClaimIsExclusive, PendingHasEvent, ActionsMatchIncident, NoTask,
           Absent
  <1>3. ReviewMatchesStatus /\ ClaimMatchesTask
    BY DEF Init, ReviewMatchesStatus, ClaimMatchesTask, NoTask, Absent, InReview, Acting
  <1>4. WorkerIsCurrent /\ HandlerIsCurrent
    BY DEF Init, WorkerIsCurrent, HandlerIsCurrent, Idle
  <1> QED
    BY <1>1, <1>2, <1>3, <1>4 DEF LoopInvariant

-----------------------------------------------------------------------------
\* create_inspection only adds a row and its event.
LEMMA CreateInspectionInvariant ==
    ASSUME LoopInvariant, NEW i \in Inspections, CreateInspection(i)
    PROVE  LoopInvariant'
  <1> USE DEF LoopInvariant, CreateInspection
  <1>1. TypeOK'
    BY DEF TypeOK, InspectionStatus
  <1>2. (DecidedOnce /\ ClaimIsExclusive /\ PendingHasEvent /\ ActionsMatchIncident)'
    BY DEF DecidedOnce, ClaimIsExclusive, PendingHasEvent, ActionsMatchIncident
  <1>3. (ReviewMatchesStatus /\ ClaimMatchesTask)'
    BY DEF ReviewMatchesStatus, ClaimMatchesTask, TypeOK, Absent, InReview, Acting
  <1>4. WorkerIsCurrent'
    BY WorkerRecord DEF WorkerIsCurrent, TypeOK
  <1>5. HandlerIsCurrent'
    BY DEF HandlerIsCurrent
  <1> QED
    BY <1>1, <1>2, <1>3, <1>4, <1>5

\* The worker opens a transaction on a validated inspection.
LEMMA TakeInferenceInvariant ==
    ASSUME LoopInvariant, NEW i \in Inspections, TakeInference(i)
    PROVE  LoopInvariant'
  <1> USE DEF LoopInvariant, TakeInference, reviewVars
  <1>1. TypeOK'
    BY DEF TypeOK, WorkerTransaction
  <1>2. (DecidedOnce /\ ClaimIsExclusive /\ PendingHasEvent /\ ActionsMatchIncident)'
    BY DEF DecidedOnce, ClaimIsExclusive, PendingHasEvent, ActionsMatchIncident
  <1>3. (ReviewMatchesStatus /\ ClaimMatchesTask)'
    BY DEF ReviewMatchesStatus, ClaimMatchesTask
  <1>4. WorkerIsCurrent' /\ HandlerIsCurrent'
    BY DEF WorkerIsCurrent, HandlerIsCurrent
  <1> QED
    BY <1>1, <1>2, <1>3, <1>4

\* process_inference commits: the evidence, the route and, unless the policy
\* released the product, an open review task that nobody has claimed.
LEMMA FinishInferenceInvariant ==
    ASSUME LoopInvariant, FinishInference
    PROVE  LoopInvariant'
  <1> USE DEF LoopInvariant
  <1> DEFINE i == worker.ins
  <1>1. i \in Inspections /\ worker.op = "infer" /\ inspection[i] = "VALIDATED"
    BY WorkerRecord DEF FinishInference, WorkerIsCurrent
  <1>2. /\ task[i] = NoTask /\ claims[i] = {} /\ decisions[i] = {}
        /\ incident[i] = Absent
    BY <1>1 DEF ReviewMatchesStatus, DecidedOnce, NoTask, Absent, Acting
  <1>3. PICK target \in {"AUTO_RELEASED", "REVIEW_REQUIRED", "BATCH_HELD"},
             found \in {"scored", "unavailable"} :
           /\ target = "AUTO_RELEASED" => found = "scored"
           /\ inspection' = [inspection EXCEPT ![i] = target]
           /\ evidence' = [evidence EXCEPT ![i] = found]
           /\ task' = IF target = "AUTO_RELEASED" THEN task
                      ELSE [task EXCEPT ![i] = [status |-> "OPEN", assignee |-> NoOne,
                                                version |-> 1]]
    <2>1. InspectionTransitions["SCORED"] = {"AUTO_RELEASED", "REVIEW_REQUIRED", "BATCH_HELD"}
      BY DEF InspectionTransitions, InspectionStatus
    <2>2. CASE InferenceUnavailable(i)
      BY <1>2, <2>2 DEF InferenceUnavailable, EnsureReviewTask, NoTask
    <2>3. CASE \E target \in InspectionTransitions["SCORED"] : InferenceScored(i, target)
      <3>1. PICK target \in {"AUTO_RELEASED", "REVIEW_REQUIRED", "BATCH_HELD"} :
               InferenceScored(i, target)
        BY <2>1, <2>3
      <3>2. CASE target = "AUTO_RELEASED"
        BY <3>1, <3>2 DEF InferenceScored
      <3>3. CASE target # "AUTO_RELEASED"
        <4>1. task' = [task EXCEPT ![i] = [status |-> "OPEN", assignee |-> NoOne, version |-> 1]]
          BY <1>2, <3>1, <3>3 DEF InferenceScored, EnsureReviewTask, NoTask
        <4> QED
          BY <3>1, <3>3, <4>1 DEF InferenceScored
      <3> QED
        BY <3>2, <3>3
    <2> QED
      BY <2>2, <2>3 DEF FinishInference
  <1>4. /\ inference' = inference \ {i}  /\ worker' = Idle
        /\ UNCHANGED <<claims, decisions, incident, action, events, external, handler>>
    BY DEF FinishInference
  <1>5. TypeOK'
    BY <1>1, <1>3, <1>4 DEF TypeOK, InspectionStatus, Task, WorkerTransaction
  <1>6. (DecidedOnce /\ ClaimIsExclusive /\ PendingHasEvent /\ ActionsMatchIncident)'
    BY <1>1, <1>2, <1>3, <1>4
       DEF DecidedOnce, ClaimIsExclusive, PendingHasEvent, ActionsMatchIncident, TypeOK, NoTask,
           Absent
  <1>7. ReviewMatchesStatus'
    BY <1>1, <1>2, <1>3, <1>4 DEF ReviewMatchesStatus, TypeOK, Absent, InReview, Acting, NoTask
  <1>8. ClaimMatchesTask'
    BY <1>1, <1>2, <1>3, <1>4 DEF ClaimMatchesTask, TypeOK, NoTask, Absent
  <1>9. WorkerIsCurrent'
    BY <1>4 DEF WorkerIsCurrent, Idle
  <1>10. HandlerIsCurrent'
    BY <1>1, <1>2, <1>3, <1>4, HandlerRecord DEF HandlerIsCurrent, TypeOK, NoTask, Absent
  <1> QED
    BY <1>5, <1>6, <1>7, <1>8, <1>9, <1>10

-----------------------------------------------------------------------------
(***************************************************************************)
(* Steps that change only the worker's or a request's own transaction, and  *)
(* perhaps what the external system holds, keep the parts of the invariant  *)
(* that speak of the database.                                              *)
(***************************************************************************)
Database == <<inspection, evidence, inference, task, claims, decisions, incident, action, events>>

DatabaseInvariant ==
    /\ DecidedOnce
    /\ ClaimIsExclusive
    /\ PendingHasEvent
    /\ ReviewMatchesStatus
    /\ ClaimMatchesTask

\* The database invariant depends on the database alone.
LEMMA DatabaseUnchanged ==
    ASSUME LoopInvariant, UNCHANGED Database
    PROVE  DatabaseInvariant'
  BY DEF LoopInvariant, DatabaseInvariant, Database, DecidedOnce, ClaimIsExclusive,
         PendingHasEvent, ReviewMatchesStatus, ClaimMatchesTask

\* The worker reads the rows of an external action.
LEMMA TakeActionInvariant ==
    ASSUME LoopInvariant, NEW k \in Keys, TakeAction(k)
    PROVE  LoopInvariant'
  <1> USE DEF LoopInvariant
  <1>1. UNCHANGED Database /\ UNCHANGED <<external, handler>> /\ events[k] > 0
    BY DEF TakeAction, Database, reviewVars
  <1>2. k[1] \in Inspections
    BY DEF Keys
  <1>3. TypeOK'
    <2>1. worker' \in WorkerTransaction
      <3>1. inspection[k[1]] \in InspectionStatus \cup {Absent}
            /\ incident[k[1]] \in IncidentStatus \cup {Absent}
        BY <1>2 DEF TypeOK
      <3>2. 0 \in 0..(MaxAttempts - 1)
        BY QualityLoopAssumption
      <3>3. CASE action[k] = "PENDING"
        <4>1. worker' = [op |-> "call", key |-> k, seen |-> inspection[k[1]],
                         seenIncident |-> incident[k[1]], attempts |-> 0]
          BY <3>3 DEF TakeAction
        <4> QED
          BY <3>1, <3>2, <4>1 DEF WorkerTransaction
      <3>4. CASE action[k] # "PENDING"
        BY <3>4 DEF TakeAction, WorkerTransaction
      <3> QED
        BY <3>3, <3>4
    <2> QED
      BY <1>1, <2>1 DEF TypeOK, Database
  <1>4. DatabaseInvariant'
    BY <1>1, DatabaseUnchanged
  <1>5. ActionsMatchIncident' /\ HandlerIsCurrent'
    BY <1>1 DEF ActionsMatchIncident, HandlerIsCurrent, Database
  <1>6. WorkerIsCurrent'
    <2>1. CASE action[k] = "PENDING"
      <3>1. inspection[k[1]] \in Acting /\ incident[k[1]] # Absent
        BY <1>2, <2>1 DEF ActionsMatchIncident, ReviewMatchesStatus, Absent
      <3>2. worker' = [op |-> "call", key |-> k, seen |-> inspection[k[1]],
                       seenIncident |-> incident[k[1]], attempts |-> 0]
        BY <2>1 DEF TakeAction
      <3> QED
        BY <1>1, <2>1, <3>1, <3>2 DEF WorkerIsCurrent, Database, Absent
    <2>2. CASE action[k] # "PENDING"
      <3>1. worker' = [op |-> "skip", key |-> k]
        BY <2>2 DEF TakeAction
      <3>2. action[k] # Absent
        BY <1>1 DEF ActionsMatchIncident
      <3> QED
        BY <1>1, <2>2, <3>1, <3>2 DEF WorkerIsCurrent, Database
    <2> QED
      BY <2>1, <2>2
  <1> QED
    BY <1>3, <1>4, <1>5, <1>6 DEF DatabaseInvariant

\* The worker drops an event whose action it found settled.
LEMMA SkipEventInvariant ==
    ASSUME LoopInvariant, SkipEvent
    PROVE  LoopInvariant'
  <1> USE DEF LoopInvariant
  <1>1. /\ worker.op = "skip" /\ worker.key \in Keys
        /\ events[worker.key] \in Nat /\ events[worker.key] > 0
        /\ action[worker.key] = "PENDING" => events[worker.key] > 1
    BY WorkerRecord DEF SkipEvent, WorkerIsCurrent, TypeOK
  <1>2. /\ UNCHANGED <<inspection, reviewVars, incident, action, external, handler>>
        /\ worker' = Idle /\ events' = [events EXCEPT ![worker.key] = @ - 1]
    BY DEF SkipEvent
  <1>3. TypeOK'
    BY <1>1, <1>2 DEF TypeOK, WorkerTransaction, reviewVars
  <1>4. PendingHasEvent'
    BY <1>1, <1>2 DEF PendingHasEvent, TypeOK
  <1>5. (DecidedOnce /\ ClaimIsExclusive /\ ReviewMatchesStatus /\ ClaimMatchesTask)'
    BY <1>2 DEF DecidedOnce, ClaimIsExclusive, ReviewMatchesStatus, ClaimMatchesTask, reviewVars
  <1>6. ActionsMatchIncident'
    BY <1>1, <1>2 DEF ActionsMatchIncident, TypeOK
  <1>7. (WorkerIsCurrent /\ HandlerIsCurrent)'
    BY <1>2 DEF WorkerIsCurrent, HandlerIsCurrent, Idle, reviewVars
  <1> QED
    BY <1>3, <1>4, <1>5, <1>6, <1>7

\* One attempt at the connector, whatever comes of it.
LEMMA ConnectorInvariant ==
    ASSUME LoopInvariant, ConnectorSucceeds \/ ConnectorUnanswered \/ ConnectorRefuses
    PROVE  LoopInvariant'
  <1> USE DEF LoopInvariant
  <1>1. /\ worker.op = "call" /\ worker.key \in Keys
        /\ worker.seen \in Acting /\ worker.seenIncident # Absent
        /\ action[worker.key] # Absent /\ events[worker.key] > 0
    BY WorkerRecord DEF ConnectorSucceeds, ConnectorUnanswered, ConnectorRefuses, WorkerIsCurrent
  <1>2. UNCHANGED Database /\ UNCHANGED handler
    BY DEF ConnectorSucceeds, ConnectorUnanswered, ConnectorRefuses, Database, reviewVars
  <1>3. external \subseteq external' /\ external' \subseteq external \cup {worker.key}
    BY DEF ConnectorSucceeds, ConnectorUnanswered, ConnectorRefuses
  <1>4. /\ worker' \in WorkerTransaction
        /\ worker'.op \in {"call", "settle"} /\ worker'.key = worker.key
        /\ worker'.seen = worker.seen /\ worker'.seenIncident = worker.seenIncident
    <2>1. worker \in [op : {"call"}, key : Keys, seen : InspectionStatus \cup {Absent},
                      seenIncident : IncidentStatus \cup {Absent}, attempts : 0..(MaxAttempts - 1)]
      BY <1>1, WorkerRecord
    <2>2. ASSUME NEW result \in ActionStatus \ {"PENDING"}, worker' = Settling(result)
          PROVE  <1>4!:
      BY <2>1, <2>2 DEF Settling, WorkerTransaction
    <2>3. CASE ConnectorSucceeds
      BY <2>2, <2>3 DEF ConnectorSucceeds, ActionStatus
    <2>4. CASE ConnectorUnanswered /\ worker.attempts + 1 = MaxAttempts
      BY <2>2, <2>4 DEF ConnectorUnanswered, ActionStatus
    <2>5. CASE ConnectorUnanswered /\ worker.attempts + 1 # MaxAttempts
      <3>1. worker' = [worker EXCEPT !.attempts = @ + 1]
        BY <2>5 DEF ConnectorUnanswered
      <3>2. worker.attempts + 1 \in 0..(MaxAttempts - 1)
        BY <2>1, <2>5, QualityLoopAssumption
      <3> QED
        BY <2>1, <3>1, <3>2 DEF WorkerTransaction
    <2>6. CASE ConnectorRefuses
      BY <2>2, <2>6 DEF ConnectorRefuses, ActionStatus, Recoverable
    <2> QED
      BY <2>3, <2>4, <2>5, <2>6
  <1>5. TypeOK'
    BY <1>1, <1>2, <1>3, <1>4 DEF TypeOK, Database
  <1>6. DatabaseInvariant'
    BY <1>2, DatabaseUnchanged
  <1>7. (ActionsMatchIncident /\ HandlerIsCurrent)'
    BY <1>1, <1>2, <1>3 DEF ActionsMatchIncident, HandlerIsCurrent, Database
  <1>8. WorkerIsCurrent'
    BY <1>1, <1>2, <1>4 DEF WorkerIsCurrent, Database
  <1> QED
    BY <1>5, <1>6, <1>7, <1>8 DEF DatabaseInvariant

\* A transaction that is rolled back leaves nothing behind in the database.
LEMMA RollbackInvariant ==
    ASSUME LoopInvariant,
           WorkerRollback \/ \E h \in Handlers : HandlerRollback(h)
    PROVE  LoopInvariant'
  <1> USE DEF LoopInvariant
  <1>1. UNCHANGED Database /\ UNCHANGED external
    BY DEF WorkerRollback, HandlerRollback, Database, reviewVars
  <1>2. worker' \in {worker, Idle}
    BY DEF WorkerRollback, HandlerRollback
  <1>3. handler' \in [Handlers -> HandlerTransaction]
        /\ \A h \in Handlers : handler'[h] \in {handler[h], Idle}
    BY DEF WorkerRollback, HandlerRollback, TypeOK, HandlerTransaction
  <1>4. TypeOK'
    BY <1>1, <1>2, <1>3 DEF TypeOK, Database, WorkerTransaction
  <1>5. DatabaseInvariant'
    BY <1>1, DatabaseUnchanged
  <1>6. ActionsMatchIncident'
    BY <1>1 DEF ActionsMatchIncident, Database
  <1>7. WorkerIsCurrent'
    BY <1>1, <1>2 DEF WorkerIsCurrent, Database, Idle
  <1>8. HandlerIsCurrent'
    BY <1>1, <1>3 DEF HandlerIsCurrent, Database, Idle
  <1> QED
    BY <1>4, <1>5, <1>6, <1>7, <1>8 DEF DatabaseInvariant

-----------------------------------------------------------------------------
\* What the worker writes to the incident and the inspection of an action is a
\* status of the action phase.
LEMMA SettleWritesActing ==
    ASSUME LoopInvariant, NEW consumed \in 1..2, SettleAction(consumed)
    PROVE  LET i == worker.key[1] IN
           /\ worker.key \in Keys /\ i \in Inspections
           /\ inspection[i] \in Acting /\ incident[i] # Absent
           /\ inspection' \in {inspection} \cup {[inspection EXCEPT ![i] = s] : s \in Acting}
           /\ incident' \in {incident} \cup {[incident EXCEPT ![i] = s] : s \in IncidentStatus}
           /\ action' = [action EXCEPT ![worker.key] = worker.result]
           /\ worker.result \in ActionStatus \ {"PENDING"}
           /\ events' = [events EXCEPT ![worker.key] = @ - consumed]
           /\ consumed \in 1..events[worker.key]
           /\ worker' = Idle
           /\ UNCHANGED <<reviewVars, external, handler>>
  <1> USE DEF LoopInvariant
  <1> DEFINE k       == worker.key
             i       == k[1]
             after   == [action EXCEPT ![k] = worker.result]
             started == worker.seen = "ACTION_PENDING"
             running == IF started THEN "ACTION_EXECUTING" ELSE worker.seen
             flushed == IF started THEN "ACTION_EXECUTING" ELSE worker.seenIncident
             final   == IF running = "ACTION_EXECUTING"
                        THEN Summary(Statuses(after, i), running) ELSE running
             finalIncident == Summary(Statuses(after, i), flushed)
  <1>1. /\ worker.op = "settle" /\ k \in Keys /\ i \in Inspections
        /\ worker.seen \in Acting /\ worker.seenIncident \in IncidentStatus
        /\ worker.result \in ActionStatus \ {"PENDING"}
    BY WorkerRecord DEF SettleAction, WorkerIsCurrent, Keys
  <1>2. inspection[i] \in Acting /\ incident[i] # Absent
    BY <1>1 DEF WorkerIsCurrent, ActionsMatchIncident, ReviewMatchesStatus
  <1>3. final \in Acting /\ finalIncident \in IncidentStatus
    BY <1>1 DEF Summary, Acting, IncidentStatus
  <1>4. /\ inspection' = IF final = worker.seen
                         THEN inspection ELSE [inspection EXCEPT ![i] = final]
        /\ incident' = IF flushed = worker.seenIncident /\ finalIncident = flushed
                       THEN incident ELSE [incident EXCEPT ![i] = finalIncident]
    BY DEF SettleAction
  <1>5. /\ inspection' \in {inspection} \cup {[inspection EXCEPT ![i] = s] : s \in Acting}
        /\ incident' \in {incident} \cup {[incident EXCEPT ![i] = s] : s \in IncidentStatus}
    <2> HIDE DEF final, finalIncident, flushed
    <2> QED
      BY <1>3, <1>4
  <1> QED
    BY <1>1, <1>2, <1>5 DEF SettleAction

\* _execute_external_action commits: an event is left for every action that is
\* still PENDING, because the action of the consumed events no longer is.
LEMMA SettleActionInvariant ==
    ASSUME LoopInvariant, NEW consumed \in 1..2, SettleAction(consumed)
    PROVE  LoopInvariant'
  <1> USE DEF LoopInvariant
  <1> DEFINE k == worker.key
             i == k[1]
  <1>1. /\ k \in Keys /\ i \in Inspections
        /\ inspection[i] \in Acting /\ incident[i] # Absent
        /\ inspection' \in {inspection} \cup {[inspection EXCEPT ![i] = s] : s \in Acting}
        /\ incident' \in {incident} \cup {[incident EXCEPT ![i] = s] : s \in IncidentStatus}
        /\ action' = [action EXCEPT ![k] = worker.result]
        /\ worker.result \in ActionStatus \ {"PENDING"}
        /\ events' = [events EXCEPT ![k] = @ - consumed]
        /\ consumed \in 1..events[k]
        /\ worker' = Idle
        /\ UNCHANGED <<reviewVars, external, handler>>
    BY SettleWritesActing
  <1>2. \A j \in Inspections : /\ inspection'[j] # inspection[j] => inspection'[j] \in Acting
                                                                   /\ inspection[j] \in Acting
                               /\ incident[j] # Absent <=> incident'[j] # Absent
    BY <1>1 DEF TypeOK, Absent, IncidentStatus
  <1>3. TypeOK'
    <2>1. /\ inspection' \in [Inspections -> InspectionStatus \cup {Absent}]
          /\ incident' \in [Inspections -> IncidentStatus \cup {Absent}]
      BY <1>1 DEF TypeOK, InspectionStatus, Acting
    <2>2. /\ action' \in [Keys -> ActionStatus \cup {Absent}]
          /\ events' \in [Keys -> Nat]
      BY <1>1 DEF TypeOK
    <2>3. worker' \in WorkerTransaction
      BY <1>1 DEF WorkerTransaction
    <2>4. /\ evidence' \in [Inspections -> {"none", "scored", "unavailable"}]
          /\ inference' \subseteq Inspections
          /\ task' \in [Inspections -> Task]
          /\ claims' \in [Inspections -> SUBSET Users]
          /\ decisions' \in [Inspections -> SUBSET Decision]
          /\ external' \subseteq Keys
          /\ handler' \in [Handlers -> HandlerTransaction]
      BY <1>1 DEF TypeOK, reviewVars
    <2> QED
      BY <2>1, <2>2, <2>3, <2>4 DEF TypeOK
  <1>4. (DecidedOnce /\ ClaimIsExclusive /\ ClaimMatchesTask)'
    BY <1>1 DEF DecidedOnce, ClaimIsExclusive, ClaimMatchesTask, reviewVars
  <1>5. PendingHasEvent'
    BY <1>1 DEF PendingHasEvent, TypeOK
  <1>6. ReviewMatchesStatus'
    <2> SUFFICES ASSUME NEW j \in Inspections
                 PROVE  (ReviewMatchesStatus!(j))'
      BY DEF ReviewMatchesStatus
    <2>1. CASE inspection'[j] = inspection[j]
      BY <1>1, <1>2, <2>1 DEF ReviewMatchesStatus, reviewVars
    <2>2. CASE inspection'[j] # inspection[j]
      BY <1>1, <1>2, <2>2 DEF ReviewMatchesStatus, reviewVars, Acting, InReview, Absent
    <2> QED
      BY <2>1, <2>2
  <1>7. ActionsMatchIncident'
    <2>1. \A q \in Keys : q[1] \in Inspections
      BY DEF Keys
    <2>2. \A q \in Keys : action[q] # Absent <=> action'[q] # Absent
      BY <1>1 DEF TypeOK, ActionStatus, Absent, WorkerIsCurrent, SettleAction
    <2>3. \A q \in Keys : events'[q] > 0 => events[q] > 0
      BY <1>1 DEF TypeOK
    <2> QED
      BY <1>1, <1>2, <2>1, <2>2, <2>3 DEF ActionsMatchIncident, TypeOK
  <1>8. WorkerIsCurrent'
    BY <1>1 DEF WorkerIsCurrent, Idle
  <1>9. HandlerIsCurrent'
    <2>1. \A q \in Keys : q[1] \in Inspections
      BY DEF Keys
    <2>2. \A q \in Keys : action[q] # Absent => action'[q] # Absent
      BY <1>1 DEF TypeOK, ActionStatus, Absent
    <2> QED
      BY <1>1, <1>2, <2>1, <2>2, HandlerRecord DEF HandlerIsCurrent, reviewVars
  <1> QED
    BY <1>3, <1>4, <1>5, <1>6, <1>7, <1>8, <1>9

-----------------------------------------------------------------------------
\* claim_review: an open decision request of somebody else carries an older
\* version afterwards.
LEMMA ClaimReviewInvariant ==
    ASSUME LoopInvariant, NEW i \in Inspections, NEW u \in Users, ClaimReview(i, u)
    PROVE  LoopInvariant'
  <1> USE DEF LoopInvariant
  <1>1. /\ task[i] \in Task /\ task[i].status = "OPEN" /\ task[i].assignee = NoOne
        /\ task' = [task EXCEPT ![i] = [status |-> "OPEN", assignee |-> u,
                                        version |-> task[i].version + 1]]
        /\ claims' = [claims EXCEPT ![i] = @ \cup {u}]
        /\ UNCHANGED <<inspection, evidence, inference, decisions, incident, action, events,
                       external, worker, handler>>
    BY DEF ClaimReview, TypeOK, Task
  <1>2. claims[i] = {} /\ decisions[i] = {}
    BY <1>1 DEF ClaimMatchesTask, DecidedOnce
  <1>3. TypeOK'
    BY <1>1 DEF TypeOK, Task
  <1>4. (DecidedOnce /\ ClaimIsExclusive /\ PendingHasEvent /\ ActionsMatchIncident)'
    BY <1>1, <1>2 DEF DecidedOnce, ClaimIsExclusive, PendingHasEvent, ActionsMatchIncident, TypeOK
  <1>5. ReviewMatchesStatus'
    BY <1>1 DEF ReviewMatchesStatus, TypeOK, Absent
  <1>6. ClaimMatchesTask'
    BY <1>1, <1>2, QualityLoopAssumption DEF ClaimMatchesTask, TypeOK
  <1>7. WorkerIsCurrent'
    BY <1>1 DEF WorkerIsCurrent
  <1>8. HandlerIsCurrent'
    BY <1>1, HandlerRecord DEF HandlerIsCurrent, TypeOK, Task
  <1> QED
    BY <1>3, <1>4, <1>5, <1>6, <1>7, <1>8

\* What a request relies on when it has just read its rows.
Current(t) ==
    /\ t.op = "decide" =>
          /\ t.choice \in HighRisk => t.user \in Managers
          /\ t.version <= task[t.ins].version
          /\ task[t.ins].assignee \in {NoOne, t.user}
    /\ t.op \in {"request", "replay"} => incident[t.key[1]] # Absent
    /\ t.op = "replay" => action[t.key] # Absent
    /\ t.op = "close" => incident[t.ins] # Absent

Opens(h) == \E t \in HandlerTransaction : Current(t) /\ handler' = [handler EXCEPT ![h] = t]

\* The reads of an API request.
LEMMA RequestReadInvariant ==
    ASSUME LoopInvariant, NEW h \in Handlers,
           \/ \E i \in Inspections, u \in Users, choice \in ReviewChoice :
                 DecideRead(h, i, u, choice)
           \/ \E k \in Keys : RequestRead(h, k) \/ ReplayRead(h, k)
           \/ \E i \in Inspections : CloseRead(h, i)
    PROVE  LoopInvariant'
  <1> USE DEF LoopInvariant
  <1>1. UNCHANGED Database /\ UNCHANGED <<external, worker>>
    BY DEF DecideRead, RequestRead, ReplayRead, CloseRead, Database, reviewVars
  <1>2. Opens(h)
    <2>1. ASSUME NEW i \in Inspections, NEW u \in Users, NEW choice \in ReviewChoice,
                 DecideRead(h, i, u, choice)
          PROVE  Opens(h)
      <3>1. PICK version \in 1..task[i].version :
               handler' = [handler EXCEPT ![h] = [op |-> "decide", ins |-> i, user |-> u,
                                                  choice |-> choice, version |-> version]]
        BY <2>1 DEF DecideRead
      <3> DEFINE t == [op |-> "decide", ins |-> i, user |-> u, choice |-> choice,
                       version |-> version]
      <3>2. version \in Nat /\ version <= task[i].version
        BY DEF TypeOK, Task
      <3>3. t \in HandlerTransaction
        BY <3>2 DEF HandlerTransaction
      <3>4. Current(t)
        BY <2>1, <3>2 DEF DecideRead, Current
      <3> QED
        BY <3>1, <3>3, <3>4 DEF Opens
    <2>2. ASSUME NEW k \in Keys, RequestRead(h, k)
          PROVE  Opens(h)
      <3> DEFINE t == [op |-> "request", key |-> k]
      <3>1. t \in HandlerTransaction
        BY DEF HandlerTransaction
      <3>2. Current(t)
        BY <2>2 DEF RequestRead, Exists, Current
      <3> QED
        BY <2>2, <3>1, <3>2 DEF RequestRead, Opens
    <2>3. ASSUME NEW k \in Keys, ReplayRead(h, k)
          PROVE  Opens(h)
      <3> DEFINE t == [op |-> "replay", key |-> k, seen |-> inspection[k[1]],
                       seenIncident |-> incident[k[1]]]
      <3>1. k[1] \in Inspections
        BY DEF Keys
      <3>2. t \in HandlerTransaction
        BY <3>1 DEF HandlerTransaction, TypeOK
      <3>3. action[k] # Absent
        BY <2>3 DEF ReplayRead, Recoverable, Absent
      <3>4. Current(t)
        BY <3>3 DEF Current, ActionsMatchIncident
      <3> QED
        BY <2>3, <3>2, <3>4 DEF ReplayRead, Opens
    <2>4. ASSUME NEW i \in Inspections, CloseRead(h, i)
          PROVE  Opens(h)
      <3> DEFINE t == [op |-> "close", ins |-> i, seenIncident |-> incident[i]]
      <3>1. t \in HandlerTransaction
        BY DEF HandlerTransaction, TypeOK
      <3>2. Current(t)
        BY <2>4 DEF CloseRead, Exists, Current
      <3> QED
        BY <2>4, <3>1, <3>2 DEF CloseRead, Opens
    <2> QED
      BY <2>1, <2>2, <2>3, <2>4
  <1>3. PICK t \in HandlerTransaction : Current(t) /\ handler' = [handler EXCEPT ![h] = t]
    BY <1>2 DEF Opens
  <1>4. TypeOK'
    BY <1>1, <1>3 DEF TypeOK, Database
  <1>5. DatabaseInvariant'
    BY <1>1, DatabaseUnchanged
  <1>6. ActionsMatchIncident' /\ WorkerIsCurrent'
    BY <1>1 DEF ActionsMatchIncident, WorkerIsCurrent, Database
  <1>7. HandlerIsCurrent'
    <2>1. \A g \in Handlers : handler'[g] = IF g = h THEN t ELSE handler[g]
      BY <1>3 DEF TypeOK
    <2> QED
      BY <1>1, <1>3, <2>1 DEF HandlerIsCurrent, Database, Current
  <1> QED
    BY <1>4, <1>5, <1>6, <1>7 DEF DatabaseInvariant

\* A request that ends leaves the others as they were.
LEMMA RequestEnds ==
    ASSUME TypeOK, NEW h \in Handlers, handler' = [handler EXCEPT ![h] = Idle]
    PROVE  /\ handler' \in [Handlers -> HandlerTransaction]
           /\ handler'[h].op = "idle"
           /\ \A g \in Handlers : g # h => handler'[g] = handler[g]
  BY DEF TypeOK, HandlerTransaction, Idle

\* decide_review commits: the version it was sent is still the task's, so the
\* assignee it looked at is too.
LEMMA DecideCommitInvariant ==
    ASSUME LoopInvariant, NEW h \in Handlers, DecideCommit(h)
    PROVE  LoopInvariant'
  <1> USE DEF LoopInvariant
  <1> DEFINE i == handler[h].ins
             u == handler[h].user
             choice == handler[h].choice
             version == handler[h].version
             d == [actor |-> u, choice |-> choice, version |-> version]
             automatic == {i} \X Automatic
             status == IF choice \in HighRisk THEN "ACTION_PENDING" ELSE Disposition(choice)
  <1>1. /\ i \in Inspections /\ u \in Users /\ choice \in ReviewChoice /\ version \in Nat
        /\ choice \in HighRisk => u \in Managers
        /\ task[i].status = "OPEN" /\ task[i].version = version
        /\ task[i].assignee \in {NoOne, u}
        /\ handler[h].op = "decide"
    BY HandlerRecord DEF DecideCommit, CompleteReview, HandlerIsCurrent
  <1>2. /\ decisions[i] = {} /\ claims[i] \subseteq {u}
        /\ inspection[i] \in InReview /\ incident[i] = Absent
        /\ \A k \in KeysOf(i) : action[k] = Absent /\ events[k] = 0 /\ k \notin external
    <2>1. decisions[i] = {} /\ claims[i] \subseteq {u} /\ inspection[i] \in InReview
      <3>1. task[i].status = "OPEN" /\ task[i].assignee \in {NoOne, u} /\ i \in Inspections
        BY <1>1
      <3> HIDE DEF i, u, choice, version
      <3>2. decisions[i] = {}
        BY <3>1 DEF DecidedOnce
      <3>3. claims[i] \subseteq {u}
        BY <3>1 DEF ClaimMatchesTask
      <3>4. inspection[i] \in InReview
        BY <3>1 DEF ReviewMatchesStatus
      <3> QED
        BY <3>2, <3>3, <3>4
    <2>2. incident[i] = Absent
      BY <1>1, <2>1 DEF ReviewMatchesStatus, InReview, Acting
    <2>3. \A k \in KeysOf(i) : k \in Keys /\ k[1] = i
      BY <1>1 DEF KeysOf, Keys
    <2>4. \A k \in KeysOf(i) : action[k] = Absent /\ k \notin external
      BY <2>2, <2>3 DEF ActionsMatchIncident
    <2>5. \A k \in KeysOf(i) : events[k] = 0
      <3>1. events \in [Keys -> Nat]
        BY DEF TypeOK
      <3> QED
        BY <2>3, <2>4, <3>1 DEF ActionsMatchIncident
    <2> HIDE DEF i, u, choice, version
    <2> QED
      BY <2>1, <2>2, <2>4, <2>5
  <1>3. /\ task' = [task EXCEPT ![i] = [status |-> "COMPLETED", assignee |-> u,
                                        version |-> version + 1]]
        /\ decisions' = [decisions EXCEPT ![i] = {d}]
        /\ UNCHANGED <<evidence, inference, claims, external, worker>>
        /\ handler' = [handler EXCEPT ![h] = Idle]
    BY <1>1, <1>2 DEF DecideCommit, CompleteReview, TypeOK
  <1>4. /\ status \in {"ACTION_PENDING", "RELEASE_APPROVED", "ESCALATED"}
        /\ status = "ACTION_PENDING" <=> choice \in HighRisk
        /\ status = "RELEASE_APPROVED" => choice = "GOOD"
        /\ inspection' = [inspection EXCEPT ![i] = status]
    BY <1>1 DEF DecideCommit, Disposition, ReviewChoice, HighRisk
  <1>5. /\ choice \in HighRisk =>
              /\ incident' = [incident EXCEPT ![i] = "ACTION_PENDING"]
              /\ action' = [k \in Keys |-> IF k \in automatic THEN "PENDING" ELSE action[k]]
              /\ events' = [k \in Keys |-> IF k \in automatic THEN events[k] + 1 ELSE events[k]]
        /\ choice \notin HighRisk => UNCHANGED <<incident, action, events>>
    BY DEF DecideCommit, CreateIncident
  <1>6. \A k \in Keys : k \in automatic => k \in KeysOf(i) /\ k[1] = i
    BY DEF KeysOf
  <1>7. \A j \in Inspections : j # i =>
           /\ inspection'[j] = inspection[j] /\ task'[j] = task[j]
           /\ decisions'[j] = decisions[j] /\ incident'[j] = incident[j]
    BY <1>3, <1>4, <1>5 DEF TypeOK
  <1>8. /\ inspection'[i] = status /\ decisions'[i] = {d}
        /\ task'[i] = [status |-> "COMPLETED", assignee |-> u, version |-> version + 1]
        /\ incident'[i] = IF choice \in HighRisk THEN "ACTION_PENDING" ELSE Absent
    BY <1>1, <1>2, <1>3, <1>4, <1>5 DEF TypeOK
  <1>9. TypeOK'
    <2>1. /\ inspection' \in [Inspections -> InspectionStatus \cup {Absent}]
          /\ incident' \in [Inspections -> IncidentStatus \cup {Absent}]
      BY <1>4, <1>5 DEF TypeOK, InspectionStatus, IncidentStatus
    <2>2. /\ action' \in [Keys -> ActionStatus \cup {Absent}] /\ events' \in [Keys -> Nat]
      BY <1>5 DEF TypeOK, ActionStatus
    <2>3. /\ task' \in [Inspections -> Task] /\ decisions' \in [Inspections -> SUBSET Decision]
      BY <1>1, <1>3 DEF TypeOK, Task, Decision
    <2> QED
      BY <1>3, <2>1, <2>2, <2>3, RequestEnds DEF TypeOK
  <1>10. DecidedOnce' /\ ClaimIsExclusive'
    <2>1. claims' = claims
      BY <1>3
    <2>2. d.actor = u
      OBVIOUS
    <2> HIDE DEF d
    <2>3. DecidedOnce'
      BY <1>7, <1>8 DEF DecidedOnce
    <2>4. \A v, w \in claims[i] : v = w
      BY <1>2
    <2>5. ClaimIsExclusive'
      BY <1>2, <1>7, <1>8, <2>1, <2>2, <2>4 DEF ClaimIsExclusive
    <2> QED
      BY <2>3, <2>5
  <1>11. PendingHasEvent' /\ ActionsMatchIncident'
    <2>1. CASE choice \in HighRisk
      <3>1. \A k \in Keys : IF k \in automatic
                            THEN action'[k] = "PENDING" /\ events'[k] = 1 /\ k[1] = i
                            ELSE action'[k] = action[k] /\ events'[k] = events[k]
        BY <1>2, <1>5, <1>6, <2>1
      <3>2. \A j \in Inspections : incident[j] # Absent => incident'[j] # Absent
        BY <1>2, <1>7
      <3>3. incident'[i] # Absent
        BY <1>8, <2>1 DEF Absent
      <3>4. \A k \in Keys : k[1] \in Inspections
        BY DEF Keys
      <3>5. PendingHasEvent'
        BY <3>1 DEF PendingHasEvent
      <3>6. \A k \in Keys : action'[k] # Absent => incident'[k[1]] # Absent
        BY <3>1, <3>2, <3>3, <3>4 DEF ActionsMatchIncident
      <3>7. \A k \in Keys : events'[k] > 0 => action'[k] # Absent
        BY <3>1 DEF ActionsMatchIncident, Absent
      <3>8. \A k \in external' : incident'[k[1]] # Absent
        BY <1>3, <3>2, <3>4 DEF ActionsMatchIncident, TypeOK
      <3> QED
        BY <3>5, <3>6, <3>7, <3>8 DEF ActionsMatchIncident
    <2>2. CASE choice \notin HighRisk
      BY <1>3, <1>5, <2>2 DEF PendingHasEvent, ActionsMatchIncident
    <2> QED
      BY <2>1, <2>2
  <1>12. ReviewMatchesStatus'
    <2> SUFFICES ASSUME NEW j \in Inspections
                 PROVE  (ReviewMatchesStatus!(j))'
      BY DEF ReviewMatchesStatus
    <2>1. CASE j # i
      BY <1>3, <1>7, <2>1 DEF ReviewMatchesStatus
    <2>2. CASE j = i
      <3>1. d \in decisions'[i] /\ d.actor = u /\ d.choice = choice
        BY <1>8
      <3>2. i \notin inference' /\ task'[i].status = "COMPLETED"
        BY <1>1, <1>2, <1>3, <1>8 DEF ReviewMatchesStatus, InReview
      <3> HIDE DEF d, status
      <3>3. status = "RELEASE_APPROVED" => \E e \in decisions'[i] : e.choice = "GOOD"
        BY <1>4, <3>1
      <3>4. status = "ACTION_PENDING" =>
               \E e \in decisions'[i] : e.actor \in Managers /\ e.choice \in HighRisk
        BY <1>1, <1>4, <3>1
      <3> QED
        BY <1>4, <1>8, <2>2, <3>2, <3>3, <3>4 DEF InReview, Acting, Absent
    <2> QED
      BY <2>1, <2>2
  <1>13. ClaimMatchesTask'
    BY <1>3, <1>7, <1>8 DEF ClaimMatchesTask
  <1>14. WorkerIsCurrent'
    <2>1. worker.op = "infer" => worker.ins \in Inspections /\ worker.ins # i
      BY <1>2, WorkerRecord DEF WorkerIsCurrent, InReview
    <2>2. worker.op \in {"skip", "call", "settle"} =>
             worker.key \in Keys /\ worker.key \notin automatic
      BY <1>2, <1>6, WorkerRecord DEF WorkerIsCurrent
    <2>3. \A k \in Keys : k \notin automatic => action'[k] = action[k] /\ events'[k] = events[k]
      BY <1>5
    <2> QED
      BY <1>3, <1>7, <2>1, <2>2, <2>3 DEF WorkerIsCurrent
  <1>15. HandlerIsCurrent'
    <2>1. \A j \in Inspections : incident[j] # Absent => incident'[j] # Absent
      BY <1>2, <1>7
    <2>2. \A k \in Keys : k[1] \in Inspections /\ (action[k] # Absent => action'[k] # Absent)
      BY <1>5 DEF Keys, Absent
    <2>3. \A j \in Inspections : /\ task'[j].version >= task[j].version
                                 /\ task'[j].status = "OPEN" => task'[j] = task[j]
      BY <1>1, <1>7, <1>8 DEF TypeOK, Task
    <2>4. \A j \in Inspections : task[j].version \in Nat /\ task'[j].version \in Nat
      BY <1>9 DEF TypeOK, Task
    <2> SUFFICES ASSUME NEW g \in Handlers
                 PROVE  (HandlerIsCurrent!(g))'
      BY DEF HandlerIsCurrent
    <2>5. CASE g = h
      BY <1>3, <2>5, RequestEnds
    <2>6. CASE g # h
      BY <1>3, <2>1, <2>2, <2>3, <2>4, <2>6, RequestEnds, HandlerRecord DEF HandlerIsCurrent
    <2> QED
      BY <2>5, <2>6
  <1> QED
    BY <1>9, <1>10, <1>11, <1>12, <1>13, <1>14, <1>15

\* The commits of request_incident_action, replay_external_action and
\* close_incident move an incident that exists inside the action phase, and put
\* an event beside every action they make PENDING, whatever they overwrite.
LEMMA ActionCommitInvariant ==
    ASSUME LoopInvariant, NEW h \in Handlers,
           RequestCommit(h) \/ ReplayCommit(h) \/ CloseCommit(h)
    PROVE  LoopInvariant'
  <1> USE DEF LoopInvariant
  <1>1. /\ UNCHANGED <<reviewVars, external, worker>>
        /\ handler' = [handler EXCEPT ![h] = Idle]
    BY DEF RequestCommit, ReplayCommit, CloseCommit
  <1>2. /\ inspection' \in [Inspections -> InspectionStatus \cup {Absent}]
        /\ incident' \in [Inspections -> IncidentStatus \cup {Absent}]
        /\ \A i \in Inspections :
              /\ incident[i] = Absent => incident'[i] = Absent /\ inspection'[i] = inspection[i]
              /\ incident[i] # Absent => incident'[i] # Absent
                    /\ (inspection'[i] = inspection[i] \/ inspection'[i] \in Acting)
    <2>1. CASE RequestCommit(h)
      BY <2>1 DEF RequestCommit, TypeOK
    <2>2. CASE ReplayCommit(h)
      <3> DEFINE i == handler[h].key[1]
      <3>1. i \in Inspections /\ incident[i] # Absent
        BY <2>2, HandlerRecord DEF ReplayCommit, HandlerIsCurrent, Keys
      <3>2. /\ inspection' \in {inspection, [inspection EXCEPT ![i] = "ACTION_PENDING"]}
            /\ incident' \in {incident, [incident EXCEPT ![i] = "ACTION_PENDING"]}
        BY <2>2 DEF ReplayCommit
      <3> QED
        BY <3>1, <3>2 DEF TypeOK, InspectionStatus, IncidentStatus, Acting, Absent
    <2>3. CASE CloseCommit(h)
      <3> DEFINE i == handler[h].ins
      <3>1. i \in Inspections /\ incident[i] # Absent
        BY <2>3, HandlerRecord DEF CloseCommit, HandlerIsCurrent
      <3>2. /\ inspection' = [inspection EXCEPT ![i] = "CLOSED"]
            /\ incident' \in {incident, [incident EXCEPT ![i] = "CLOSED"]}
        BY <2>3 DEF CloseCommit
      <3> QED
        BY <3>1, <3>2 DEF TypeOK, InspectionStatus, IncidentStatus, Acting, Absent
    <2> QED
      BY <2>1, <2>2, <2>3
  <1>3. /\ action' \in [Keys -> ActionStatus \cup {Absent}] /\ events' \in [Keys -> Nat]
        /\ \A k \in Keys :
              \/ action'[k] = action[k] /\ events'[k] = events[k]
              \/ /\ action'[k] = "PENDING" /\ events'[k] = events[k] + 1
                 /\ incident[k[1]] # Absent
    <2>1. CASE RequestCommit(h) \/ ReplayCommit(h)
      <3> DEFINE k == handler[h].key
      <3>1. k \in Keys /\ incident[k[1]] # Absent
        BY <2>1, HandlerRecord DEF RequestCommit, ReplayCommit, HandlerIsCurrent
      <3>2. /\ action' = [action EXCEPT ![k] = "PENDING"]
            /\ events' = [events EXCEPT ![k] = @ + 1]
        BY <2>1 DEF RequestCommit, ReplayCommit
      <3> QED
        BY <3>1, <3>2 DEF TypeOK, ActionStatus
    <2>2. CASE CloseCommit(h)
      BY <2>2 DEF CloseCommit, TypeOK
    <2> QED
      BY <2>1, <2>2
  <1>4. \A k \in Keys : k[1] \in Inspections /\ events[k] \in Nat
    BY DEF Keys, TypeOK
  <1>5. TypeOK'
    BY <1>1, <1>2, <1>3, RequestEnds DEF TypeOK, reviewVars
  <1>6. (DecidedOnce /\ ClaimIsExclusive /\ ClaimMatchesTask)'
    BY <1>1 DEF DecidedOnce, ClaimIsExclusive, ClaimMatchesTask, reviewVars
  <1>7. PendingHasEvent'
    BY <1>3, <1>4 DEF PendingHasEvent
  <1>8. ReviewMatchesStatus'
    <2> SUFFICES ASSUME NEW j \in Inspections
                 PROVE  (ReviewMatchesStatus!(j))'
      BY DEF ReviewMatchesStatus
    <2>1. CASE inspection'[j] = inspection[j]
      BY <1>1, <1>2, <2>1 DEF ReviewMatchesStatus, reviewVars
    <2>2. CASE inspection'[j] # inspection[j]
      <3>1. inspection[j] \in Acting /\ inspection'[j] \in Acting
        BY <1>2, <2>2 DEF ReviewMatchesStatus
      <3> QED
        BY <1>1, <1>2, <3>1 DEF ReviewMatchesStatus, reviewVars, Acting, InReview, Absent
    <2> QED
      BY <2>1, <2>2
  <1>9. ActionsMatchIncident'
    <2>1. \A k \in Keys : action'[k] # Absent => incident'[k[1]] # Absent
      BY <1>2, <1>3, <1>4 DEF ActionsMatchIncident
    <2>2. \A k \in Keys : events'[k] > 0 => action'[k] # Absent
      BY <1>3 DEF ActionsMatchIncident, Absent
    <2>3. \A k \in external' : incident'[k[1]] # Absent
      BY <1>1, <1>2, <1>4 DEF ActionsMatchIncident, TypeOK
    <2> QED
      BY <2>1, <2>2, <2>3 DEF ActionsMatchIncident
  <1>10. WorkerIsCurrent'
    <2>1. \A i \in Inspections : inspection[i] = "VALIDATED" => inspection'[i] = inspection[i]
      BY <1>2 DEF ReviewMatchesStatus, Acting
    <2>2. \A k \in Keys : action[k] # Absent /\ events[k] > 0 =>
             /\ action'[k] # Absent /\ events'[k] > 0
             /\ action'[k] = "PENDING" => action[k] = "PENDING" \/ events'[k] > 1
      BY <1>3, <1>4 DEF Absent
    <2>3. \A k \in Keys : events'[k] >= events[k] /\ events'[k] \in Nat
      BY <1>3, <1>4
    <2> QED
      BY <1>1, <1>4, <2>1, <2>2, <2>3, WorkerRecord DEF WorkerIsCurrent
  <1>11. HandlerIsCurrent'
    <2>1. \A k \in Keys : action[k] # Absent => action'[k] # Absent
      BY <1>3 DEF Absent
    <2>2. \A i \in Inspections : incident[i] # Absent => incident'[i] # Absent
      BY <1>2
    <2> SUFFICES ASSUME NEW g \in Handlers
                 PROVE  (HandlerIsCurrent!(g))'
      BY DEF HandlerIsCurrent
    <2>3. CASE g = h
      BY <1>1, <2>3, RequestEnds
    <2>4. CASE g # h
      BY <1>1, <1>4, <2>1, <2>2, <2>4, RequestEnds, HandlerRecord DEF HandlerIsCurrent, reviewVars
    <2> QED
      BY <2>3, <2>4
  <1> QED
    BY <1>5, <1>6, <1>7, <1>8, <1>9, <1>10, <1>11

-----------------------------------------------------------------------------
\* Every step of the loop, and every stuttering step, keeps the invariant.
LEMMA NextInvariant == LoopInvariant /\ [Next]_vars => LoopInvariant'
  <1> SUFFICES ASSUME LoopInvariant, [Next]_vars PROVE LoopInvariant'
    OBVIOUS
  <1>1. ASSUME NEW i \in Inspections, CreateInspection(i) PROVE LoopInvariant'
    BY <1>1, CreateInspectionInvariant
  <1>2. ASSUME NEW i \in Inspections, NEW u \in Users, ClaimReview(i, u) PROVE LoopInvariant'
    BY <1>2, ClaimReviewInvariant
  <1>3. CASE Worker
    BY <1>3, TakeInferenceInvariant, FinishInferenceInvariant, TakeActionInvariant,
       SkipEventInvariant, ConnectorInvariant, SettleActionInvariant, RollbackInvariant
       DEF Worker
  <1>4. ASSUME NEW h \in Handlers, Api(h) PROVE LoopInvariant'
    BY <1>4, RequestReadInvariant, DecideCommitInvariant, ActionCommitInvariant,
       RollbackInvariant DEF Api
  <1>5. CASE UNCHANGED vars
    <2>1. UNCHANGED Database /\ UNCHANGED <<external, worker, handler>>
      BY <1>5 DEF vars, Database
    <2>2. DatabaseInvariant'
      BY <2>1, DatabaseUnchanged
    <2>3. (TypeOK /\ ActionsMatchIncident /\ WorkerIsCurrent /\ HandlerIsCurrent)'
      BY <2>1 DEF LoopInvariant, TypeOK, Database, ActionsMatchIncident, WorkerIsCurrent,
                  HandlerIsCurrent
    <2> QED
      BY <2>2, <2>3 DEF LoopInvariant, DatabaseInvariant
  <1> QED
    BY <1>1, <1>2, <1>3, <1>4, <1>5 DEF Next

\* LoopInvariant holds in every reachable state.
THEOREM LoopInvariantHolds == Spec => []LoopInvariant
  BY InitInvariant, NextInvariant, PTL DEF Spec

\* The type invariant.
THEOREM TypeCorrect == Spec => []TypeOK
  <1>1. LoopInvariant => TypeOK
    BY DEF LoopInvariant
  <1> QED
    BY <1>1, LoopInvariantHolds, PTL

\* One decision per review task, under any race of decide_review requests.
THEOREM DecidedOnceHolds == Spec => []DecidedOnce
  <1>1. LoopInvariant => DecidedOnce
    BY DEF LoopInvariant
  <1> QED
    BY <1>1, LoopInvariantHolds, PTL

\* A claimed task is decided by the one who claimed it, although the assignee is
\* read before the version is compared.
THEOREM ClaimIsExclusiveHolds == Spec => []ClaimIsExclusive
  <1>1. LoopInvariant => ClaimIsExclusive
    BY DEF LoopInvariant
  <1> QED
    BY <1>1, LoopInvariantHolds, PTL

\* A PENDING external action always has an outbox event that leads to it.
THEOREM PendingHasEventHolds == Spec => []PendingHasEvent
  <1>1. LoopInvariant => PendingHasEvent
    BY DEF LoopInvariant
  <1> QED
    BY <1>1, LoopInvariantHolds, PTL

\* Nothing is written to MES or QMS without a manager's decision.
THEOREM EffectNeedsManagerHolds == Spec => []EffectNeedsManager
  <1>1. LoopInvariant => EffectNeedsManager
    <2> SUFFICES ASSUME LoopInvariant, NEW k \in external
                 PROVE  \E d \in decisions[k[1]] : d.actor \in Managers /\ d.choice \in HighRisk
      BY DEF EffectNeedsManager
    <2>1. k[1] \in Inspections
      BY DEF LoopInvariant, TypeOK, Keys
    <2>2. inspection[k[1]] \in Acting
      BY <2>1 DEF LoopInvariant, ActionsMatchIncident, ReviewMatchesStatus
    <2> QED
      BY <2>1, <2>2 DEF LoopInvariant, ReviewMatchesStatus
  <1> QED
    BY <1>1, LoopInvariantHolds, PTL

\* A product is released on stored evidence or by a named person, and a released
\* or escalated one has no incident and no external action.
THEOREM ReleaseIsFoundedHolds == Spec => []ReleaseIsFounded
  <1>1. LoopInvariant => ReleaseIsFounded
    <2> SUFFICES ASSUME LoopInvariant, NEW i \in Inspections
                 PROVE  ReleaseIsFounded!(i)
      BY DEF ReleaseIsFounded
    <2> USE DEF LoopInvariant
    <2>1. inspection[i] = "AUTO_RELEASED" => evidence[i] = "scored" /\ task[i] = NoTask
      BY DEF ReviewMatchesStatus
    <2>2. inspection[i] = "RELEASE_APPROVED" => \E d \in decisions[i] : d.choice = "GOOD"
      BY DEF ReviewMatchesStatus
    <2>3. \A k \in KeysOf(i) : k \in Keys /\ k[1] = i
      BY DEF KeysOf, Keys
    <2>4. ASSUME inspection[i] \in {"AUTO_RELEASED", "RELEASE_APPROVED", "ESCALATED"}
          PROVE  incident[i] = Absent /\ \A k \in KeysOf(i) : action[k] = Absent
      <3>1. incident[i] = Absent
        BY <2>4 DEF ReviewMatchesStatus, Acting
      <3> QED
        BY <2>3, <3>1 DEF ActionsMatchIncident
    <2> QED
      BY <2>1, <2>2, <2>4
  <1> QED
    BY <1>1, LoopInvariantHolds, PTL

-----------------------------------------------------------------------------
(***************************************************************************)
(* One API request at a time.  Beside it the worker alone changes rows:     *)
(* what the request has read of an action, and the status FAILED or         *)
(* COMPLETED that it has read, stay; what the worker has read can be        *)
(* overtaken by one replay, which leaves another action PENDING.            *)
(***************************************************************************)
OneHandler == \A g, h \in Handlers : g = h

WorkerIsTimely ==
    worker.op \in {"call", "settle"} =>
        LET k == worker.key  i == k[1] IN
        /\ action[k] = "PENDING"
        /\ \/ inspection[i] = worker.seen
           \/ /\ inspection[i] = "ACTION_PENDING" /\ worker.seen = "ACTION_FAILED"
              /\ \E j \in KeysOf(i) \ {k} : action[j] = "PENDING"

RequestIsTimely ==
    \A h \in Handlers :
        /\ handler[h].op = "replay" =>
              /\ action[handler[h].key] \in Recoverable
              /\ handler[h].seen = "ACTION_FAILED" =>
                    inspection[handler[h].key[1]] = "ACTION_FAILED"
        /\ handler[h].op = "close" =>
              /\ Statuses(action, handler[h].ins) = {"SUCCEEDED"}
              /\ inspection[handler[h].ins] = "ACTION_COMPLETED"

OneRequestInvariant == WorkerIsTimely /\ RequestIsTimely /\ StatusHasCause

(* What a step may do to the statuses of the inspections.                   *)
LawfulStep ==
    \A i \in Inspections : inspection[i] \in Terminal => inspection'[i] = inspection[i]

\* A key belongs to one inspection.
LEMMA KeyOfOne ==
    /\ \A k \in Keys : k[1] \in Inspections /\ k \in KeysOf(k[1])
    /\ \A i \in Inspections : \A k \in KeysOf(i) : k \in Keys /\ k[1] = i
  BY DEF Keys, KeysOf

\* What the statuses of an inspection's actions say of a single one.
LEMMA StatusOfOne ==
    ASSUME NEW acts, NEW i \in Inspections
    PROVE  /\ \A k \in KeysOf(i) : acts[k] # Absent => acts[k] \in Statuses(acts, i)
           /\ \A s \in Statuses(acts, i) : \E k \in KeysOf(i) : acts[k] = s
  BY DEF Statuses

\* The statuses from which no transition leads away.
LEMMA TerminalStatuses ==
    Terminal = {"AUTO_RELEASED", "RELEASE_APPROVED", "CLOSED", "REJECTED_INPUT"}
  <1>1. Terminal \subseteq {"AUTO_RELEASED", "RELEASE_APPROVED", "CLOSED", "REJECTED_INPUT"}
    <2> SUFFICES ASSUME NEW s \in InspectionStatus, InspectionTransitions[s] = {}
                 PROVE  s \in {"AUTO_RELEASED", "RELEASE_APPROVED", "CLOSED", "REJECTED_INPUT"}
      BY DEF Terminal
    <2> QED
      BY DEF InspectionTransitions, InspectionStatus
  <1>2. ASSUME NEW s \in {"AUTO_RELEASED", "RELEASE_APPROVED", "CLOSED", "REJECTED_INPUT"}
        PROVE  s \in Terminal
    BY DEF Terminal, InspectionTransitions, InspectionStatus
  <1> QED
    BY <1>1, <1>2

\* The initial states.
LEMMA OneRequestInit == Init => OneRequestInvariant
  BY DEF Init, OneRequestInvariant, WorkerIsTimely, RequestIsTimely, StatusHasCause, Idle, Absent

\* What the worker's action is about exists, so its inspection is in the action phase.
LEMMA WorkerIsActing ==
    ASSUME LoopInvariant, worker.op \in {"call", "settle"}
    PROVE  /\ worker.key \in Keys /\ worker.key[1] \in Inspections
           /\ worker.key \in KeysOf(worker.key[1])
           /\ inspection[worker.key[1]] \in Acting /\ incident[worker.key[1]] # Absent
  BY WorkerRecord, KeyOfOne
     DEF LoopInvariant, WorkerIsCurrent, ActionsMatchIncident, ReviewMatchesStatus

\* Steps that change no action and no status: what was read before is as timely as
\* it was, and what is read now is timely.
LEMMA QuietStep ==
    ASSUME LoopInvariant, OneRequestInvariant, UNCHANGED <<inspection, action>>,
           worker'.op \in {"call", "settle"} =>
              \/ /\ worker.op \in {"call", "settle"}
                 /\ worker'.key = worker.key /\ worker'.seen = worker.seen
              \/ action[worker'.key] = "PENDING" /\ inspection[worker'.key[1]] = worker'.seen,
           \A h \in Handlers :
              \/ handler'[h] = handler[h]
              \/ handler'[h].op \notin {"replay", "close"}
              \/ /\ handler'[h].op = "replay"
                 /\ action[handler'[h].key] \in Recoverable
                 /\ handler'[h].seen = inspection[handler'[h].key[1]]
              \/ /\ handler'[h].op = "close"
                 /\ Statuses(action, handler'[h].ins) = {"SUCCEEDED"}
                 /\ inspection[handler'[h].ins] = "ACTION_COMPLETED"
    PROVE  OneRequestInvariant' /\ LawfulStep
  <1>1. WorkerIsTimely'
    BY DEF OneRequestInvariant, WorkerIsTimely
  <1>2. RequestIsTimely'
    <2> SUFFICES ASSUME NEW h \in Handlers PROVE (RequestIsTimely!(h))'
      BY DEF RequestIsTimely
    <2>1. CASE handler'[h] = handler[h]
      BY <2>1 DEF OneRequestInvariant, RequestIsTimely, Statuses
    <2>2. CASE handler'[h] # handler[h]
      BY <2>2 DEF Statuses
    <2> QED
      BY <2>1, <2>2
  <1>3. StatusHasCause'
    BY DEF OneRequestInvariant, StatusHasCause, Statuses
  <1>4. LawfulStep
    BY DEF LawfulStep
  <1> QED
    BY <1>1, <1>2, <1>3, <1>4 DEF OneRequestInvariant

\* The worker's own reads and attempts, its rollback, and the claim of a task.
LEMMA WorkerQuiet ==
    ASSUME LoopInvariant, OneRequestInvariant,
           \/ \E i \in Inspections : TakeInference(i)
           \/ \E k \in Keys : TakeAction(k)
           \/ SkipEvent
           \/ ConnectorSucceeds \/ ConnectorUnanswered \/ ConnectorRefuses
           \/ WorkerRollback
           \/ \E i \in Inspections, u \in Users : ClaimReview(i, u)
    PROVE  OneRequestInvariant' /\ LawfulStep
  <1>1. UNCHANGED <<inspection, action, handler>>
    BY DEF TakeInference, TakeAction, SkipEvent, ConnectorSucceeds, ConnectorUnanswered,
           ConnectorRefuses, WorkerRollback, ClaimReview
  <1>2. worker'.op \in {"call", "settle"} =>
           \/ /\ worker.op \in {"call", "settle"}
              /\ worker'.key = worker.key /\ worker'.seen = worker.seen
           \/ action[worker'.key] = "PENDING" /\ inspection[worker'.key[1]] = worker'.seen
    <2>1. CASE \E i \in Inspections, u \in Users : ClaimReview(i, u)
      BY <2>1 DEF ClaimReview
    <2>2. CASE \E i \in Inspections : TakeInference(i)
      BY <2>2 DEF TakeInference
    <2>3. ASSUME NEW k \in Keys, TakeAction(k), worker'.op \in {"call", "settle"}
          PROVE  action[worker'.key] = "PENDING" /\ inspection[worker'.key[1]] = worker'.seen
      <3>1. CASE action[k] = "PENDING"
        BY <2>3, <3>1 DEF TakeAction
      <3>2. CASE action[k] # "PENDING"
        BY <2>3, <3>2 DEF TakeAction
      <3> QED
        BY <3>1, <3>2
    <2>4. CASE SkipEvent \/ WorkerRollback
      BY <2>4 DEF SkipEvent, WorkerRollback, Idle
    <2>5. CASE ConnectorSucceeds \/ ConnectorRefuses
      BY <2>5 DEF ConnectorSucceeds, ConnectorRefuses, Settling
    <2>6. CASE ConnectorUnanswered
      <3>1. /\ worker.op = "call"
            /\ worker \in [op : {"call"}, key : Keys, seen : InspectionStatus \cup {Absent},
                           seenIncident : IncidentStatus \cup {Absent},
                           attempts : 0..(MaxAttempts - 1)]
        BY <2>6, WorkerRecord DEF ConnectorUnanswered, LoopInvariant
      <3>2. worker' = Settling("FAILED") \/ worker' = [worker EXCEPT !.attempts = @ + 1]
        BY <2>6 DEF ConnectorUnanswered
      <3> QED
        BY <3>1, <3>2 DEF Settling
    <2> QED
      BY <2>1, <2>2, <2>3, <2>4, <2>5, <2>6
  <1> QED
    BY <1>1, <1>2, QuietStep

\* The reads of a request and its rollback.
LEMMA RequestQuiet ==
    ASSUME LoopInvariant, OneRequestInvariant, NEW h \in Handlers,
           \/ \E i \in Inspections, u \in Users, choice \in ReviewChoice :
                 DecideRead(h, i, u, choice)
           \/ \E k \in Keys : RequestRead(h, k) \/ ReplayRead(h, k)
           \/ \E i \in Inspections : CloseRead(h, i)
           \/ HandlerRollback(h)
    PROVE  OneRequestInvariant' /\ LawfulStep
  <1>1. UNCHANGED <<inspection, action, worker>>
    BY DEF DecideRead, RequestRead, ReplayRead, CloseRead, HandlerRollback
  <1>2. \A g \in Handlers \ {h} : handler'[g] = handler[g]
    BY DEF DecideRead, RequestRead, ReplayRead, CloseRead, HandlerRollback, LoopInvariant, TypeOK
  <1> DEFINE Timely(t) ==
               \/ t.op \notin {"replay", "close"}
               \/ /\ t.op = "replay" /\ action[t.key] \in Recoverable
                  /\ t.seen = inspection[t.key[1]]
               \/ /\ t.op = "close" /\ Statuses(action, t.ins) = {"SUCCEEDED"}
                  /\ inspection[t.ins] = "ACTION_COMPLETED"
             Reads(t) == handler' = [handler EXCEPT ![h] = t] /\ Timely(t)
  <1>3. PICK t : Reads(t)
    <2>1. ASSUME NEW i \in Inspections, NEW u \in Users, NEW choice \in ReviewChoice,
                 DecideRead(h, i, u, choice)
          PROVE  \E t : Reads(t)
      <3>1. PICK version \in 1..task[i].version :
               handler' = [handler EXCEPT ![h] = [op |-> "decide", ins |-> i, user |-> u,
                                                  choice |-> choice, version |-> version]]
        BY <2>1 DEF DecideRead
      <3>2. Reads([op |-> "decide", ins |-> i, user |-> u, choice |-> choice,
                   version |-> version])
        BY <3>1
      <3> HIDE DEF Reads
      <3> QED
        BY <3>2
    <2>2. ASSUME NEW k \in Keys, RequestRead(h, k)
          PROVE  \E t : Reads(t)
      <3>1. Reads([op |-> "request", key |-> k])
        BY <2>2 DEF RequestRead
      <3> HIDE DEF Reads
      <3> QED
        BY <3>1
    <2>3. ASSUME NEW k \in Keys, ReplayRead(h, k)
          PROVE  \E t : Reads(t)
      <3>1. Reads([op |-> "replay", key |-> k, seen |-> inspection[k[1]],
                   seenIncident |-> incident[k[1]]])
        BY <2>3 DEF ReplayRead
      <3> HIDE DEF Reads
      <3> QED
        BY <3>1
    <2>4. ASSUME NEW i \in Inspections, CloseRead(h, i)
          PROVE  \E t : Reads(t)
      <3>1. Reads([op |-> "close", ins |-> i, seenIncident |-> incident[i]])
        BY <2>4 DEF CloseRead
      <3> HIDE DEF Reads
      <3> QED
        BY <3>1
    <2>5. CASE HandlerRollback(h)
      <3>1. Reads(Idle)
        BY <2>5 DEF HandlerRollback, Idle
      <3> HIDE DEF Reads
      <3> QED
        BY <3>1
    <2> QED
      BY <2>1, <2>2, <2>3, <2>4, <2>5
  <1>4. handler'[h] = t
    BY <1>3 DEF LoopInvariant, TypeOK
  <1> QED
    BY <1>1, <1>2, <1>3, <1>4, QuietStep

\* An inspection that has no incident moves: nobody has read it for its actions.
LEMMA BeforeActions ==
    ASSUME LoopInvariant, OneRequestInvariant, NEW i \in Inspections, NEW s,
           inspection[i] \notin Acting \cup Terminal, s \notin Acting,
           inspection' = [inspection EXCEPT ![i] = s], action' = action,
           worker' \in {worker, Idle},
           \A h \in Handlers : handler'[h] \in {handler[h], Idle}
    PROVE  OneRequestInvariant' /\ LawfulStep
  <1>1. \A j \in Inspections : j # i => inspection'[j] = inspection[j]
    BY DEF LoopInvariant, TypeOK
  <1>2. inspection'[i] = s
    BY DEF LoopInvariant, TypeOK
  <1>3. WorkerIsTimely'
    <2>1. CASE worker' = Idle
      BY <2>1 DEF WorkerIsTimely, Idle
    <2>2. CASE worker' = worker
      <3> SUFFICES ASSUME worker.op \in {"call", "settle"} PROVE WorkerIsTimely'
        BY <2>2 DEF WorkerIsTimely
      <3>1. worker.key[1] # i /\ worker.key[1] \in Inspections
        BY WorkerIsActing
      <3> QED
        BY <1>1, <2>2, <3>1 DEF OneRequestInvariant, WorkerIsTimely
    <2> QED
      BY <2>1, <2>2
  <1>4. RequestIsTimely'
    <2> SUFFICES ASSUME NEW h \in Handlers PROVE (RequestIsTimely!(h))'
      BY DEF RequestIsTimely
    <2>1. CASE handler'[h] = Idle
      BY <2>1 DEF Idle
    <2>2. CASE handler'[h] = handler[h]
      <3>1. handler[h].op = "replay" => handler[h].key[1] \in Inspections
        BY HandlerRecord, KeyOfOne DEF LoopInvariant
      <3>2. handler[h].op = "close" => handler[h].ins \in Inspections
        BY HandlerRecord DEF LoopInvariant
      <3> QED
        BY <1>1, <2>2, <3>1, <3>2 DEF OneRequestInvariant, RequestIsTimely, Acting, Statuses
    <2> QED
      BY <2>1, <2>2
  <1>5. StatusHasCause'
    BY <1>1, <1>2 DEF OneRequestInvariant, StatusHasCause, Acting, Statuses
  <1>6. LawfulStep
    BY <1>1, <1>2 DEF LawfulStep, Acting
  <1> QED
    BY <1>3, <1>4, <1>5, <1>6 DEF OneRequestInvariant

\* The intake and the inference.
LEMMA IntakeLawful ==
    ASSUME LoopInvariant, OneRequestInvariant,
           FinishInference \/ \E i \in Inspections : CreateInspection(i)
    PROVE  OneRequestInvariant' /\ LawfulStep
  <1>1. ASSUME NEW i \in Inspections, CreateInspection(i)
        PROVE  OneRequestInvariant' /\ LawfulStep
    BY <1>1, BeforeActions, TerminalStatuses DEF CreateInspection, Acting, Absent
  <1>2. CASE FinishInference
    <2> DEFINE i == worker.ins
    <2>1. i \in Inspections /\ inspection[i] = "VALIDATED"
      BY <1>2, WorkerRecord DEF FinishInference, LoopInvariant, WorkerIsCurrent
    <2>2. \E s \in {"AUTO_RELEASED", "REVIEW_REQUIRED", "BATCH_HELD"} :
             inspection' = [inspection EXCEPT ![i] = s]
      <3>1. InspectionTransitions["SCORED"] = {"AUTO_RELEASED", "REVIEW_REQUIRED", "BATCH_HELD"}
        BY DEF InspectionTransitions, InspectionStatus
      <3> QED
        BY <1>2, <3>1 DEF FinishInference, InferenceUnavailable, InferenceScored
    <2>3. worker' = Idle /\ action' = action /\ handler' = handler
      BY <1>2 DEF FinishInference
    <2> HIDE DEF i
    <2> QED
      BY <2>1, <2>2, <2>3, BeforeActions, TerminalStatuses DEF Acting
  <1> QED
    BY <1>1, <1>2

\* No request is open once the only one has ended.
LEMMA OnlyRequestEnds ==
    ASSUME TypeOK, OneHandler, NEW h \in Handlers, handler' = [handler EXCEPT ![h] = Idle]
    PROVE  RequestIsTimely'
  <1>1. \A g \in Handlers : handler'[g] = Idle
    BY DEF TypeOK, OneHandler
  <1> QED
    BY <1>1 DEF RequestIsTimely, Idle

\* A decision: an incident begins with two PENDING actions, and the worker has read
\* nothing of an inspection without one.
LEMMA DecideLawful ==
    ASSUME LoopInvariant, OneRequestInvariant, OneHandler, NEW h \in Handlers, DecideCommit(h)
    PROVE  OneRequestInvariant' /\ LawfulStep
  <1> DEFINE i == handler[h].ins
             choice == handler[h].choice
             automatic == {i} \X Automatic
  <1>1. /\ i \in Inspections /\ inspection[i] \in InReview /\ choice \in ReviewChoice
        /\ handler' = [handler EXCEPT ![h] = Idle] /\ worker' = worker
    BY HandlerRecord DEF DecideCommit, CompleteReview, LoopInvariant, ReviewMatchesStatus
  <1>2. \A g \in Handlers : handler'[g] \in {handler[g], Idle}
    BY <1>1 DEF LoopInvariant, TypeOK
  <1>3. CASE choice \notin HighRisk
    <2>1. inspection' = [inspection EXCEPT ![i] = Disposition(choice)] /\ action' = action
      BY <1>3 DEF DecideCommit
    <2>2. Disposition(choice) \in {"RELEASE_APPROVED", "ESCALATED"}
      BY <1>1, <1>3 DEF Disposition, ReviewChoice, HighRisk
    <2> HIDE DEF i, choice
    <2> QED
      BY <1>1, <1>2, <2>1, <2>2, BeforeActions, TerminalStatuses DEF Acting, InReview
  <1>4. CASE choice \in HighRisk
    <2>1. /\ inspection' = [inspection EXCEPT ![i] = "ACTION_PENDING"]
          /\ action' = [k \in Keys |-> IF k \in automatic THEN "PENDING" ELSE action[k]]
      BY <1>4 DEF DecideCommit, CreateIncident
    <2>2. \A j \in Inspections : j # i => /\ inspection'[j] = inspection[j]
                                          /\ \A k \in KeysOf(j) : action'[k] = action[k]
      BY <2>1, KeyOfOne DEF LoopInvariant, TypeOK
    <2>3. WorkerIsTimely'
      <3> SUFFICES ASSUME worker.op \in {"call", "settle"} PROVE WorkerIsTimely'
        BY <1>1 DEF WorkerIsTimely
      <3>1. /\ worker.key[1] # i /\ worker.key[1] \in Inspections
            /\ worker.key \in KeysOf(worker.key[1])
        BY <1>1, WorkerIsActing DEF InReview, Acting
      <3> QED
        BY <1>1, <2>2, <3>1 DEF OneRequestInvariant, WorkerIsTimely
    <2>4. RequestIsTimely'
      BY <1>1, OnlyRequestEnds DEF LoopInvariant
    <2>5. StatusHasCause'
      <3> SUFFICES ASSUME NEW j \in Inspections,
                          inspection'[j] \in {"ACTION_PENDING", "ACTION_EXECUTING"}
                   PROVE  "PENDING" \in Statuses(action', j)
        BY DEF StatusHasCause, Statuses
      <3>1. CASE j = i
        <4>1. <<i, "mes:hold">> \in KeysOf(i) /\ <<i, "mes:hold">> \in automatic
          BY DEF KeysOf, Automatic
        <4>2. action'[<<i, "mes:hold">>] = "PENDING"
          BY <1>1, <2>1, <4>1, KeyOfOne
        <4> QED
          BY <1>1, <3>1, <4>1, <4>2, StatusOfOne DEF Absent
      <3>2. CASE j # i
        <4>1. "PENDING" \in Statuses(action, j)
          BY <2>2, <3>2 DEF OneRequestInvariant, StatusHasCause
        <4> QED
          BY <2>2, <3>2, <4>1 DEF Statuses
      <3> QED
        BY <3>1, <3>2
    <2>6. LawfulStep
      BY <1>1, <2>1, <2>2, TerminalStatuses DEF LawfulStep, InReview, LoopInvariant, TypeOK
    <2> QED
      BY <2>3, <2>4, <2>5, <2>6 DEF OneRequestInvariant
  <1> QED
    BY <1>3, <1>4

\* A request for a further action or a replay makes one action PENDING; the replay
\* moves an inspection only from the failure it has read.
LEMMA PendingLawful ==
    ASSUME LoopInvariant, OneRequestInvariant, OneHandler, NEW h \in Handlers,
           RequestCommit(h) \/ ReplayCommit(h)
    PROVE  OneRequestInvariant' /\ LawfulStep
  <1> DEFINE k == handler[h].key
             i == k[1]
  <1>1. /\ k \in Keys /\ i \in Inspections /\ k \in KeysOf(i)
        /\ handler' = [handler EXCEPT ![h] = Idle] /\ worker' = worker
        /\ action' = [action EXCEPT ![k] = "PENDING"]
        /\ action[k] \in Recoverable \cup {Absent}
    BY HandlerRecord, KeyOfOne
       DEF RequestCommit, ReplayCommit, LoopInvariant, OneRequestInvariant, RequestIsTimely
  <1>2. \/ inspection' = inspection
        \/ /\ inspection[i] = "ACTION_FAILED"
           /\ inspection' = [inspection EXCEPT ![i] = "ACTION_PENDING"]
    BY DEF RequestCommit, ReplayCommit, OneRequestInvariant, RequestIsTimely
  <1>3. /\ action'[k] = "PENDING"
        /\ \A j \in Keys : j # k => action'[j] = action[j]
    BY <1>1 DEF LoopInvariant, TypeOK
  <1>4. \A j \in Inspections : j # i => inspection'[j] = inspection[j]
    BY <1>2 DEF LoopInvariant, TypeOK
  <1>5. \/ inspection'[i] = inspection[i]
        \/ /\ inspection[i] = "ACTION_FAILED"
           /\ inspection'[i] = "ACTION_PENDING"
    BY <1>1, <1>2 DEF LoopInvariant, TypeOK
  <1> HIDE DEF k, i
  <1>6. WorkerIsTimely'
    <2> SUFFICES ASSUME worker.op \in {"call", "settle"} PROVE WorkerIsTimely'
      BY <1>1 DEF WorkerIsTimely
    <2> DEFINE w == worker.key
    <2>1. w \in Keys /\ w[1] \in Inspections /\ action[w] = "PENDING" /\ w # k
      BY <1>1, WorkerIsActing DEF OneRequestInvariant, WorkerIsTimely, Recoverable, Absent
    <2>2. action'[w] = "PENDING"
      BY <1>3, <2>1
    <2>3. \/ inspection'[w[1]] = worker.seen
          \/ /\ inspection'[w[1]] = "ACTION_PENDING" /\ worker.seen = "ACTION_FAILED"
             /\ \E j \in KeysOf(w[1]) \ {w} : action'[j] = "PENDING"
      <3>1. CASE inspection[w[1]] = worker.seen
        <4>1. CASE inspection'[w[1]] = inspection[w[1]]
          BY <3>1, <4>1
        <4>2. CASE inspection'[w[1]] # inspection[w[1]]
          BY <1>1, <1>3, <1>4, <1>5, <2>1, <3>1, <4>2
        <4> QED
          BY <4>1, <4>2
      <3>2. CASE inspection[w[1]] # worker.seen
        <4>1. /\ inspection[w[1]] = "ACTION_PENDING" /\ worker.seen = "ACTION_FAILED"
              /\ \E j \in KeysOf(w[1]) \ {w} : action[j] = "PENDING"
          BY <3>2 DEF OneRequestInvariant, WorkerIsTimely
        <4>2. inspection'[w[1]] = "ACTION_PENDING"
          BY <1>4, <1>5, <2>1, <4>1
        <4>3. \A j \in KeysOf(w[1]) : action[j] = "PENDING" => action'[j] = "PENDING"
          BY <1>3, <2>1, KeyOfOne
        <4> QED
          BY <4>1, <4>2, <4>3
      <3> QED
        BY <3>1, <3>2
    <2> QED
      BY <1>1, <2>2, <2>3 DEF WorkerIsTimely
  <1>7. RequestIsTimely'
    BY <1>1, OnlyRequestEnds DEF LoopInvariant
  <1>8. StatusHasCause'
    <2> SUFFICES ASSUME NEW j \in Inspections,
                        inspection'[j] \in {"ACTION_PENDING", "ACTION_EXECUTING"}
                 PROVE  "PENDING" \in Statuses(action', j)
      BY DEF StatusHasCause, Statuses
    <2>1. CASE j = i
      <3>1. k \in KeysOf(j) /\ action'[k] = "PENDING"
        BY <1>1, <1>3, <2>1
      <3> QED
        BY <3>1, StatusOfOne DEF Absent
    <2>2. CASE j # i
      <3>1. "PENDING" \in Statuses(action, j)
        BY <1>4, <2>2 DEF OneRequestInvariant, StatusHasCause
      <3>2. PICK q \in KeysOf(j) : action[q] = "PENDING"
        BY <3>1, StatusOfOne
      <3>3. action'[q] = "PENDING"
        BY <1>3, <3>2, KeyOfOne
      <3> QED
        BY <3>2, <3>3, StatusOfOne DEF Absent
    <2> QED
      BY <2>1, <2>2
  <1>9. LawfulStep
    BY <1>4, <1>5, TerminalStatuses DEF LawfulStep
  <1> QED
    BY <1>6, <1>7, <1>8, <1>9 DEF OneRequestInvariant

\* A closure: everything it has read still holds, and the worker holds no action of
\* that inspection.
LEMMA CloseLawful ==
    ASSUME LoopInvariant, OneRequestInvariant, OneHandler, NEW h \in Handlers, CloseCommit(h)
    PROVE  OneRequestInvariant' /\ LawfulStep
  <1> DEFINE i == handler[h].ins
  <1>1. /\ i \in Inspections /\ Statuses(action, i) = {"SUCCEEDED"}
        /\ inspection[i] = "ACTION_COMPLETED"
        /\ inspection' = [inspection EXCEPT ![i] = "CLOSED"]
        /\ handler' = [handler EXCEPT ![h] = Idle] /\ UNCHANGED <<action, worker>>
    BY HandlerRecord DEF CloseCommit, LoopInvariant, OneRequestInvariant, RequestIsTimely
  <1> HIDE DEF i
  <1>2. /\ inspection'[i] = "CLOSED"
        /\ \A j \in Inspections : j # i => inspection'[j] = inspection[j]
    BY <1>1 DEF LoopInvariant, TypeOK
  <1>3. WorkerIsTimely'
    <2> SUFFICES ASSUME worker.op \in {"call", "settle"} PROVE WorkerIsTimely'
      BY <1>1 DEF WorkerIsTimely
    <2>1. /\ worker.key[1] \in Inspections /\ worker.key \in KeysOf(worker.key[1])
          /\ action[worker.key] = "PENDING"
      BY WorkerIsActing DEF OneRequestInvariant, WorkerIsTimely
    <2>2. worker.key[1] # i
      BY <1>1, <2>1, StatusOfOne DEF Absent
    <2> QED
      BY <1>1, <1>2, <2>1, <2>2 DEF OneRequestInvariant, WorkerIsTimely
  <1>4. RequestIsTimely'
    BY <1>1, OnlyRequestEnds DEF LoopInvariant
  <1>5. StatusHasCause'
    BY <1>1, <1>2 DEF OneRequestInvariant, StatusHasCause, Statuses
  <1>6. LawfulStep
    BY <1>1, <1>2, TerminalStatuses DEF LawfulStep
  <1> QED
    BY <1>3, <1>4, <1>5, <1>6 DEF OneRequestInvariant

\* The worker settles an action: where it writes a status it has read the current
\* one, and where a replay has overtaken it another action is PENDING.
LEMMA SettleLawful ==
    ASSUME LoopInvariant, OneRequestInvariant, NEW consumed \in 1..2, SettleAction(consumed)
    PROVE  OneRequestInvariant' /\ LawfulStep
  <1> DEFINE k       == worker.key
             i       == k[1]
             after   == [action EXCEPT ![k] = worker.result]
             running == IF worker.seen = "ACTION_PENDING" THEN "ACTION_EXECUTING" ELSE worker.seen
             final   == IF running = "ACTION_EXECUTING"
                        THEN Summary(Statuses(after, i), running) ELSE running
  <1>1. /\ k \in Keys /\ i \in Inspections /\ k \in KeysOf(i) /\ action[k] = "PENDING"
        /\ worker' = Idle /\ handler' = handler /\ action' = after
        /\ inspection' = IF final = worker.seen
                         THEN inspection ELSE [inspection EXCEPT ![i] = final]
    BY WorkerIsActing DEF SettleAction, OneRequestInvariant, WorkerIsTimely
  <1>2. \/ inspection[i] = worker.seen
        \/ /\ inspection[i] = "ACTION_PENDING" /\ worker.seen = "ACTION_FAILED"
           /\ \E j \in KeysOf(i) \ {k} : action[j] = "PENDING"
    BY DEF SettleAction, OneRequestInvariant, WorkerIsTimely
  <1>3. \A j \in Keys : j # k => action'[j] = action[j]
    BY <1>1 DEF LoopInvariant, TypeOK
  <1>4. \A j \in Inspections : j # i => /\ inspection'[j] = inspection[j]
                                        /\ Statuses(action', j) = Statuses(action, j)
    <2> SUFFICES ASSUME NEW j \in Inspections, j # i
                 PROVE  /\ inspection'[j] = inspection[j]
                        /\ Statuses(action', j) = Statuses(action, j)
      OBVIOUS
    <2>1. \A q \in KeysOf(j) : action'[q] = action[q]
      BY <1>1, <1>3, KeyOfOne
    <2> QED
      BY <1>1, <2>1 DEF LoopInvariant, TypeOK, Statuses
  <1>5. \/ /\ inspection[i] \in {"ACTION_PENDING", "ACTION_EXECUTING"}
           /\ inspection'[i] = Summary(Statuses(action', i), "ACTION_EXECUTING")
        \/ /\ inspection' = inspection
           /\ inspection[i] \in {"ACTION_PENDING", "ACTION_EXECUTING"} =>
                 \E j \in KeysOf(i) \ {k} : action[j] = "PENDING"
    <2>1. CASE worker.seen \in {"ACTION_PENDING", "ACTION_EXECUTING"}
      <3>1. running = "ACTION_EXECUTING" /\ final = Summary(Statuses(action', i), "ACTION_EXECUTING")
        BY <1>1, <2>1
      <3>2. inspection[i] = worker.seen
        BY <1>2, <2>1
      <3>3. inspection'[i] = final
        BY <1>1, <3>2 DEF LoopInvariant, TypeOK
      <3> QED
        BY <2>1, <3>1, <3>2, <3>3
    <2>2. CASE worker.seen \notin {"ACTION_PENDING", "ACTION_EXECUTING"}
      <3>1. final = worker.seen
        BY <2>2
      <3> QED
        BY <1>1, <1>2, <2>2, <3>1
    <2> QED
      BY <2>1, <2>2
  <1>6. action' \in [Keys -> ActionStatus \cup {Absent}]
    BY <1>1, WorkerRecord DEF LoopInvariant, TypeOK, SettleAction
  <1> HIDE DEF k, i, after, running, final
  <1>7. WorkerIsTimely'
    BY <1>1 DEF WorkerIsTimely, Idle
  <1>8. RequestIsTimely'
    <2> SUFFICES ASSUME NEW h \in Handlers PROVE (RequestIsTimely!(h))'
      BY DEF RequestIsTimely
    <2>1. ASSUME handler[h].op = "replay"
          PROVE  /\ action'[handler[h].key] \in Recoverable
                 /\ handler[h].seen = "ACTION_FAILED" =>
                       inspection'[handler[h].key[1]] = "ACTION_FAILED"
      <3>1. /\ handler[h].key \in Keys /\ handler[h].key[1] \in Inspections
            /\ action[handler[h].key] \in Recoverable
            /\ handler[h].seen = "ACTION_FAILED" =>
                  inspection[handler[h].key[1]] = "ACTION_FAILED"
        BY <2>1, HandlerRecord, KeyOfOne DEF LoopInvariant, OneRequestInvariant, RequestIsTimely
      <3>2. handler[h].key # k
        BY <1>1, <3>1 DEF Recoverable
      <3> QED
        BY <1>3, <1>4, <1>5, <3>1, <3>2
    <2>2. ASSUME handler[h].op = "close"
          PROVE  /\ Statuses(action', handler[h].ins) = {"SUCCEEDED"}
                 /\ inspection'[handler[h].ins] = "ACTION_COMPLETED"
      <3>1. /\ handler[h].ins \in Inspections
            /\ Statuses(action, handler[h].ins) = {"SUCCEEDED"}
            /\ inspection[handler[h].ins] = "ACTION_COMPLETED"
        BY <2>2, HandlerRecord DEF LoopInvariant, OneRequestInvariant, RequestIsTimely
      <3>2. handler[h].ins # i
        BY <1>1, <3>1, StatusOfOne DEF Absent
      <3> QED
        BY <1>4, <3>1, <3>2
    <2> QED
      BY <1>1, <2>1, <2>2 DEF Statuses
  <1>9. StatusHasCause'
    <2> SUFFICES ASSUME NEW j \in Inspections,
                        inspection'[j] \in {"ACTION_PENDING", "ACTION_EXECUTING"}
                 PROVE  "PENDING" \in Statuses(action', j)
      BY DEF StatusHasCause, Statuses
    <2>1. CASE j # i
      BY <1>4, <2>1 DEF OneRequestInvariant, StatusHasCause
    <2>2. CASE j = i /\ inspection'[i] = Summary(Statuses(action', i), "ACTION_EXECUTING")
      <3>1. /\ ~(Statuses(action', i) \subseteq {"SUCCEEDED"})
            /\ Statuses(action', i) \cap Recoverable = {}
        BY <2>2 DEF Summary
      <3>2. PICK s \in Statuses(action', i) : s # "SUCCEEDED"
        BY <3>1
      <3>3. s \in ActionStatus
        BY <1>1, <1>6, <3>2, KeyOfOne DEF Statuses
      <3> QED
        BY <2>2, <3>1, <3>2, <3>3 DEF ActionStatus, Recoverable
    <2>3. CASE j = i /\ inspection' = inspection
      <3>1. CASE \E q \in KeysOf(i) \ {k} : action[q] = "PENDING"
        <4>1. PICK q \in KeysOf(i) \ {k} : action[q] = "PENDING"
          BY <3>1
        <4>2. action'[q] = "PENDING"
          BY <1>1, <1>3, <4>1, KeyOfOne
        <4> QED
          BY <1>1, <2>3, <4>1, <4>2, StatusOfOne DEF Absent
      <3>2. CASE ~\E q \in KeysOf(i) \ {k} : action[q] = "PENDING"
        BY <1>5, <2>2, <2>3, <3>2
      <3> QED
        BY <3>1, <3>2
    <2> QED
      BY <1>5, <2>1, <2>2, <2>3
  <1>10. LawfulStep
    <2>1. Summary(Statuses(action', i), "ACTION_EXECUTING") # "CLOSED"
      BY DEF Summary
    <2> QED
      BY <1>4, <1>5, <2>1, TerminalStatuses DEF LawfulStep
  <1> QED
    BY <1>7, <1>8, <1>9, <1>10 DEF OneRequestInvariant

\* Every step of the loop while there is one request at most.
LEMMA OneRequestStep ==
    ASSUME OneHandler, LoopInvariant, OneRequestInvariant, [Next]_vars
    PROVE  OneRequestInvariant' /\ LawfulStep
  <1>1. CASE Worker
    BY <1>1, WorkerQuiet, IntakeLawful, SettleLawful DEF Worker
  <1>2. ASSUME NEW h \in Handlers, Api(h) PROVE OneRequestInvariant' /\ LawfulStep
    BY <1>2, RequestQuiet, DecideLawful, PendingLawful, CloseLawful DEF Api
  <1>3. CASE UNCHANGED vars
    BY <1>3, QuietStep DEF vars
  <1> QED
    BY <1>1, <1>2, <1>3, WorkerQuiet, IntakeLawful DEF Next

\* With one request at a time what is read is timely.
LEMMA OneRequestHolds ==
    ASSUME OneHandler
    PROVE  Spec => [](LoopInvariant /\ OneRequestInvariant)
  <1>1. Init => LoopInvariant /\ OneRequestInvariant
    BY InitInvariant, OneRequestInit
  <1>2. LoopInvariant /\ OneRequestInvariant /\ [Next]_vars =>
           (LoopInvariant /\ OneRequestInvariant)'
    BY NextInvariant, OneRequestStep
  <1> QED
    BY <1>1, <1>2, PTL DEF Spec

\* One request at a time: an inspection whose actions are under way has one that is.
THEOREM StatusHasCauseHolds ==
    ASSUME OneHandler
    PROVE  Spec => []StatusHasCause
  <1>1. OneRequestInvariant => StatusHasCause
    BY DEF OneRequestInvariant
  <1> QED
    BY <1>1, OneRequestHolds, PTL

\* One request at a time: nothing leaves a terminal status.
THEOREM TerminalIsFinalHolds ==
    ASSUME OneHandler
    PROVE  Spec => TerminalIsFinal
  <1> DEFINE Kept == \A i \in Inspections :
                        inspection[i] \in Terminal => inspection'[i] = inspection[i]
  <1>1. LoopInvariant /\ OneRequestInvariant /\ [Next]_vars => [Kept]_inspection
    BY OneRequestStep DEF LawfulStep
  <1>2. Spec => [][Kept]_inspection
    BY <1>1, OneRequestHolds, PTL DEF Spec
  <1> QED
    BY <1>2 DEF TerminalIsFinal

-----------------------------------------------------------------------------
(***************************************************************************)
(* The loop implements HumanGate, under the refinement mapping of           *)
(* QualityLoop.                                                             *)
(***************************************************************************)
gatePhase     == [i \in Inspections |-> PhaseOf(inspection[i])]
gateAuthority == [i \in Inspections |-> AuthorityOf(decisions[i], inspection[i])]

\* A step that moves one inspection only shows as a move of HumanGate.
LEMMA GateMove ==
    ASSUME NEW i \in Inspections, NEW from, NEW to, NEW who,
           LoopInvariant,
           PhaseOf(inspection[i]) = from,
           PhaseOf(inspection'[i]) = to,
           AuthorityOf(decisions'[i], inspection'[i]) = who,
           \A j \in Inspections : j # i => /\ inspection'[j] = inspection[j]
                                           /\ decisions'[j] = decisions[j],
           UNCHANGED external
    PROVE  Gate!Move(i, from, to, who)
  <1>1. gatePhase' = [gatePhase EXCEPT ![i] = to]
    BY DEF gatePhase
  <1>2. gateAuthority' = [gateAuthority EXCEPT ![i] = who]
    BY DEF gateAuthority
  <1>3. gatePhase[i] = from
    BY DEF gatePhase
  <1> QED
    BY <1>1, <1>2, <1>3 DEF Gate!Move, gatePhase, gateAuthority

\* A step that keeps the decisions, and moves inspections inside the action
\* phase at most, shows nothing of phase and authority.
LEMMA GateStays ==
    ASSUME LoopInvariant, UNCHANGED decisions,
           \A j \in Inspections : \/ inspection'[j] = inspection[j]
                                  \/ inspection[j] \in Acting /\ inspection'[j] \in Acting
    PROVE  UNCHANGED <<gatePhase, gateAuthority>>
  <1>1. \A s \in Acting : PhaseOf(s) = "disposition" /\ s # "AUTO_RELEASED"
    BY DEF Acting, PhaseOf, InReview, Absent
  <1>2. gatePhase' = gatePhase
    BY <1>1 DEF gatePhase
  <1>3. gateAuthority' = gateAuthority
    BY <1>1 DEF gateAuthority, AuthorityOf
  <1> QED
    BY <1>2, <1>3

\* The authority over an inspection in the action phase is a manager.
LEMMA ActingAuthority ==
    ASSUME LoopInvariant, NEW i \in Inspections, inspection[i] \in Acting
    PROVE  gatePhase[i] = "disposition" /\ gateAuthority[i] \in Managers
  <1>1. PICK d \in decisions[i] : d.actor \in Managers
    BY DEF LoopInvariant, ReviewMatchesStatus
  <1>2. (CHOOSE e \in decisions[i] : TRUE) = d
    BY <1>1 DEF LoopInvariant, DecidedOnce
  <1>3. AuthorityOf(decisions[i], inspection[i]) \in Managers
    BY <1>1, <1>2 DEF AuthorityOf
  <1>4. PhaseOf(inspection[i]) = "disposition"
    BY DEF Acting, PhaseOf, InReview, Absent
  <1> QED
    BY <1>3, <1>4 DEF gatePhase, gateAuthority

\* Nothing is received, decided or written at first.
LEMMA GateInit == Init => Gate!Init
  <1> SUFFICES ASSUME Init PROVE Gate!Init
    OBVIOUS
  <1>1. PhaseOf(Absent) = "none" /\ AuthorityOf({}, Absent) = "nobody"
    BY DEF PhaseOf, AuthorityOf, Absent, InReview
  <1>2. \A i \in Inspections : inspection[i] = Absent /\ decisions[i] = {}
    BY DEF Init
  <1> QED
    BY <1>1, <1>2 DEF Init, Gate!Init

\* The worker's result is a release by policy or a referral to people.
LEMMA GateFinishInference ==
    ASSUME LoopInvariant, FinishInference
    PROVE  Gate!Next
  <1> USE DEF LoopInvariant
  <1> DEFINE i == worker.ins
  <1>1. i \in Inspections /\ inspection[i] = "VALIDATED"
    BY WorkerRecord DEF FinishInference, WorkerIsCurrent
  <1>2. decisions[i] = {} /\ UNCHANGED <<decisions, external>>
    BY <1>1 DEF ReviewMatchesStatus, DecidedOnce, FinishInference, Absent
  <1>3. PICK target \in {"AUTO_RELEASED", "REVIEW_REQUIRED", "BATCH_HELD"} :
           inspection' = [inspection EXCEPT ![i] = target]
    <2>1. InspectionTransitions["SCORED"] = {"AUTO_RELEASED", "REVIEW_REQUIRED", "BATCH_HELD"}
      BY DEF InspectionTransitions, InspectionStatus
    <2> QED
      BY <2>1 DEF FinishInference, InferenceUnavailable, InferenceScored
  <1>4. /\ inspection'[i] = target
        /\ \A j \in Inspections : j # i => inspection'[j] = inspection[j]
    BY <1>1, <1>3 DEF TypeOK
  <1>5. PhaseOf(inspection[i]) = "machine"
    BY <1>1 DEF PhaseOf, Absent, InReview
  <1>6. CASE target = "AUTO_RELEASED"
    <2>1. PhaseOf(target) = "released" /\ AuthorityOf(decisions'[i], target) = "policy"
      BY <1>2, <1>6 DEF PhaseOf, AuthorityOf, Absent, InReview
    <2>2. Gate!ReleaseByPolicy(i)
      BY <1>1, <1>2, <1>4, <1>5, <2>1, GateMove DEF Gate!ReleaseByPolicy
    <2> QED
      BY <1>1, <2>2 DEF Gate!Next
  <1>7. CASE target # "AUTO_RELEASED"
    <2>1. PhaseOf(target) = "people" /\ AuthorityOf(decisions'[i], target) = "nobody"
      BY <1>2, <1>7 DEF PhaseOf, AuthorityOf, Absent, InReview
    <2>2. Gate!Refer(i)
      BY <1>1, <1>2, <1>4, <1>5, <2>1, GateMove DEF Gate!Refer
    <2> QED
      BY <1>1, <2>2 DEF Gate!Next
  <1> QED
    BY <1>6, <1>7

\* A decision is a release, an escalation or a manager's disposition.
LEMMA GateDecide ==
    ASSUME LoopInvariant, NEW h \in Handlers, DecideCommit(h)
    PROVE  Gate!Next
  <1> USE DEF LoopInvariant
  <1> DEFINE i == handler[h].ins
             u == handler[h].user
             choice == handler[h].choice
             d == [actor |-> u, choice |-> choice, version |-> handler[h].version]
             status == IF choice \in HighRisk THEN "ACTION_PENDING" ELSE Disposition(choice)
  <1>1. /\ i \in Inspections /\ u \in Users /\ choice \in ReviewChoice
        /\ choice \in HighRisk => u \in Managers
        /\ task[i].status = "OPEN"
    BY HandlerRecord DEF DecideCommit, CompleteReview, HandlerIsCurrent
  <1>2. decisions[i] = {} /\ inspection[i] \in InReview
    BY <1>1 DEF DecidedOnce, ReviewMatchesStatus
  <1>3. /\ decisions' = [decisions EXCEPT ![i] = {d}]
        /\ inspection' = [inspection EXCEPT ![i] = status]
        /\ UNCHANGED external
    BY <1>2 DEF DecideCommit, CompleteReview
  <1>4. /\ inspection'[i] = status /\ decisions'[i] = {d}
        /\ \A j \in Inspections : j # i => /\ inspection'[j] = inspection[j]
                                           /\ decisions'[j] = decisions[j]
    BY <1>1, <1>3 DEF TypeOK
  <1>5. PhaseOf(inspection[i]) = "people"
    BY <1>2 DEF PhaseOf, InReview, Absent
  <1>6. AuthorityOf(decisions'[i], inspection'[i]) = u
    <2>1. (CHOOSE e \in {d} : TRUE) = d
      OBVIOUS
    <2>2. d.actor = u
      OBVIOUS
    <2> HIDE DEF d
    <2> QED
      BY <1>4, <2>1, <2>2 DEF AuthorityOf
  <1>7. CASE choice \in HighRisk
    <2>1. PhaseOf(status) = "disposition"
      BY <1>7 DEF PhaseOf, InReview, Absent
    <2> HIDE DEF i, u, d, status
    <2>2. Gate!Disposition(i, u)
      BY <1>1, <1>3, <1>4, <1>5, <1>6, <1>7, <2>1, GateMove DEF Gate!Disposition
    <2> QED
      BY <1>1, <2>2 DEF Gate!Next
  <1>8. CASE choice = "GOOD"
    <2>1. PhaseOf(status) = "released"
      BY <1>8 DEF PhaseOf, InReview, Absent, HighRisk, Disposition
    <2> HIDE DEF i, u, d, status
    <2>2. Gate!Release(i, u)
      BY <1>1, <1>3, <1>4, <1>5, <1>6, <2>1, GateMove DEF Gate!Release
    <2> QED
      BY <1>1, <2>2 DEF Gate!Next
  <1>9. CASE choice = "UNABLE_TO_DETERMINE"
    <2>1. PhaseOf(status) = "escalated"
      BY <1>9 DEF PhaseOf, InReview, Absent, HighRisk, Disposition
    <2> HIDE DEF i, u, d, status
    <2>2. Gate!Escalate(i, u)
      BY <1>1, <1>3, <1>4, <1>5, <1>6, <2>1, GateMove DEF Gate!Escalate
    <2> QED
      BY <1>1, <2>2 DEF Gate!Next
  <1> QED
    BY <1>1, <1>7, <1>8, <1>9 DEF ReviewChoice

\* Every other step is an effect in the action phase or shows nothing.
LEMMA GateOther ==
    ASSUME LoopInvariant,
           UNCHANGED <<decisions, external>>,
           \A j \in Inspections : \/ inspection'[j] = inspection[j]
                                  \/ inspection[j] \in Acting /\ inspection'[j] \in Acting
    PROVE  UNCHANGED Gate!vars
  BY GateStays DEF Gate!vars, gatePhase, gateAuthority

LEMMA GateConnector ==
    ASSUME LoopInvariant, ConnectorSucceeds \/ ConnectorUnanswered
    PROVE  Gate!Next \/ UNCHANGED Gate!vars
  <1> USE DEF LoopInvariant
  <1> DEFINE k == worker.key
  <1>1. /\ k \in Keys /\ k[1] \in Inspections
        /\ UNCHANGED <<inspection, decisions>>
        /\ external' \in {external, external \cup {k}}
    BY WorkerRecord DEF ConnectorSucceeds, ConnectorUnanswered, reviewVars, Keys
  <1>2. CASE external' = external
    BY <1>1, <1>2, GateOther
  <1>3. CASE external' = external \cup {k}
    <2>1. UNCHANGED <<gatePhase, gateAuthority>>
      BY <1>1, GateStays
    <2>2. action[k] # Absent
      BY DEF ConnectorSucceeds, ConnectorUnanswered, WorkerIsCurrent
    <2>3. inspection[k[1]] \in Acting
      BY <1>1, <2>2 DEF ActionsMatchIncident, ReviewMatchesStatus
    <2>4. gatePhase[k[1]] = "disposition" /\ gateAuthority[k[1]] \in Managers
      BY <1>1, <2>3, ActingAuthority
    <2>5. Gate!Effect(k)
      BY <1>3, <2>1, <2>4 DEF Gate!Effect, gatePhase, gateAuthority
    <2> QED
      BY <1>1, <2>5 DEF Gate!Next
  <1> QED
    BY <1>1, <1>2, <1>3

\* Every step of the loop is a step of HumanGate or shows nothing there.
LEMMA GateNext ==
    ASSUME LoopInvariant, [Next]_vars
    PROVE  Gate!Next \/ UNCHANGED Gate!vars
  <1> USE DEF LoopInvariant
  <1>1. ASSUME NEW i \in Inspections, CreateInspection(i) PROVE Gate!Next
    <2>1. /\ inspection[i] = Absent /\ inspection'[i] = "VALIDATED" /\ decisions'[i] = {}
          /\ \A j \in Inspections : j # i => /\ inspection'[j] = inspection[j]
                                             /\ decisions'[j] = decisions[j]
          /\ UNCHANGED external
      BY <1>1 DEF CreateInspection, TypeOK, ReviewMatchesStatus, DecidedOnce, Absent
    <2>2. /\ PhaseOf(Absent) = "none" /\ PhaseOf("VALIDATED") = "machine"
          /\ AuthorityOf({}, "VALIDATED") = "nobody"
      BY DEF PhaseOf, AuthorityOf, Absent, InReview
    <2>3. Gate!Receive(i)
      BY <2>1, <2>2, GateMove DEF Gate!Receive
    <2> QED
      BY <2>3 DEF Gate!Next
  <1>2. ASSUME NEW i \in Inspections, NEW u \in Users, ClaimReview(i, u)
        PROVE  UNCHANGED Gate!vars
    BY <1>2, GateOther DEF ClaimReview
  <1>3. CASE Worker
    <2>1. CASE FinishInference
      BY <2>1, GateFinishInference
    <2>2. CASE ConnectorSucceeds \/ ConnectorUnanswered
      BY <2>2, GateConnector
    <2>3. ASSUME NEW consumed \in 1..2, SettleAction(consumed) PROVE UNCHANGED Gate!vars
      <3> DEFINE i == worker.key[1]
      <3>1. /\ i \in Inspections /\ inspection[i] \in Acting
            /\ inspection' \in {inspection} \cup {[inspection EXCEPT ![i] = s] : s \in Acting}
            /\ UNCHANGED <<decisions, external>>
        BY <2>3, SettleWritesActing DEF reviewVars
      <3>2. \A j \in Inspections : \/ inspection'[j] = inspection[j]
                                   \/ inspection[j] \in Acting /\ inspection'[j] \in Acting
        BY <3>1 DEF TypeOK
      <3> QED
        BY <3>1, <3>2, GateOther
    <2>4. CASE \/ \E i \in Inspections : TakeInference(i)
               \/ \E k \in Keys : TakeAction(k)
               \/ SkipEvent \/ ConnectorRefuses \/ WorkerRollback
      <3>1. UNCHANGED <<inspection, decisions, external>>
        BY <2>4 DEF TakeInference, TakeAction, SkipEvent, ConnectorRefuses, WorkerRollback,
                    reviewVars
      <3> QED
        BY <3>1, GateOther
    <2> QED
      BY <1>3, <2>1, <2>2, <2>3, <2>4 DEF Worker
  <1>4. ASSUME NEW h \in Handlers, Api(h) PROVE Gate!Next \/ UNCHANGED Gate!vars
    <2>1. CASE DecideCommit(h)
      BY <2>1, GateDecide
    <2>2. CASE ReplayCommit(h) \/ CloseCommit(h)
      <3>1. PICK i \in Inspections : /\ inspection[i] \in Acting
                                     /\ inspection' \in {inspection} \cup
                                           {[inspection EXCEPT ![i] = s] : s \in Acting}
        <4>1. CASE ReplayCommit(h)
          <5>1. handler[h].key[1] \in Inspections /\ inspection[handler[h].key[1]] \in Acting
            BY <4>1, HandlerRecord DEF ReplayCommit, HandlerIsCurrent, ReviewMatchesStatus, Keys
          <5> QED
            BY <4>1, <5>1 DEF ReplayCommit, Acting
        <4>2. CASE CloseCommit(h)
          <5>1. handler[h].ins \in Inspections /\ inspection[handler[h].ins] \in Acting
            BY <4>2, HandlerRecord DEF CloseCommit, HandlerIsCurrent, ReviewMatchesStatus
          <5> QED
            BY <4>2, <5>1 DEF CloseCommit, Acting
        <4> QED
          BY <2>2, <4>1, <4>2
      <3>2. \A j \in Inspections : \/ inspection'[j] = inspection[j]
                                   \/ inspection[j] \in Acting /\ inspection'[j] \in Acting
        BY <3>1 DEF TypeOK
      <3>3. UNCHANGED <<decisions, external>>
        BY <2>2 DEF ReplayCommit, CloseCommit, reviewVars
      <3> QED
        BY <3>2, <3>3, GateOther
    <2>3. CASE \/ \E i \in Inspections, u \in Users, choice \in ReviewChoice :
                     DecideRead(h, i, u, choice)
               \/ \E k \in Keys : RequestRead(h, k) \/ ReplayRead(h, k)
               \/ RequestCommit(h)
               \/ \E i \in Inspections : CloseRead(h, i)
               \/ HandlerRollback(h)
      <3>1. UNCHANGED <<inspection, decisions, external>>
        BY <2>3 DEF DecideRead, RequestRead, ReplayRead, RequestCommit, CloseRead,
                    HandlerRollback, reviewVars
      <3> QED
        BY <3>1, GateOther
    <2> QED
      BY <1>4, <2>1, <2>2, <2>3 DEF Api
  <1>5. CASE UNCHANGED vars
    BY <1>5, GateOther DEF vars
  <1> QED
    BY <1>1, <1>2, <1>3, <1>4, <1>5 DEF Next

\* The quality loop implements the human gate: whatever interleaves, crashes or
\* is replayed, only a named person or the policy moves a product on, and only a
\* manager's decision lets a record reach MES or QMS.
THEOREM LoopImplementsHumanGate == Spec => ImplementsHumanGate
  <1>1. LoopInvariant /\ [Next]_vars => [Gate!Next]_(Gate!vars)
    BY GateNext
  <1> QED
    BY <1>1, GateInit, LoopInvariantHolds, PTL DEF Spec, ImplementsHumanGate, Gate!Spec

=============================================================================
