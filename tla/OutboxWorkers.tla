---------------------------- MODULE OutboxWorkers ----------------------------
(***************************************************************************)
(* Delivery of the transactional outbox (process_one_outbox in              *)
(* backend/app/services.py, looped by backend/app/worker.py) with any       *)
(* number of workers, which SELECT ... FOR UPDATE SKIP LOCKED allows for.   *)
(*                                                                          *)
(* What an event's handler does is QualityLoop's subject; here a handler    *)
(* returns, raises once in a while, or raises every time (Poison).  An      *)
(* event is inserted by an API transaction, which stamps created_at when it *)
(* starts (PostgreSQL's now()) and makes the row visible when it commits.   *)
(***************************************************************************)
EXTENDS Naturals, FiniteSets

CONSTANTS
    Events,      \* rows of outbox_events
    Workers,     \* processes running app.worker
    Nobody,      \* no worker holds the row lock
    Poison,      \* events whose handler raises whenever it runs
    Unknown,     \* events of a topic that process_one_outbox does not know
    MaxMishaps   \* bound: passing failures of handlers and crashes of workers

ASSUME OutboxAssumption ==
    /\ IsFiniteSet(Events)
    /\ Poison \subseteq Events
    /\ Unknown \subseteq Events
    /\ Poison \cap Unknown = {}
    /\ Nobody \notin Workers
    /\ MaxMishaps \in Nat

VARIABLES
    row,         \* outbox_events.status as committed
    stamp,       \* outbox_events.created_at, as a rank
    attempts,    \* outbox_events.attempts as committed
    lock,        \* the worker whose transaction holds the row lock
    job,         \* what each worker is doing
    applied,     \* how often the effects of an event were committed
    mishaps      \* failures so far

outboxVars == <<row, stamp, attempts, lock, job, applied, mishaps>>

RowStatus == {"none", "open", "aborted", "PENDING", "PROCESSED", "FAILED"}

Free == [at |-> "idle"]

WorkerState == {Free} \cup [at : {"handling", "handled"}, event : Events]

OutboxTypeOK ==
    /\ row \in [Events -> RowStatus]
    /\ stamp \in [Events -> Nat]
    /\ attempts \in [Events -> Nat]
    /\ lock \in [Events -> Workers \cup {Nobody}]
    /\ job \in [Workers -> WorkerState]
    /\ applied \in [Events -> Nat]
    /\ mishaps \in 0..MaxMishaps

OutboxInit ==
    /\ row = [e \in Events |-> "none"]
    /\ stamp = [e \in Events |-> 0]
    /\ attempts = [e \in Events |-> 0]
    /\ lock = [e \in Events |-> Nobody]
    /\ job = [w \in Workers |-> Free]
    /\ applied = [e \in Events |-> 0]
    /\ mishaps = 0

-----------------------------------------------------------------------------
(***************************************************************************)
(* API transactions that insert an event.                                   *)
(***************************************************************************)
Begin(e) ==
    /\ row[e] = "none"
    /\ row' = [row EXCEPT ![e] = "open"]
    /\ stamp' = [stamp EXCEPT ![e] = 1 + Cardinality({f \in Events : row[f] # "none"})]
    /\ UNCHANGED <<attempts, lock, job, applied, mishaps>>

End(e) ==
    /\ row[e] = "open"
    /\ \E s \in {"PENDING", "aborted"} : row' = [row EXCEPT ![e] = s]
    /\ UNCHANGED <<stamp, attempts, lock, job, applied, mishaps>>

-----------------------------------------------------------------------------
(***************************************************************************)
(* Workers.                                                                 *)
(***************************************************************************)
Pending == {e \in Events : row[e] = "PENDING"}

\* Variant: FOR UPDATE without SKIP LOCKED's exclusion of locked rows.
SelectableLockedToo == Pending

\* PENDING rows not locked by another transaction; available_at is never later
\* than the insertion.
Selectable == {e \in Pending : lock[e] = Nobody}

Busy(w) == job[w].at # "idle"

\* The statement has no LIMIT: it locks every row it selects and the session
\* takes the first one.
Poll(w) ==
    /\ job[w] = Free
    /\ \E e \in Selectable :
          /\ \A f \in Selectable : stamp[e] <= stamp[f]
          /\ job' = [job EXCEPT ![w] = [at |-> "handling", event |-> e]]
    /\ lock' = [e \in Events |-> IF e \in Selectable THEN w ELSE lock[e]]
    /\ UNCHANGED <<row, stamp, attempts, applied, mishaps>>

Handle(w) ==
    /\ job[w].at = "handling"
    /\ job[w].event \notin Poison
    /\ job' = [job EXCEPT ![w].at = "handled"]
    /\ UNCHANGED <<row, stamp, attempts, lock, applied, mishaps>>

Unlocked(w) == [e \in Events |-> IF lock[e] = w THEN Nobody ELSE lock[e]]

\* Variant: every row of the batch is taken for delivered.
CommitBatch(w) ==
    /\ job[w].at = "handled"
    /\ LET e == job[w].event IN
          /\ row' = [f \in Events |-> IF lock[f] = w THEN "PROCESSED" ELSE row[f]]
          /\ attempts' = [attempts EXCEPT ![e] = @ + 1]
          /\ applied' = [applied EXCEPT ![e] = @ + 1]
    /\ lock' = Unlocked(w)
    /\ job' = [job EXCEPT ![w] = Free]
    /\ UNCHANGED <<stamp, mishaps>>

\* The worker's commit: the effects of the handler, the status and the attempt.
Commit(w) ==
    /\ job[w].at = "handled"
    /\ LET e == job[w].event IN
          /\ row' = [row EXCEPT ![e] = IF e \in Unknown THEN "FAILED" ELSE "PROCESSED"]
          /\ attempts' = [attempts EXCEPT ![e] = @ + 1]
          /\ applied' = IF e \in Unknown THEN applied ELSE [applied EXCEPT ![e] = @ + 1]
    /\ lock' = Unlocked(w)
    /\ job' = [job EXCEPT ![w] = Free]
    /\ UNCHANGED <<stamp, mishaps>>

\* Variant: the FAILED that the except branch writes is committed at once.
RollbackGivesUp(w) ==
    /\ Busy(w)
    /\ \/ job[w].at = "handling" /\ job[w].event \in Poison /\ UNCHANGED mishaps
       \/ mishaps < MaxMishaps /\ mishaps' = mishaps + 1
    /\ row' = [row EXCEPT ![job[w].event] = "FAILED"]
    /\ lock' = Unlocked(w)
    /\ job' = [job EXCEPT ![w] = Free]
    /\ UNCHANGED <<stamp, attempts, applied>>

\* The handler raised, the commit failed or the process died.  The except branch
\* of process_one_outbox sets attempts, last_error and, at the third attempt,
\* FAILED on the row and raises again; run_forever rolls all of it back.
Rollback(w) ==
    /\ Busy(w)
    /\ \/ job[w].at = "handling" /\ job[w].event \in Poison /\ UNCHANGED mishaps
       \/ mishaps < MaxMishaps /\ mishaps' = mishaps + 1
    /\ lock' = Unlocked(w)
    /\ job' = [job EXCEPT ![w] = Free]
    /\ UNCHANGED <<row, stamp, attempts, applied>>

Work(w) == Poll(w) \/ Handle(w) \/ Commit(w) \/ Rollback(w)

OutboxNext ==
    \/ \E e \in Events : Begin(e) \/ End(e)
    \/ \E w \in Workers : Work(w)

\* run_forever loops until it is told to stop and supervision restarts it; an
\* API transaction ends one way or the other.
OutboxFairness ==
    /\ \A w \in Workers : WF_outboxVars(Work(w))
    /\ \A e \in Events : WF_outboxVars(End(e))

OutboxSpec == OutboxInit /\ [][OutboxNext]_outboxVars /\ OutboxFairness

-----------------------------------------------------------------------------
(***************************************************************************)
(* Properties.                                                              *)
(***************************************************************************)

\* The effects of an event are committed at most once, and exactly when the
\* event is marked PROCESSED, whatever workers race, raise or die in between:
\* the row lock and the single transaction of process_one_outbox.
HandledOnce ==
    \A e \in Events : applied[e] = IF row[e] = "PROCESSED" THEN 1 ELSE 0

\* Two workers never have the same event in hand, and the event in hand is one
\* nobody has finished.
HeldAlone ==
    \A w \in Workers :
        Busy(w) => lock[job[w].event] = w /\ row[job[w].event] = "PENDING"

\* At-least-once delivery (backend/README.md): an event that was committed is
\* processed in the end, unless no handler can.
EveryEventDelivered ==
    \A e \in Events \ (Poison \cup Unknown) :
        row[e] = "PENDING" ~> row[e] = "PROCESSED"

OutboxInvariant ==
    /\ OutboxTypeOK
    /\ HandledOnce
    /\ HeldAlone

=============================================================================
