------------------------- MODULE OutboxWorkersProofs -------------------------
(***************************************************************************)
(* The invariant of OutboxWorkers for any number of events and workers and  *)
(* any failing handlers.                                                    *)
(***************************************************************************)
EXTENDS OutboxWorkers, FiniteSetTheorems, TLAPS

\* What OutboxTypeOK says of a worker (WorkerState).
LEMMA WorkerRecord ==
    ASSUME OutboxTypeOK, NEW w \in Workers
    PROVE  /\ job[w].at \in {"idle", "handling", "handled"}
           /\ job[w].at = "idle" <=> job[w] = Free
           /\ Busy(w) => job[w] \in [at : {"handling", "handled"}, event : Events]
  BY DEF OutboxTypeOK, WorkerState, Free, Busy

\* The initial states satisfy the invariant.
LEMMA InitInvariant == OutboxInit => OutboxInvariant
  BY OutboxAssumption
  DEF OutboxInit, OutboxInvariant, OutboxTypeOK, HandledOnce, HeldAlone, Busy, Free, WorkerState, RowStatus

\* API transactions only touch rows that no worker holds.
LEMMA InsertInvariant ==
    ASSUME OutboxInvariant, NEW e \in Events, Begin(e) \/ End(e)
    PROVE  OutboxInvariant'
  <1> USE DEF OutboxInvariant
  <1>1. /\ row[e] \in {"none", "open"}
        /\ row'[e] \in {"open", "PENDING", "aborted"}
        /\ \A f \in Events \ {e} : row'[f] = row[f]
        /\ UNCHANGED <<lock, job, applied, attempts, mishaps>>
    BY DEF Begin, End, OutboxTypeOK
  <1>2. OutboxTypeOK'
    <2>1. CASE Begin(e)
      <3>1. Cardinality({f \in Events : row[f] # "none"}) \in Nat
        BY OutboxAssumption, FS_Subset, FS_CardinalityType
      <3> QED
        BY <2>1, <3>1 DEF Begin, OutboxTypeOK, RowStatus
    <2>2. CASE End(e)
      BY <2>2 DEF End, OutboxTypeOK, RowStatus
    <2> QED
      BY <2>1, <2>2
  <1>3. HandledOnce'
    BY <1>1 DEF HandledOnce
  <1>4. HeldAlone'
    BY <1>1, WorkerRecord DEF HeldAlone, Busy
  <1> QED
    BY <1>2, <1>3, <1>4

\* A claim takes over rows that nobody holds.
LEMMA PollInvariant ==
    ASSUME OutboxInvariant, NEW w \in Workers, Poll(w)
    PROVE  OutboxInvariant'
  <1> USE DEF OutboxInvariant, Poll
  <1>1. PICK e \in Selectable : job' = [job EXCEPT ![w] = [at |-> "handling", event |-> e]]
    OBVIOUS
  <1>2. e \in Events /\ row[e] = "PENDING" /\ lock[e] = Nobody /\ lock'[e] = w
    BY <1>1 DEF Selectable, Pending
  <1>3. OutboxTypeOK'
    BY <1>1, <1>2 DEF OutboxTypeOK, WorkerState
  <1>4. HandledOnce'
    BY DEF HandledOnce
  <1>5. HeldAlone'
    <2> SUFFICES ASSUME NEW v \in Workers, Busy(v)'
                 PROVE  lock'[job'[v].event] = v /\ row'[job'[v].event] = "PENDING"
      BY DEF HeldAlone
    <2>1. CASE v = w
      BY <1>1, <1>2, <2>1 DEF OutboxTypeOK
    <2>2. CASE v # w
      <3>1. job'[v] = job[v] /\ Busy(v)
        BY <1>1, <2>2 DEF OutboxTypeOK, Busy
      <3>2. lock[job[v].event] = v /\ job[v].event \in Events
        BY <3>1, WorkerRecord DEF HeldAlone
      <3>3. job[v].event \notin Selectable
        BY <3>2, OutboxAssumption DEF Selectable
      <3> QED
        BY <3>1, <3>2, <3>3 DEF HeldAlone
    <2> QED
      BY <2>1, <2>2
  <1> QED
    BY <1>3, <1>4, <1>5

\* The handler's return only changes the worker's stage.
LEMMA HandleInvariant ==
    ASSUME OutboxInvariant, NEW w \in Workers, Handle(w)
    PROVE  OutboxInvariant'
  <1> USE DEF OutboxInvariant, Handle
  <1>1. Busy(w) /\ job[w] \in [at : {"handling", "handled"}, event : Events]
    BY WorkerRecord DEF Busy
  <1>2. /\ job'[w] = [at |-> "handled", event |-> job[w].event]
        /\ \A v \in Workers \ {w} : job'[v] = job[v]
    BY <1>1 DEF OutboxTypeOK
  <1>3. OutboxTypeOK'
    BY <1>1, <1>2 DEF OutboxTypeOK, WorkerState
  <1>4. HandledOnce' /\ HeldAlone'
    BY <1>1, <1>2 DEF HandledOnce, HeldAlone, Busy
  <1> QED
    BY <1>3, <1>4

\* When a worker lets go of its rows, the others still hold theirs.
LEMMA ReleaseKeepsOthers ==
    ASSUME OutboxInvariant, NEW w \in Workers, Busy(w),
           job' = [job EXCEPT ![w] = Free], lock' = Unlocked(w),
           \A e \in Events \ {job[w].event} : row'[e] = row[e]
    PROVE  HeldAlone'
  <1> SUFFICES ASSUME NEW v \in Workers, Busy(v)'
               PROVE  lock'[job'[v].event] = v /\ row'[job'[v].event] = "PENDING"
    BY DEF HeldAlone
  <1>1. v # w /\ job'[v] = job[v] /\ Busy(v)
    BY DEF OutboxInvariant, OutboxTypeOK, Busy, Free
  <1>2. /\ job[v].event \in Events
        /\ lock[job[v].event] = v
        /\ row[job[v].event] = "PENDING"
        /\ lock[job[w].event] = w
    BY <1>1, WorkerRecord DEF OutboxInvariant, HeldAlone
  <1>3. job[v].event # job[w].event
    BY <1>1, <1>2
  <1> QED
    BY <1>1, <1>2, <1>3 DEF Unlocked

\* The commit marks the event in hand, which was PENDING and not yet applied.
LEMMA CommitInvariant ==
    ASSUME OutboxInvariant, NEW w \in Workers, Commit(w)
    PROVE  OutboxInvariant'
  <1> DEFINE e == job[w].event
  <1>1. Busy(w) /\ e \in Events /\ row[e] = "PENDING"
    BY WorkerRecord DEF OutboxInvariant, Commit, Busy, HeldAlone
  <1>2. applied[e] = 0
    BY <1>1 DEF OutboxInvariant, HandledOnce
  <1>3. OutboxTypeOK'
    BY <1>1 DEF OutboxInvariant, Commit, OutboxTypeOK, RowStatus, WorkerState, Unlocked
  <1>4. HandledOnce'
    BY <1>1, <1>2 DEF OutboxInvariant, Commit, OutboxTypeOK, HandledOnce
  <1>5. HeldAlone'
    BY <1>1, ReleaseKeepsOthers DEF OutboxInvariant, Commit, OutboxTypeOK
  <1> QED
    BY <1>3, <1>4, <1>5 DEF OutboxInvariant

\* A rollback only lets go.
LEMMA RollbackInvariant ==
    ASSUME OutboxInvariant, NEW w \in Workers, Rollback(w)
    PROVE  OutboxInvariant'
  <1> USE DEF OutboxInvariant, Rollback
  <1>1. OutboxTypeOK'
    BY OutboxAssumption DEF OutboxTypeOK, WorkerState, Unlocked
  <1>2. HandledOnce'
    BY DEF HandledOnce
  <1>3. HeldAlone'
    BY ReleaseKeepsOthers
  <1> QED
    BY <1>1, <1>2, <1>3

\* The invariant holds whatever races, raises or dies.
THEOREM OutboxInvariantHolds == OutboxSpec => []OutboxInvariant
  <1>1. OutboxInvariant /\ [OutboxNext]_outboxVars => OutboxInvariant'
    <2> SUFFICES ASSUME OutboxInvariant, [OutboxNext]_outboxVars PROVE OutboxInvariant'
      OBVIOUS
    <2>1. CASE UNCHANGED outboxVars
      BY <2>1 DEF outboxVars, OutboxInvariant, OutboxTypeOK, HandledOnce, HeldAlone, Busy
    <2>2. CASE OutboxNext
      BY <2>2, InsertInvariant, PollInvariant, HandleInvariant, CommitInvariant,
         RollbackInvariant DEF OutboxNext, Work
    <2> QED
      BY <2>1, <2>2
  <1> QED
    BY <1>1, InitInvariant, PTL DEF OutboxSpec

\* The effects of an event are committed once, with any number of workers.
THEOREM HandledOnceHolds == OutboxSpec => []HandledOnce
  BY OutboxInvariantHolds, PTL DEF OutboxInvariant

\* No two workers have one event in hand.
THEOREM HeldAloneHolds == OutboxSpec => []HeldAlone
  BY OutboxInvariantHolds, PTL DEF OutboxInvariant

=============================================================================
