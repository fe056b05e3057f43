-------------------------- MODULE EdgeGatewayProofs --------------------------
(***************************************************************************)
(* The gateway's uploads for any sources, keys, threads and requests, on    *)
(* top of the invariant of the intake.                                      *)
(*                                                                          *)
(* A row is UPLOADING exactly while one thread holds it, so only its holder *)
(* marks it; rows keep their key for ever, so what was sent for a row names *)
(* its image whenever the answer comes.                                     *)
(***************************************************************************)
EXTENDS EdgeGateway, FiniteSetTheorems, WellFoundedInduction, TLAPS

Proved == INSTANCE IntakeProofs WITH Prints <- Keys

Listed(q, s) ==
    /\ q[s].id <= Cardinality(Recorded(q))
    /\ q[s].status = "REJECTED" => q[s].key = None

Held(q, s) ==
    /\ q[s].key \in Keys
    /\ q[s].status # "DUPLICATE" => q[s].spool /\ Primaries(q, q[s].key) = {s}
    /\ q[s].status = "DUPLICATE" => /\ q[s].primary \in Primaries(q, q[s].key)
                                    /\ q[q[s].primary].id < q[s].id

RowsSound(q) ==
    /\ q \in Queue
    /\ \A s \in Recorded(q) : Listed(q, s)
    /\ \A s \in Accepted(q) : Held(q, s)

Holds(u, s) == uploader[u].at # "idle" /\ uploader[u].item = s

ThreadsSound ==
    /\ uploader \in [Uploaders -> UploaderState]
    /\ \A u \in Uploaders, s \in Sources : Holds(u, s) => queue[s].status = "UPLOADING"
    /\ \A u, v \in Uploaders, s \in Sources : Holds(u, s) /\ Holds(v, s) => u = v
    /\ \A s \in Sources : queue[s].status = "UPLOADING" => \E u \in Uploaders : Holds(u, s)

RequestsSound ==
    /\ \A u \in Uploaders :
          uploader[u].at = "waiting" =>
              /\ request[uploader[u].req].at # "unsent"
              /\ request[uploader[u].req].key = queue[uploader[u].item].key
    /\ \A r \in Requests :
          request[r].at # "unsent" => \E s \in Accepted(queue) : queue[s].key = request[r].key

GatewayInvariant ==
    /\ RowsSound(queue) /\ ThreadsSound /\ RequestsSound
    /\ detection \in [Sources -> Requests \cup {None}]
    /\ Proved!IntakeInvariant

UploadedSound ==
    \A s \in Sources :
        queue[s].status = "UPLOADED" =>
            /\ detection[s] \in Requests
            /\ request[detection[s]].at # "unsent"
            /\ request[detection[s]].key = queue[s].key
            /\ Proved!Secure(detection[s])

(* With this as well if no commit fails after its answer.                   *)
DeliveryInvariant == GatewayInvariant /\ Proved!AnswersAreSecure /\ UploadedSound

-----------------------------------------------------------------------------
(* The backend's actions are those that IntakeProofs is about.              *)
LEMMA IntakeAssumed == Proved!IntakeAssumption
  BY EdgeGatewayAssumption DEF Proved!IntakeAssumption

LEMMA SameInit == Backend!IntakeInit => Proved!IntakeInit
  BY DEF Backend!IntakeInit, Proved!IntakeInit, Backend!Unsent, Proved!Unsent, Backend!Silence,
         Proved!Silence

LEMMA SameSend ==
    ASSUME NEW r, NEW k
    PROVE  Backend!Send(r, k, k) <=> Proved!Send(r, k, k)
  BY DEF Backend!Send, Proved!Send, Backend!Unsent, Proved!Unsent

LEMMA SameServe ==
    ASSUME NEW r
    PROVE  Backend!Serve(r) <=> Proved!Serve(r)
  <1>1. \A kind, id : Backend!Finish(r, kind, id) <=> Proved!Finish(r, kind, id)
    BY DEF Backend!Finish, Proved!Finish
  <1>2. \A to : Backend!Reach(r, to) <=> Proved!Reach(r, to)
    BY DEF Backend!Reach, Proved!Reach
  <1>3. Backend!Runs(r) <=> Proved!Runs(r)
    BY DEF Backend!Runs, Proved!Runs
  <1>4. Backend!Replay(r) <=> Proved!Replay(r)
    BY <1>1 DEF Backend!Replay, Proved!Replay
  <1>5. Backend!Stored(r) <=> Proved!Stored(r)
    BY DEF Backend!Stored, Proved!Stored
  <1>6. \A k : Backend!Writers(k) = Proved!Writers(k)
    BY DEF Backend!Writers, Proved!Writers
  <1>7. Backend!Mishap <=> Proved!Mishap
    BY DEF Backend!Mishap, Proved!Mishap
  <1>8. Backend!Lookup(r) <=> Proved!Lookup(r)
    BY <1>2, <1>3, <1>4, <1>5 DEF Backend!Lookup, Proved!Lookup
  <1>9. Backend!Refuse(r) <=> Proved!Refuse(r)
    BY <1>1, <1>3 DEF Backend!Refuse, Proved!Refuse
  <1>10. Backend!Insert(r) <=> Proved!Insert(r)
    BY <1>2, <1>3, <1>4, <1>5, <1>6 DEF Backend!Insert, Proved!Insert
  <1>11. Backend!Acknowledge(r) <=> Proved!Acknowledge(r)
    BY <1>3 DEF Backend!Acknowledge, Proved!Acknowledge
  <1>12. Backend!Commit(r) <=> Proved!Commit(r)
    BY DEF Backend!Commit, Proved!Commit
  <1>13. Backend!Raise(r) <=> Proved!Raise(r)
    BY <1>1, <1>3, <1>6, <1>7 DEF Backend!Raise, Proved!Raise
  <1>14. Backend!CommitFails(r) <=> Proved!CommitFails(r)
    BY <1>7 DEF Backend!CommitFails, Proved!CommitFails
  <1> QED
    BY <1>8, <1>9, <1>10, <1>11, <1>12, <1>13, <1>14 DEF Backend!Serve, Proved!Serve

LEMMA SameDie ==
    ASSUME NEW h
    PROVE  Backend!Die(h) <=> Proved!Die(h)
  <1>1. Backend!Open(h) = Proved!Open(h)
    BY DEF Backend!Open, Proved!Open, Backend!Unsent, Proved!Unsent
  <1>2. Backend!Mishap <=> Proved!Mishap
    BY DEF Backend!Mishap, Proved!Mishap
  <1> QED
    BY <1>1, <1>2 DEF Backend!Die, Proved!Die

\* What IntakeProofs says of a step of the backend.
LEMMA BackendStep ==
    ASSUME Proved!IntakeInvariant, Proved!IntakeNext
    PROVE  /\ Proved!IntakeInvariant'
           /\ \A w \in Requests : request[w].at # "unsent" =>
                 request'[w].at # "unsent" /\ request'[w].key = request[w].key
  <1>1. \A w \in Requests : request[w].at # "unsent" =>
           request'[w].at # "unsent" /\ request'[w].key = request[w].key
    BY IntakeAssumed, Proved!RequestsStay DEF Proved!IntakeInvariant
  <1>2. CASE \E r \in Requests, k, p \in Keys : Proved!Send(r, k, p)
    BY <1>1, <1>2, IntakeAssumed, Proved!SendInvariant
  <1>3. CASE \E r \in Requests : Proved!Serve(r)
    BY <1>1, <1>3, IntakeAssumed, Proved!ServeInvariant
  <1>4. CASE \E h \in Processes : Proved!Die(h)
    BY <1>1, <1>4, IntakeAssumed, Proved!DieInvariant
  <1> QED
    BY <1>1, <1>2, <1>3, <1>4 DEF Proved!IntakeNext

LEMMA BackendRests ==
    ASSUME Proved!IntakeInvariant, UNCHANGED backendVars
    PROVE  Proved!IntakeInvariant'
  BY IntakeAssumed, Proved!StutterInvariant DEF Proved!intakeVars, backendVars

-----------------------------------------------------------------------------
(* The table.                                                               *)
LEMMA RecordedRow ==
    ASSUME NEW q \in Queue, NEW s \in Sources
    PROVE  /\ s \in Recorded(q) <=> q[s].status # "none"
           /\ s \in Recorded(q) => q[s] \in Row
           /\ s \notin Recorded(q) => q[s] = NoRow
           /\ s \in Accepted(q) <=> q[s].status \notin {"none", "REJECTED"}
  BY DEF Accepted, Queue, Recorded, NoRow, Row, QueueStatus

LEMMA RecordedFinite == ASSUME NEW q PROVE IsFiniteSet(Recorded(q)) /\ Cardinality(Recorded(q)) \in Nat
  <1>1. Recorded(q) \in SUBSET Sources
    BY DEF Recorded
  <1> QED
    BY <1>1, EdgeGatewayAssumption, FS_Subset, FS_CardinalityType

\* A set of natural numbers has a least one.
LEMMA Least ==
    ASSUME NEW T, T \subseteq Nat, T # {}
    PROVE  \E x \in T : \A y \in T : x <= y
  <1> DEFINE R == OpToRel(<, Nat)
  <1>1. IsWellFoundedOn(R, Nat)
    BY NatLessThanWellFounded
  <1>2. \A x, y \in Nat : y < x => <<y, x>> \in R
    BY DEF OpToRel
  <1> HIDE DEF R
  <1>3. \E x \in T : \A y \in T : <<y, x>> \notin R
    BY <1>1, WFMin
  <1>4. PICK x \in T : \A y \in T : <<y, x>> \notin R
    BY <1>3
  <1>5. \A y \in T : ~(y < x)
    BY <1>2, <1>4
  <1> QED
    BY <1>5

LEMMA FirstIsOne ==
    ASSUME NEW q \in Queue, NEW S, S \subseteq Recorded(q), S # {}
    PROVE  First(q, S) \in S
  <1> DEFINE T == {q[s].id : s \in S}
  <1>1. \A s \in S : q[s].id \in Nat
    <2>1. \A s \in S : s \in Sources /\ q[s] \in Row
      BY RecordedRow DEF Recorded
    <2> QED
      BY <2>1 DEF Row
  <1>2. T \subseteq Nat /\ T # {}
    BY <1>1
  <1>3. \E x \in T : \A y \in T : x <= y
    BY <1>2, Least
  <1>4. \E s \in S : \A t \in S : q[s].id <= q[t].id
    BY <1>3
  <1> QED
    BY <1>4 DEF First

\* One row gets another status and schedule, no DUPLICATE or REJECTED before or after.
Touched(q, p, s, status) ==
    /\ p \in Queue
    /\ s \in Accepted(q) /\ q[s].status # "DUPLICATE"
    /\ \A t \in Sources \ {s} : p[t] = q[t]
    /\ p[s].status = status
    /\ p[s].id = q[s].id /\ p[s].key = q[s].key /\ p[s].spool = q[s].spool
    /\ p[s].primary = q[s].primary

LEMMA TouchedRows ==
    ASSUME NEW q, RowsSound(q), NEW p, NEW s \in Sources,
           NEW status \in {"QUEUED", "UPLOADING", "UPLOADED", "FAILED"}, Touched(q, p, s, status)
    PROVE  /\ RowsSound(p)
           /\ Recorded(p) = Recorded(q) /\ Accepted(p) = Accepted(q)
           /\ \A t \in Recorded(q) : p[t].key = q[t].key /\ p[t].spool = q[t].spool
  <1>0. p \in Queue /\ q \in Queue /\ s \in Accepted(q) /\ s \in Recorded(q)
    BY DEF Touched, RowsSound, Accepted
  <1>1. \A t \in Sources : /\ p[t].status = "none" <=> q[t].status = "none"
                           /\ p[t].status = "DUPLICATE" <=> q[t].status = "DUPLICATE"
                           /\ p[t].status = "REJECTED" <=> q[t].status = "REJECTED"
    BY <1>0, RecordedRow DEF Touched
  <1>2. Recorded(p) = Recorded(q) /\ Accepted(p) = Accepted(q)
    <2>1. Recorded(p) = Recorded(q)
      BY <1>0, <1>1, RecordedRow DEF Recorded
    <2> QED
      BY <1>1, <2>1 DEF Accepted, Recorded
  <1>3. \A t \in Recorded(q) : /\ p[t].key = q[t].key /\ p[t].id = q[t].id
                              /\ p[t].spool = q[t].spool /\ p[t].primary = q[t].primary
    BY DEF Touched, Recorded
  <1>4. \A k : Primaries(p, k) = Primaries(q, k)
    BY <1>1, <1>2, <1>3 DEF Primaries, Recorded
  <1>5. \A t \in Accepted(q) : /\ t \in Recorded(q)
                               /\ q[t].status = "DUPLICATE" => q[t].primary \in Recorded(q)
    BY DEF RowsSound, Held, Primaries, Accepted
  <1>6. \A t \in Recorded(q) : t \in Sources
    BY DEF Recorded
  <1>7. RowsSound(p)
    <2>1. \A t \in Recorded(p) : Listed(p, t)
      <3>1. \A t \in Recorded(p) : Listed(q, t)
        BY <1>2 DEF RowsSound
      <3> QED
        BY <1>1, <1>2, <1>3, <1>6, <3>1 DEF Listed
    <2>2. ASSUME NEW t \in Accepted(p)
          PROVE  Held(p, t)
      <3>1. /\ Held(q, t) /\ t \in Recorded(q) /\ t \in Sources
            /\ q[t].status = "DUPLICATE" => q[t].primary \in Recorded(q)
        <4>1. t \in Accepted(q)
          BY <1>2
        <4>2. Held(q, t)
          BY <4>1 DEF RowsSound
        <4> QED
          BY <1>5, <1>6, <4>1, <4>2
      <3>2. /\ p[t].key = q[t].key /\ p[t].id = q[t].id /\ p[t].spool = q[t].spool
            /\ p[t].primary = q[t].primary
            /\ p[t].status = "DUPLICATE" <=> q[t].status = "DUPLICATE"
        BY <1>1, <1>3, <3>1
      <3>3. q[t].status = "DUPLICATE" => p[q[t].primary].id = q[q[t].primary].id
        BY <1>3, <3>1
      <3> QED
        BY <1>4, <3>1, <3>2, <3>3 DEF Held
    <2> QED
      BY <1>0, <2>1, <2>2 DEF RowsSound
  <1> QED
    BY <1>2, <1>3, <1>7

\* The operations of the queue touch one row.
LEMMA OperationsTouch ==
    ASSUME NEW q \in Queue, NEW s \in Accepted(q), q[s].status # "DUPLICATE", NEW b \in BOOLEAN
    PROVE  /\ Touched(q, ClaimDue(q, s), s, "UPLOADING")
           /\ Touched(q, MarkUploaded(q, s), s, "UPLOADED")
           /\ Touched(q, MarkFailed(q, s, b), s, "FAILED")
           /\ Touched(q, [q EXCEPT ![s].due = TRUE], s, q[s].status)
           /\ q[s].status = "FAILED" => Touched(q, Retry(q, s), s, "FAILED")
  <1>0. s \in Sources /\ s \in Recorded(q)
    BY DEF Accepted, Recorded
  <1>1. q[s] \in Row /\ q = [t \in Sources |-> q[t]]
    BY <1>0, RecordedRow DEF Queue
  <1>2. ASSUME NEW e \in Row, e.id = q[s].id, e.key = q[s].key, e.spool = q[s].spool,
               e.primary = q[s].primary
        PROVE  Touched(q, [q EXCEPT ![s] = e], s, e.status)
    BY <1>0, <1>2 DEF Touched, Queue
  <1>3. ASSUME NEW status \in QueueStatus, NEW x \in BOOLEAN, NEW y \in BOOLEAN
        PROVE  Touched(q, [q EXCEPT ![s] = [q[s] EXCEPT !.status = status, !.retryable = x, !.due = y]],
                       s, status)
    <2> DEFINE e == [q[s] EXCEPT !.status = status, !.retryable = x, !.due = y]
    <2>1. /\ e \in Row /\ e.id = q[s].id /\ e.key = q[s].key /\ e.spool = q[s].spool
          /\ e.primary = q[s].primary /\ e.status = status
      BY <1>1 DEF Row
    <2> HIDE DEF e
    <2>2. Touched(q, [q EXCEPT ![s] = e], s, e.status)
      BY <1>2, <2>1
    <2> QED
      BY <2>1, <2>2 DEF e
  <1>4. Touched(q, ClaimDue(q, s), s, "UPLOADING")
    <2>1. ClaimDue(q, s) = [q EXCEPT ![s] = [q[s] EXCEPT !.status = "UPLOADING",
                               !.retryable = q[s].retryable, !.due = q[s].due]]
      BY <1>0, <1>1 DEF ClaimDue, Row
    <2>2. q[s].retryable \in BOOLEAN /\ q[s].due \in BOOLEAN /\ "UPLOADING" \in QueueStatus
      BY <1>1 DEF Row, QueueStatus
    <2> QED
      BY <1>3, <2>1, <2>2
  <1>5. Touched(q, MarkUploaded(q, s), s, "UPLOADED")
    <2>1. MarkUploaded(q, s) = [q EXCEPT ![s] = [q[s] EXCEPT !.status = "UPLOADED",
                                   !.retryable = FALSE, !.due = FALSE]]
      BY <1>0, <1>1 DEF MarkUploaded, Row
    <2> QED
      BY <1>3, <2>1 DEF QueueStatus
  <1>6. Touched(q, MarkFailed(q, s, b), s, "FAILED")
    <2>1. MarkFailed(q, s, b) = [q EXCEPT ![s] = [q[s] EXCEPT !.status = "FAILED",
                                    !.retryable = b, !.due = FALSE]]
      BY <1>0, <1>1 DEF MarkFailed, Row
    <2> QED
      BY <1>3, <2>1 DEF QueueStatus
  <1>7. Touched(q, [q EXCEPT ![s].due = TRUE], s, q[s].status)
    <2>1. [q EXCEPT ![s].due = TRUE] = [q EXCEPT ![s] = [q[s] EXCEPT !.status = q[s].status,
                                           !.retryable = q[s].retryable, !.due = TRUE]]
      BY <1>0, <1>1 DEF Row
    <2> QED
      BY <1>1, <1>3, <2>1 DEF Row
  <1>8. ASSUME q[s].status = "FAILED"
        PROVE  Touched(q, Retry(q, s), s, "FAILED")
    <2>1. Retry(q, s) = [q EXCEPT ![s] = [q[s] EXCEPT !.status = "FAILED",
                                             !.retryable = TRUE, !.due = TRUE]]
      <3>1. Retry(q, s) = [[q EXCEPT ![s].retryable = TRUE] EXCEPT ![s].due = TRUE]
        BY <1>8 DEF Retry
      <3>2. [q[s] EXCEPT !.status = "FAILED", !.retryable = TRUE, !.due = TRUE]
               = [[q[s] EXCEPT !.retryable = TRUE] EXCEPT !.due = TRUE]
        BY <1>1, <1>8 DEF Row
      <3> QED
        BY <1>0, <1>1, <3>1, <3>2
    <2> QED
      BY <1>3, <2>1 DEF QueueStatus
  <1> QED
    BY <1>4, <1>5, <1>6, <1>7, <1>8

\* A row is added: which rows there are then.
Added(q, p, s, e) ==
    /\ p \in Queue /\ p[s] = e /\ \A t \in Sources \ {s} : p[t] = q[t]
    /\ Recorded(p) = Recorded(q) \cup {s}
    /\ e.status = "REJECTED" => Accepted(p) = Accepted(q)
    /\ e.status # "REJECTED" => Accepted(p) = Accepted(q) \cup {s}
    /\ \A t \in Recorded(p) : p[t].id <= Cardinality(Recorded(p))
    /\ \A t \in Recorded(q) : p[t] = q[t] /\ q[t].id < e.id

LEMMA AddedRow ==
    ASSUME NEW q, RowsSound(q), NEW s \in Sources \ Recorded(q), NEW e \in Row,
           e.id = Cardinality(Recorded(q)) + 1
    PROVE  Added(q, [q EXCEPT ![s] = e], s, e)
  <1> DEFINE N == Cardinality(Recorded(q))
             p == [q EXCEPT ![s] = e]
  <1>1. /\ q \in Queue /\ N \in Nat /\ \A t \in Recorded(q) : t \in Sources
        /\ Accepted(q) \subseteq Recorded(q)
    BY RecordedFinite DEF RowsSound, Recorded, Accepted
  <1>2. /\ p \in Queue /\ p[s] = e /\ \A t \in Sources \ {s} : p[t] = q[t]
    BY <1>1 DEF Queue
  <1> HIDE DEF p
  <1>3. e.status # "none" /\ e # NoRow
    BY DEF Row, QueueStatus, NoRow
  <1>4. Recorded(p) = Recorded(q) \cup {s}
    BY <1>2, <1>3 DEF Recorded
  <1>5. \A t \in Recorded(q) : p[t] = q[t]
    BY <1>1, <1>2
  <1>6. /\ e.status = "REJECTED" => Accepted(p) = Accepted(q)
        /\ e.status # "REJECTED" => Accepted(p) = Accepted(q) \cup {s}
    BY <1>1, <1>2, <1>4, <1>5 DEF Accepted
  <1>7. Cardinality(Recorded(p)) = N + 1
    BY <1>4, RecordedFinite, FS_AddElement DEF N
  <1>8. \A t \in Recorded(q) : q[t].id \in Nat /\ q[t].id <= N
    <2>1. \A t \in Recorded(q) : q[t] \in Row
      BY <1>1, RecordedRow
    <2> QED
      BY <2>1 DEF Row, RowsSound, Listed
  <1> HIDE DEF N
  <1>9. \A t \in Recorded(q) : q[t].id < e.id /\ q[t].id <= N + 1
    BY <1>1, <1>8 DEF N
  <1>10. \A t \in Recorded(p) : p[t].id <= Cardinality(Recorded(p))
    <2>1. p[s].id <= N + 1
      BY <1>1, <1>2 DEF N
    <2>2. \A t \in Recorded(q) : p[t].id <= N + 1
      BY <1>5, <1>9
    <2> QED
      BY <1>4, <1>7, <2>1, <2>2
  <1> QED
    BY <1>2, <1>4, <1>5, <1>6, <1>9, <1>10 DEF p, Added

\* A new observation: queued, or folded into the one row of its key.
LEMMA EnqueueRows ==
    ASSUME NEW q, RowsSound(q), NEW s \in Sources \ Recorded(q), NEW k \in Keys
    PROVE  /\ RowsSound(Enqueue(q, s, k))
           /\ Recorded(Enqueue(q, s, k)) = Recorded(q) \cup {s}
           /\ Accepted(Enqueue(q, s, k)) = Accepted(q) \cup {s}
           /\ \A t \in Sources \ {s} : Enqueue(q, s, k)[t] = q[t]
           /\ Enqueue(q, s, k)[s].key = k
           /\ Enqueue(q, s, k)[s].status \in {"QUEUED", "DUPLICATE"}
  <1> DEFINE P == Primaries(q, k)
             p == Enqueue(q, s, k)
             N == Cardinality(Recorded(q))
  <1>1. q \in Queue /\ N \in Nat
    BY RecordedFinite DEF RowsSound
  <1>2. P \subseteq Recorded(q) /\ P \subseteq Sources
    BY DEF Primaries, Recorded
  <1>3. P # {} => First(q, P) \in P
    BY <1>1, <1>2, FirstIsOne
  <1> DEFINE first == First(q, P)
             e == IF P = {}
                  THEN [id |-> N + 1, status |-> "QUEUED", key |-> k, spool |-> TRUE,
                        retryable |-> TRUE, due |-> TRUE, primary |-> None]
                  ELSE [id |-> N + 1, status |-> "DUPLICATE", key |-> k, spool |-> FALSE,
                        retryable |-> FALSE, due |-> FALSE, primary |-> first]
  <1>4. p = [q EXCEPT ![s] = e]
    <2>1. Inserted(q, s, "QUEUED", k, TRUE, None) =
             [q EXCEPT ![s] = [id |-> N + 1, status |-> "QUEUED", key |-> k, spool |-> TRUE,
                               retryable |-> TRUE, due |-> TRUE, primary |-> None]]
      <3>1. NextId(q) = N + 1
        BY <1>1 DEF NextId
      <3>2. ("QUEUED" = "QUEUED") = TRUE
        OBVIOUS
      <3> QED
        BY <3>1, <3>2, Zenon DEF Inserted
    <2>2. Inserted(q, s, "DUPLICATE", k, FALSE, first) =
             [q EXCEPT ![s] = [id |-> N + 1, status |-> "DUPLICATE", key |-> k, spool |-> FALSE,
                               retryable |-> FALSE, due |-> FALSE, primary |-> first]]
      <3>1. NextId(q) = N + 1
        BY <1>1 DEF NextId
      <3>2. ("DUPLICATE" = "QUEUED") = FALSE
        OBVIOUS
      <3> QED
        BY <3>1, <3>2, Zenon DEF Inserted
    <2> QED
      BY <2>1, <2>2 DEF Enqueue
  <1>5. /\ e \in Row /\ e.id = N + 1 /\ e.key = k
        /\ P = {} => e.status = "QUEUED" /\ e.spool
        /\ P # {} => e.status = "DUPLICATE" /\ e.primary = first
    <2>1. N + 1 \in Nat /\ None \in Sources \cup {None} /\ k \in Keys \cup {None}
      BY <1>1
    <2>2. CASE P = {}
      BY <2>1, <2>2 DEF Row, QueueStatus
    <2>3. CASE P # {}
      <3>1. first \in Sources \cup {None}
        BY <2>3, <1>2, <1>3
      <3> HIDE DEF first, P, N
      <3> QED
        BY <2>1, <2>3, <3>1 DEF Row, QueueStatus
    <2> QED
      BY <2>2, <2>3
  <1> HIDE DEF e, first, P, N, p
  <1>6. /\ p \in Queue /\ p[s] = e /\ \A t \in Sources \ {s} : p[t] = q[t]
        /\ Recorded(p) = Recorded(q) \cup {s} /\ Accepted(p) = Accepted(q) \cup {s}
        /\ \A t \in Recorded(p) : p[t].id <= Cardinality(Recorded(p))
        /\ \A t \in Recorded(q) : p[t] = q[t] /\ q[t].id < e.id
    <2>1. e.status # "REJECTED" /\ e.id = Cardinality(Recorded(q)) + 1
      BY <1>5 DEF N
    <2>2. Added(q, [q EXCEPT ![s] = e], s, e)
      BY <1>5, <2>1, AddedRow
    <2> QED
      BY <1>4, <2>1, <2>2 DEF Added
  <1>7. \A j : Primaries(p, j) = Primaries(q, j) \cup (IF j = k /\ P = {} THEN {s} ELSE {})
    BY <1>5, <1>6 DEF Primaries
  <1>8. ASSUME NEW t \in Accepted(q)
        PROVE  Held(p, t)
    <2>1. t \in Recorded(q) /\ p[t] = q[t] /\ Held(q, t)
      BY <1>6 DEF Accepted, RowsSound
    <2>2. ASSUME q[t].status # "DUPLICATE"
          PROVE  Primaries(p, q[t].key) = Primaries(q, q[t].key)
      <3>1. Primaries(q, q[t].key) = {t}
        BY <2>1, <2>2 DEF Held
      <3>2. q[t].key = k => P # {}
        BY <3>1 DEF P
      <3> QED
        BY <3>2, <1>7
    <2>3. ASSUME q[t].status = "DUPLICATE"
          PROVE  /\ q[t].primary \in Primaries(p, q[t].key)
                 /\ p[q[t].primary] = q[q[t].primary]
      <3>1. q[t].primary \in Primaries(q, q[t].key)
        BY <2>1, <2>3 DEF Held
      <3>2. q[t].primary \in Recorded(q)
        BY <3>1 DEF Primaries
      <3> QED
        BY <3>1, <3>2, <1>6, <1>7
    <2> QED
      BY <2>1, <2>2, <2>3 DEF Held
  <1>9. Held(p, s)
    <2>1. e.key \in Keys /\ (e.status # "DUPLICATE" => e.spool /\ Primaries(p, e.key) = {s})
      BY <1>5, <1>7 DEF P
    <2>2. e.status = "DUPLICATE" => e.primary \in Primaries(p, e.key) /\ p[e.primary].id < e.id
      BY <1>2, <1>3, <1>5, <1>6, <1>7 DEF P, first
    <2> QED
      BY <1>6, <2>1, <2>2 DEF Held
  <1>10. ASSUME NEW t \in Recorded(p)
         PROVE  Listed(p, t)
    <2>1. CASE t = s
      BY <1>5, <1>6, <2>1 DEF Listed
    <2>2. CASE t \in Recorded(q)
      BY <1>6, <2>2 DEF Listed, RowsSound
    <2> QED
      BY <1>6, <2>1, <2>2
  <1>11. RowsSound(p)
    BY <1>6, <1>8, <1>9, <1>10 DEF RowsSound
  <1> QED
    BY <1>5, <1>6, <1>11 DEF p

\* A rejection changes nothing for the rows there are.
LEMMA RejectRows ==
    ASSUME NEW q, RowsSound(q), NEW s \in Sources \ Recorded(q)
    PROVE  LET p == RecordRejection(q, s) IN
           /\ RowsSound(p)
           /\ Recorded(p) = Recorded(q) \cup {s} /\ Accepted(p) = Accepted(q)
           /\ \A t \in Sources \ {s} : p[t] = q[t]
           /\ p[s].status = "REJECTED" /\ ~p[s].spool
  <1> DEFINE p == RecordRejection(q, s)
             N == Cardinality(Recorded(q))
             e == [id |-> N + 1, status |-> "REJECTED", key |-> None, spool |-> FALSE,
                   retryable |-> FALSE, due |-> FALSE, primary |-> None]
  <1>1. N \in Nat
    BY RecordedFinite
  <1>2. p = [q EXCEPT ![s] = e]
    <2>1. NextId(q) = N + 1
      BY <1>1 DEF NextId
    <2>2. ("REJECTED" = "QUEUED") = FALSE
      OBVIOUS
    <2>3. p = Inserted(q, s, "REJECTED", None, FALSE, None)
      BY DEF RecordRejection
    <2> QED
      BY <2>1, <2>2, <2>3, Zenon DEF Inserted
  <1>3. N + 1 \in Nat /\ None \in Sources \cup {None} /\ None \in Keys \cup {None}
    BY <1>1
  <1> HIDE DEF N
  <1>4. e \in Row /\ e.id = N + 1 /\ e.status = "REJECTED" /\ e.key = None /\ ~e.spool
    BY <1>3 DEF Row, QueueStatus
  <1> HIDE DEF e, p
  <1>5. /\ p \in Queue /\ p[s] = e /\ \A t \in Sources \ {s} : p[t] = q[t]
        /\ Recorded(p) = Recorded(q) \cup {s} /\ Accepted(p) = Accepted(q)
        /\ \A t \in Recorded(p) : p[t].id <= Cardinality(Recorded(p))
        /\ \A t \in Recorded(q) : p[t] = q[t]
    <2>1. e.id = Cardinality(Recorded(q)) + 1
      BY <1>4 DEF N
    <2>2. Added(q, [q EXCEPT ![s] = e], s, e)
      BY <1>4, <2>1, AddedRow
    <2> QED
      BY <1>2, <1>4, <2>2 DEF Added
  <1>6. \A k \in Keys : Primaries(p, k) = Primaries(q, k)
    BY <1>4, <1>5, EdgeGatewayAssumption DEF Primaries
  <1>7. ASSUME NEW t \in Accepted(q)
        PROVE  Held(p, t)
    <2>1. t \in Recorded(q) /\ p[t] = q[t] /\ Held(q, t)
      BY <1>5 DEF Accepted, RowsSound
    <2>2. Primaries(p, q[t].key) = Primaries(q, q[t].key)
      BY <1>6, <2>1 DEF Held
    <2>3. q[t].status = "DUPLICATE" => p[q[t].primary] = q[q[t].primary]
      BY <1>5, <2>1 DEF Held, Primaries
    <2> QED
      BY <2>1, <2>2, <2>3 DEF Held
  <1>8. ASSUME NEW t \in Recorded(p)
        PROVE  Listed(p, t)
    <2>1. CASE t = s
      BY <1>4, <1>5, <2>1 DEF Listed
    <2>2. CASE t \in Recorded(q)
      BY <1>5, <2>2 DEF Listed, RowsSound
    <2> QED
      BY <1>5, <2>1, <2>2
  <1>9. RowsSound(p)
    BY <1>5, <1>7, <1>8 DEF RowsSound
  <1> QED
    BY <1>4, <1>5, <1>9 DEF p

\* After a start nothing is UPLOADING and the rows are as they were.
LEMMA RecoveredRows ==
    ASSUME NEW q, RowsSound(q)
    PROVE  /\ RowsSound(RecoverInflight(q))
           /\ Recorded(RecoverInflight(q)) = Recorded(q)
           /\ Accepted(RecoverInflight(q)) = Accepted(q)
           /\ \A t \in Recorded(q) : /\ RecoverInflight(q)[t].key = q[t].key
                                     /\ RecoverInflight(q)[t].spool = q[t].spool
           /\ \A t \in Sources : /\ RecoverInflight(q)[t].status # "UPLOADING"
                                 /\ RecoverInflight(q)[t].status = "UPLOADED" <=> q[t].status = "UPLOADED"
  <1> DEFINE p == RecoverInflight(q)
             E(t) == [q[t] EXCEPT !.status = "FAILED", !.retryable = TRUE, !.due = TRUE]
  <1>1. q \in Queue
    BY DEF RowsSound
  <1>2. p = [t \in Sources |-> IF q[t].status = "UPLOADING" THEN E(t) ELSE q[t]]
    BY DEF RecoverInflight
  <1>3. \A t \in Sources : q[t].status = "UPLOADING" =>
           /\ q[t] \in Row /\ E(t) \in Row /\ E(t).status = "FAILED" /\ E(t).id = q[t].id
           /\ E(t).key = q[t].key /\ E(t).spool = q[t].spool /\ E(t).primary = q[t].primary
    <2> SUFFICES ASSUME NEW t \in Sources, q[t].status = "UPLOADING"
                 PROVE  /\ q[t] \in Row /\ E(t) \in Row /\ E(t).status = "FAILED" /\ E(t).id = q[t].id
                        /\ E(t).key = q[t].key /\ E(t).spool = q[t].spool /\ E(t).primary = q[t].primary
      OBVIOUS
    <2>1. q[t] \in Row
      BY <1>1, RecordedRow
    <2> QED
      BY <2>1 DEF Row, QueueStatus
  <1> HIDE DEF E, p
  <1>4. p \in Queue
    BY <1>1, <1>2, <1>3 DEF Queue
  <1>5. \A t \in Sources : /\ p[t].status = "none" <=> q[t].status = "none"
                           /\ p[t].status = "DUPLICATE" <=> q[t].status = "DUPLICATE"
                           /\ p[t].status = "REJECTED" <=> q[t].status = "REJECTED"
                           /\ p[t].status # "UPLOADING"
                           /\ p[t].status = "UPLOADED" <=> q[t].status = "UPLOADED"
    BY <1>2, <1>3
  <1>6. Recorded(p) = Recorded(q) /\ Accepted(p) = Accepted(q)
    <2>1. Recorded(p) = Recorded(q)
      BY <1>1, <1>4, <1>5, RecordedRow DEF Recorded
    <2> QED
      BY <1>5, <2>1 DEF Accepted, Recorded
  <1>7. \A t \in Recorded(q) : /\ p[t].key = q[t].key /\ p[t].id = q[t].id
                              /\ p[t].spool = q[t].spool /\ p[t].primary = q[t].primary
    BY <1>2, <1>3 DEF Recorded
  <1>8. \A k : Primaries(p, k) = Primaries(q, k)
    BY <1>5, <1>6, <1>7 DEF Primaries, Recorded
  <1>9. \A t \in Recorded(q) : t \in Sources
    BY DEF Recorded
  <1>10. ASSUME NEW t \in Accepted(p)
         PROVE  Held(p, t)
    <2>1. t \in Recorded(q) /\ t \in Sources /\ Held(q, t)
      BY <1>6, <1>9 DEF Accepted, RowsSound
    <2>2. q[t].status = "DUPLICATE" => q[t].primary \in Recorded(q)
      BY <2>1 DEF Held, Primaries
    <2>3. q[t].status = "DUPLICATE" => p[q[t].primary].id = q[q[t].primary].id
      BY <1>7, <2>2
    <2> QED
      BY <1>5, <1>7, <1>8, <2>1, <2>3 DEF Held
  <1>11. ASSUME NEW t \in Recorded(p)
         PROVE  Listed(p, t)
    <2>1. t \in Recorded(q) /\ t \in Sources /\ Listed(q, t)
      BY <1>6, <1>9 DEF RowsSound
    <2> QED
      BY <1>5, <1>6, <1>7, <2>1 DEF Listed
  <1>12. RowsSound(p)
    BY <1>4, <1>10, <1>11 DEF RowsSound
  <1> QED
    BY <1>5, <1>6, <1>7, <1>12 DEF p

-----------------------------------------------------------------------------
(* Threads and requests.                                                    *)
LEMMA ThreadState ==
    ASSUME ThreadsSound, NEW u \in Uploaders
    PROVE  /\ uploader[u].at \in {"idle", "claimed", "waiting"}
           /\ uploader[u] # Idle <=> uploader[u].at # "idle"
           /\ uploader[u].at # "idle" => uploader[u].item \in Sources
           /\ uploader[u].at = "waiting" => uploader[u].req \in Requests
  BY DEF ThreadsSound, UploaderState, Idle

\* The item of a thread at work: UPLOADING and its alone.
LEMMA HeldItem ==
    ASSUME GatewayInvariant, NEW u \in Uploaders, uploader[u].at # "idle"
    PROVE  /\ uploader[u].item \in Sources /\ uploader[u].item \in Accepted(queue)
           /\ uploader[u].item \in Recorded(queue)
           /\ queue[uploader[u].item].status = "UPLOADING"
           /\ queue[uploader[u].item].key \in Keys
  <1>1. uploader[u].item \in Sources /\ Holds(u, uploader[u].item)
    BY ThreadState DEF GatewayInvariant, Holds
  <1>2. queue[uploader[u].item].status = "UPLOADING"
    BY <1>1 DEF GatewayInvariant, ThreadsSound
  <1>3. uploader[u].item \in Recorded(queue) /\ uploader[u].item \in Accepted(queue)
    BY <1>1, <1>2, RecordedRow DEF GatewayInvariant, RowsSound
  <1> QED
    BY <1>1, <1>2, <1>3 DEF GatewayInvariant, RowsSound, Held

\* The threads go on as they are while no row becomes UPLOADING or leaves it.
LEMMA ThreadsFrame ==
    ASSUME ThreadsSound, uploader' \in [Uploaders -> UploaderState],
           \A u \in Uploaders, s \in Sources : Holds(u, s)' <=> Holds(u, s),
           \A s \in Sources : queue'[s].status = "UPLOADING" <=> queue[s].status = "UPLOADING"
    PROVE  ThreadsSound'
  BY DEF ThreadsSound

\* What was sent stays so, and what is waited for was sent for the row.
LEMMA RequestsFrame ==
    ASSUME GatewayInvariant,
           \A s \in Accepted(queue) : s \in Accepted(queue') /\ queue'[s].key = queue[s].key,
           \A w \in Requests : request[w].at # "unsent" =>
               request'[w].at # "unsent" /\ request'[w].key = request[w].key,
           \A w \in Requests : request'[w].at # "unsent" =>
               \/ request[w].at # "unsent"
               \/ \E s \in Accepted(queue) : queue[s].key = request'[w].key,
           \A u \in Uploaders : uploader'[u].at = "waiting" =>
               \/ uploader'[u] = uploader[u]
               \/ /\ request'[uploader'[u].req].at # "unsent"
                  /\ request'[uploader'[u].req].key = queue'[uploader'[u].item].key
    PROVE  RequestsSound'
  <1>1. ASSUME NEW u \in Uploaders, uploader'[u].at = "waiting", uploader'[u] = uploader[u]
        PROVE  /\ request'[uploader'[u].req].at # "unsent"
               /\ request'[uploader'[u].req].key = queue'[uploader'[u].item].key
    <2>1. /\ uploader[u].req \in Requests /\ uploader[u].item \in Accepted(queue)
          /\ request[uploader[u].req].at # "unsent"
          /\ request[uploader[u].req].key = queue[uploader[u].item].key
      BY <1>1, ThreadState, HeldItem DEF GatewayInvariant, RequestsSound
    <2> QED
      BY <1>1, <2>1
  <1>2. ASSUME NEW w \in Requests, request'[w].at # "unsent"
        PROVE  \E s \in Accepted(queue') : queue'[s].key = request'[w].key
    <2>1. \E s \in Accepted(queue) : queue[s].key = request'[w].key
      BY <1>2 DEF GatewayInvariant, RequestsSound
    <2> QED
      BY <2>1
  <1> QED
    BY <1>1, <1>2 DEF RequestsSound

\* A row is touched that no thread holds or comes to hold.
LEMMA TouchStep ==
    ASSUME GatewayInvariant, NEW s \in Sources, NEW status \in {"QUEUED", "FAILED"},
           Touched(queue, queue', s, status), queue[s].status # "UPLOADING",
           UNCHANGED <<uploader, detection, backendVars>>
    PROVE  GatewayInvariant'
  <1>1. /\ RowsSound(queue') /\ Accepted(queue') = Accepted(queue)
        /\ \A t \in Accepted(queue) : queue'[t].key = queue[t].key
    BY TouchedRows DEF GatewayInvariant, Accepted
  <1>2. ThreadsSound'
    BY ThreadsFrame DEF Touched, GatewayInvariant, ThreadsSound, Holds
  <1>3. RequestsSound'
    BY <1>1, RequestsFrame DEF backendVars
  <1> QED
    BY <1>1, <1>2, <1>3, BackendRests DEF GatewayInvariant

\* The end of an upload: the holder marks the row and lets it go.
LEMMA MarkStep ==
    ASSUME GatewayInvariant, NEW u \in Uploaders, uploader[u].at # "idle",
           NEW status \in {"UPLOADED", "FAILED"},
           Touched(queue, queue', uploader[u].item, status),
           uploader' = [uploader EXCEPT ![u] = Idle],
           detection' \in [Sources -> Requests \cup {None}],
           UNCHANGED backendVars
    PROVE  GatewayInvariant'
  <1> DEFINE s == uploader[u].item
  <1>0. s \in Sources /\ queue[s].status = "UPLOADING" /\ Holds(u, s)
    BY HeldItem DEF Holds
  <1>1. /\ RowsSound(queue') /\ Accepted(queue') = Accepted(queue)
        /\ \A t \in Accepted(queue) : queue'[t].key = queue[t].key
    BY <1>0, TouchedRows DEF GatewayInvariant, Accepted
  <1>2. /\ uploader' \in [Uploaders -> UploaderState]
        /\ uploader'[u].at = "idle"
        /\ \A v \in Uploaders \ {u} : uploader'[v] = uploader[v]
    BY DEF GatewayInvariant, ThreadsSound, UploaderState, Idle
  <1>3. \A v \in Uploaders, t \in Sources : Holds(v, t)' <=> (Holds(v, t) /\ v # u)
    BY <1>2 DEF Holds
  <1>4. \A v \in Uploaders : v # u => ~Holds(v, s)
    BY <1>0 DEF GatewayInvariant, ThreadsSound
  <1>5. /\ queue'[s].status # "UPLOADING"
        /\ \A t \in Sources \ {s} : queue'[t].status = queue[t].status
    BY DEF Touched
  <1>6. \A t \in Sources \ {s} : ~Holds(u, t)
    BY DEF Holds
  <1> HIDE DEF s
  <1>7. ThreadsSound'
    BY <1>0, <1>2, <1>3, <1>4, <1>5, <1>6 DEF GatewayInvariant, ThreadsSound
  <1>8. RequestsSound'
    BY <1>1, <1>2, RequestsFrame DEF backendVars
  <1> QED
    BY <1>1, <1>7, <1>8, BackendRests DEF GatewayInvariant

LEMMA ClaimStep ==
    ASSUME GatewayInvariant, NEW u \in Uploaders, Claim(u)
    PROVE  GatewayInvariant'
  <1> DEFINE s == First(queue, Claimable(queue))
  <1>1. s \in Claimable(queue)
    BY FirstIsOne DEF Claim, Claimable, Due, GatewayInvariant, RowsSound
  <1>2. s \in Accepted(queue) /\ s \in Sources /\ queue[s].status \in {"QUEUED", "FAILED"}
    BY <1>1 DEF Claimable, Due, Accepted, Recorded
  <1>3. /\ queue' = ClaimDue(queue, s)
        /\ uploader' = [uploader EXCEPT ![u] = [at |-> "claimed", item |-> s]]
        /\ uploader[u] = Idle /\ UNCHANGED <<detection, backendVars>>
    BY DEF Claim
  <1> HIDE DEF s
  <1>4. Touched(queue, queue', s, "UPLOADING")
    BY <1>2, <1>3, OperationsTouch DEF GatewayInvariant, RowsSound
  <1>5. /\ RowsSound(queue') /\ Accepted(queue') = Accepted(queue)
        /\ \A t \in Accepted(queue) : queue'[t].key = queue[t].key
    BY <1>2, <1>4, TouchedRows DEF GatewayInvariant, Accepted
  <1>6. /\ uploader' \in [Uploaders -> UploaderState]
        /\ uploader'[u].at = "claimed" /\ uploader'[u].item = s /\ uploader[u].at = "idle"
        /\ \A v \in Uploaders \ {u} : uploader'[v] = uploader[v]
    BY <1>2, <1>3 DEF GatewayInvariant, ThreadsSound, UploaderState, Idle
  <1>7. \A v \in Uploaders, t \in Sources : Holds(v, t)' <=> (Holds(v, t) \/ (v = u /\ t = s))
    BY <1>6 DEF Holds
  <1>8. \A v \in Uploaders : ~Holds(v, s)
    BY <1>2 DEF GatewayInvariant, ThreadsSound
  <1>9. \A t \in Sources : ~Holds(u, t)
    BY <1>6 DEF Holds
  <1>10. /\ queue'[s].status = "UPLOADING"
         /\ \A t \in Sources \ {s} : queue'[t].status = queue[t].status
    BY <1>4 DEF Touched
  <1>11. ThreadsSound'
    BY <1>2, <1>6, <1>7, <1>8, <1>9, <1>10 DEF GatewayInvariant, ThreadsSound
  <1>12. RequestsSound'
    BY <1>3, <1>5, <1>6, RequestsFrame DEF backendVars
  <1> QED
    BY <1>3, <1>5, <1>11, <1>12, BackendRests DEF GatewayInvariant

LEMMA AcceptStep ==
    ASSUME GatewayInvariant, NEW s \in Sources, NEW k \in Keys, Accept(s, k)
    PROVE  GatewayInvariant'
  <1>1. /\ RowsSound(queue') /\ Accepted(queue') = Accepted(queue) \cup {s}
        /\ \A t \in Sources \ {s} : queue'[t] = queue[t]
        /\ queue'[s].status \in {"QUEUED", "DUPLICATE"}
        /\ s \notin Recorded(queue) /\ UNCHANGED <<uploader, detection, backendVars>>
    BY EnqueueRows DEF Accept, GatewayInvariant
  <1>2. queue[s].status = "none"
    BY <1>1, RecordedRow DEF GatewayInvariant, RowsSound
  <1>3. ThreadsSound'
    BY <1>1, <1>2, ThreadsFrame DEF GatewayInvariant, ThreadsSound, Holds
  <1>4. \A t \in Accepted(queue) : t \in Accepted(queue') /\ queue'[t].key = queue[t].key
    BY <1>1 DEF Accepted, Recorded
  <1>5. RequestsSound'
    BY <1>1, <1>4, RequestsFrame DEF backendVars
  <1> QED
    BY <1>1, <1>3, <1>5, BackendRests DEF GatewayInvariant

LEMMA RejectStep ==
    ASSUME GatewayInvariant, NEW s \in Sources, Reject(s)
    PROVE  GatewayInvariant'
  <1>1. /\ RowsSound(queue') /\ Accepted(queue') = Accepted(queue)
        /\ \A t \in Sources \ {s} : queue'[t] = queue[t]
        /\ queue'[s].status = "REJECTED"
        /\ s \notin Recorded(queue) /\ UNCHANGED <<uploader, detection, backendVars>>
    BY RejectRows DEF Reject, GatewayInvariant
  <1>2. queue[s].status = "none"
    BY <1>1, RecordedRow DEF GatewayInvariant, RowsSound
  <1>3. ThreadsSound'
    BY <1>1, <1>2, ThreadsFrame DEF GatewayInvariant, ThreadsSound, Holds
  <1>4. \A t \in Accepted(queue) : queue'[t].key = queue[t].key
    BY <1>1 DEF Accepted, Recorded
  <1>5. RequestsSound'
    BY <1>1, <1>4, RequestsFrame DEF backendVars
  <1> QED
    BY <1>1, <1>3, <1>5, BackendRests DEF GatewayInvariant

LEMMA RestartStep ==
    ASSUME GatewayInvariant, Restart
    PROVE  GatewayInvariant'
  <1>1. /\ RowsSound(queue') /\ Accepted(queue') = Accepted(queue)
        /\ \A t \in Accepted(queue) : queue'[t].key = queue[t].key
        /\ \A t \in Sources : queue'[t].status # "UPLOADING"
    BY RecoveredRows DEF Restart, GatewayInvariant, Accepted
  <1>2. /\ uploader' \in [Uploaders -> UploaderState]
        /\ \A u \in Uploaders : uploader'[u].at = "idle"
    BY DEF Restart, UploaderState, Idle
  <1>3. ThreadsSound'
    BY <1>1, <1>2 DEF ThreadsSound, Holds
  <1>4. RequestsSound'
    BY <1>1, <1>2, RequestsFrame DEF Restart, backendVars
  <1> QED
    BY <1>1, <1>3, <1>4, BackendRests DEF Restart, GatewayInvariant

\* A request is sent with the key of the row.
LEMMA PostSends ==
    ASSUME GatewayInvariant, NEW u \in Uploaders, Post(u)
    PROVE  \E r \in Requests :
              /\ Proved!Send(r, queue[uploader[u].item].key, queue[uploader[u].item].key)
              /\ uploader' = [uploader EXCEPT ![u] =
                                 [at |-> "waiting", item |-> uploader[u].item, req |-> r]]
  <1> DEFINE fresh == {r \in Requests : request[r] = Backend!Unsent}
             r == CHOOSE x \in fresh : TRUE
  <1>1. r \in Requests
    BY DEF Post
  <1>2. /\ Backend!Send(r, queue[uploader[u].item].key, queue[uploader[u].item].key)
        /\ uploader' = [uploader EXCEPT ![u] =
                           [at |-> "waiting", item |-> uploader[u].item, req |-> r]]
    BY DEF Post
  <1> QED
    BY <1>1, <1>2, SameSend

LEMMA PostStep ==
    ASSUME GatewayInvariant, NEW u \in Uploaders, Post(u)
    PROVE  GatewayInvariant' /\ Proved!IntakeNext
  <1> DEFINE s == uploader[u].item
             k == queue[s].key
  <1>1. PICK r \in Requests :
           /\ Proved!Send(r, k, k)
           /\ uploader' = [uploader EXCEPT ![u] = [at |-> "waiting", item |-> s, req |-> r]]
    BY PostSends
  <1>2. uploader[u].at = "claimed" /\ UNCHANGED <<queue, detection>>
    BY DEF Post
  <1>3. s \in Sources /\ s \in Accepted(queue) /\ k \in Keys
    BY <1>2, HeldItem
  <1> HIDE DEF s, k
  <1>4. Proved!IntakeNext
    BY <1>1, <1>3 DEF Proved!IntakeNext
  <1>5. /\ request'[r].at = "sent" /\ request'[r].key = k
        /\ \A w \in Requests \ {r} : request'[w] = request[w]
    BY <1>1 DEF Proved!Send, GatewayInvariant, Proved!IntakeInvariant, Proved!IntakeTypeOK
  <1>6. /\ uploader' \in [Uploaders -> UploaderState]
        /\ uploader'[u].at = "waiting" /\ uploader'[u].item = s /\ uploader'[u].req = r
        /\ \A v \in Uploaders \ {u} : uploader'[v] = uploader[v]
    BY <1>1, <1>3 DEF GatewayInvariant, ThreadsSound, UploaderState
  <1>7. \A v \in Uploaders, t \in Sources : Holds(v, t)' <=> Holds(v, t)
    BY <1>2, <1>6 DEF Holds, s
  <1>8. ThreadsSound'
    BY <1>2, <1>6, <1>7, ThreadsFrame DEF GatewayInvariant
  <1>9. Proved!IntakeInvariant' /\ \A w \in Requests : request[w].at # "unsent" =>
           request'[w].at # "unsent" /\ request'[w].key = request[w].key
    BY <1>4, BackendStep DEF GatewayInvariant
  <1>10. RequestsSound'
    BY <1>2, <1>3, <1>5, <1>6, <1>9, RequestsFrame DEF k
  <1> QED
    BY <1>2, <1>4, <1>8, <1>9, <1>10 DEF GatewayInvariant

\* The backend's own steps.
LEMMA ServeStep ==
    ASSUME GatewayInvariant, UNCHANGED ownVars,
           (\E r \in Requests : Proved!Serve(r)) \/ (\E h \in Processes : Proved!Die(h))
    PROVE  GatewayInvariant' /\ Proved!IntakeNext
  <1>1. Proved!IntakeNext
    BY DEF Proved!IntakeNext
  <1>2. Proved!IntakeInvariant' /\ \A w \in Requests : request[w].at # "unsent" =>
           request'[w].at # "unsent" /\ request'[w].key = request[w].key
    BY <1>1, BackendStep DEF GatewayInvariant
  <1>3. \A w \in Requests : request[w].at = "unsent" => request'[w].at = "unsent"
    BY IntakeAssumed, Proved!UnsentStays DEF GatewayInvariant, Proved!IntakeInvariant
  <1>4. ThreadsSound'
    BY ThreadsFrame DEF GatewayInvariant, ThreadsSound, Holds, ownVars
  <1>5. RequestsSound'
    BY <1>2, <1>3, RequestsFrame DEF ownVars
  <1> QED
    BY <1>1, <1>2, <1>4, <1>5 DEF GatewayInvariant, ownVars

-----------------------------------------------------------------------------
(* The steps by what they do to the table.                                  *)
Rescheduled ==
    /\ \E s \in Sources : queue[s].status = "FAILED" /\ Touched(queue, queue', s, "FAILED")
    /\ UNCHANGED <<uploader, detection, backendVars>>

Ended(u, status) ==
    /\ uploader[u].at # "idle"
    /\ Touched(queue, queue', uploader[u].item, status)
    /\ uploader' = [uploader EXCEPT ![u] = Idle]
    /\ UNCHANGED backendVars

Failed(u) == Ended(u, "FAILED") /\ UNCHANGED detection

Settled(u) ==
    /\ Ended(u, "UPLOADED")
    /\ uploader[u].at = "waiting"
    /\ answer[uploader[u].req].kind \in {"created", "replay"}
    /\ detection' = [detection EXCEPT ![uploader[u].item] = answer[uploader[u].req].id]

Served ==
    /\ (\E r \in Requests : Proved!Serve(r)) \/ (\E h \in Processes : Proved!Die(h))
    /\ UNCHANGED ownVars

\* A step that is not the scan's.
UploadNext ==
    \/ \E s \in Sources : BackoffElapsed(s) \/ RetryByHand(s)
    \/ \E u \in Uploaders : Upload(u)
    \/ \E r \in Requests : Serve(r)
    \/ \E h \in Processes : BackendDies(h)
    \/ Restart

LEMMA UploadKinds ==
    ASSUME GatewayInvariant, UploadNext
    PROVE  \/ \E u \in Uploaders : Claim(u) \/ Post(u) \/ Failed(u) \/ Settled(u)
           \/ Rescheduled \/ Restart \/ Served
  <1>0. queue \in Queue
    BY DEF GatewayInvariant, RowsSound
  <1>1. ASSUME NEW s \in Sources, BackoffElapsed(s) \/ RetryByHand(s)
        PROVE  Rescheduled
    <2>1. queue[s].status = "FAILED" /\ s \in Accepted(queue)
      BY <1>0, <1>1, RecordedRow DEF BackoffElapsed, RetryByHand
    <2>2. Touched(queue, queue', s, "FAILED")
      BY <1>0, <1>1, <2>1, OperationsTouch DEF BackoffElapsed, RetryByHand
    <2> QED
      BY <1>1, <2>1, <2>2 DEF Rescheduled, BackoffElapsed, RetryByHand
  <1>2. ASSUME NEW u \in Uploaders, NEW b \in BOOLEAN, uploader[u].at # "idle",
               Mark(u, MarkFailed(queue, uploader[u].item, b)), UNCHANGED <<detection, backendVars>>
        PROVE  Failed(u)
    <2>1. Touched(queue, queue', uploader[u].item, "FAILED")
      BY <1>0, <1>2, HeldItem, OperationsTouch DEF Mark
    <2> QED
      BY <1>2, <2>1 DEF Failed, Ended, Mark
  <1>3. ASSUME NEW u \in Uploaders, SpoolUnreadable(u) \/ GiveUp(u)
        PROVE  Failed(u)
    BY <1>2, <1>3 DEF SpoolUnreadable, GiveUp
  <1>4. ASSUME NEW u \in Uploaders, Receive(u)
        PROVE  Failed(u) \/ Settled(u)
    <2>1. CASE answer[uploader[u].req].kind \in Success
      <3>1. Touched(queue, queue', uploader[u].item, "UPLOADED")
        BY <1>0, <1>4, <2>1, HeldItem, OperationsTouch DEF Receive, Mark
      <3> QED
        BY <1>4, <2>1, <3>1 DEF Receive, Settled, Ended, Mark, Success
    <2>2. CASE answer[uploader[u].req].kind \notin Success
      <3> DEFINE b == answer[uploader[u].req].kind \in RetryableAnswers
      <3>1. /\ uploader[u].at = "waiting"
            /\ Mark(u, MarkFailed(queue, uploader[u].item, b))
            /\ UNCHANGED <<detection, backendVars>>
        BY <1>4, <2>2 DEF Receive
      <3>2. b \in BOOLEAN
        OBVIOUS
      <3> HIDE DEF b
      <3>3. Failed(u)
        BY <1>2, <3>1, <3>2
      <3> QED
        BY <3>3
    <2> QED
      BY <2>1, <2>2
  <1>5. ASSUME NEW r \in Requests, Serve(r) PROVE Served
    BY <1>5, SameServe DEF Serve, Served
  <1>6. ASSUME NEW h \in Processes, BackendDies(h) PROVE Served
    BY <1>6, SameDie DEF BackendDies, Served
  <1> QED
    BY <1>1, <1>3, <1>4, <1>5, <1>6 DEF UploadNext, Upload, GoOn

LEMMA StepKinds ==
    ASSUME GatewayInvariant, GatewayNext
    PROVE  \/ \E s \in Sources, k \in Keys : Accept(s, k)
           \/ \E s \in Sources : Reject(s)
           \/ \E u \in Uploaders : Claim(u) \/ Post(u) \/ Failed(u) \/ Settled(u)
           \/ Rescheduled \/ Restart \/ Served
  BY UploadKinds DEF GatewayNext, UploadNext

\* The initial states satisfy the invariants.
LEMMA GatewayStarts == GatewayInit => DeliveryInvariant
  <1> SUFFICES ASSUME GatewayInit PROVE DeliveryInvariant
    OBVIOUS
  <1>1. Proved!IntakeInvariant
    BY IntakeAssumed, SameInit, Proved!InitInvariant DEF GatewayInit
  <1>2. /\ \A r \in Requests : request[r].at = "unsent" /\ answer[r].kind = "none"
    BY DEF GatewayInit, Backend!IntakeInit, Backend!Unsent, Backend!Silence
  <1>3. /\ Recorded(queue) = {} /\ Accepted(queue) = {} /\ queue \in Queue
        /\ \A s \in Sources : queue[s].status = "none"
    BY DEF GatewayInit, EmptyQueue, NoRow, Accepted, Recorded, Queue
  <1>4. uploader \in [Uploaders -> UploaderState] /\ \A u \in Uploaders : uploader[u].at = "idle"
    BY DEF GatewayInit, UploaderState, Idle
  <1>5. detection \in [Sources -> Requests \cup {None}]
    BY DEF GatewayInit
  <1> QED
    BY <1>1, <1>2, <1>3, <1>4, <1>5
       DEF DeliveryInvariant, GatewayInvariant, RowsSound, ThreadsSound, Holds, RequestsSound,
           UploadedSound, Proved!AnswersAreSecure

LEMMA GatewayStep ==
    ASSUME GatewayInvariant, [GatewayNext]_gatewayVars
    PROVE  GatewayInvariant'
  <1>1. CASE UNCHANGED gatewayVars
    BY <1>1, BackendRests
       DEF gatewayVars, backendVars, GatewayInvariant, ThreadsSound, Holds, RequestsSound
  <1>2. ASSUME NEW u \in Uploaders, Failed(u) PROVE GatewayInvariant'
    BY <1>2, MarkStep DEF Failed, Ended, GatewayInvariant
  <1>3. ASSUME NEW u \in Uploaders, Settled(u) PROVE GatewayInvariant'
    <2>1. answer[uploader[u].req].id \in Requests \cup {None}
      BY <1>3, ThreadState DEF Settled, GatewayInvariant, Proved!IntakeInvariant, Proved!IntakeTypeOK
    <2>2. detection' \in [Sources -> Requests \cup {None}]
      BY <1>3, <2>1 DEF Settled, GatewayInvariant
    <2> QED
      BY <1>3, <2>2, MarkStep DEF Settled, Ended
  <1>4. CASE Rescheduled
    BY <1>4, TouchStep DEF Rescheduled
  <1> QED
    BY <1>1, <1>2, <1>3, <1>4, StepKinds, AcceptStep, RejectStep, ClaimStep, PostStep,
       RestartStep, ServeStep DEF Served

\* What was uploaded stays so while nothing new is marked.
LEMMA UploadedFrame ==
    ASSUME DeliveryInvariant, ~AckedMayAbort, Proved!IntakeNext \/ UNCHANGED backendVars,
           \A s \in Sources : queue'[s].status = "UPLOADED" =>
               queue[s].status = "UPLOADED" /\ queue'[s].key = queue[s].key /\ detection'[s] = detection[s]
    PROVE  UploadedSound' /\ Proved!AnswersAreSecure'
  <1>1. CASE Proved!IntakeNext
    <2>1. Proved!AnswersAreSecure'
      BY <1>1, IntakeAssumed, Proved!AnswersStaySecure DEF DeliveryInvariant, GatewayInvariant
    <2>2. \A w \in Requests : Proved!Secure(w) => Proved!Secure(w)'
      BY <1>1, IntakeAssumed, Proved!SecureSteps DEF DeliveryInvariant, GatewayInvariant
    <2>3. \A w \in Requests : request[w].at # "unsent" =>
             request'[w].at # "unsent" /\ request'[w].key = request[w].key
      BY <1>1, BackendStep DEF DeliveryInvariant, GatewayInvariant
    <2> QED
      BY <2>1, <2>2, <2>3 DEF UploadedSound, DeliveryInvariant
  <1>2. CASE UNCHANGED backendVars
    BY <1>2 DEF backendVars, UploadedSound, DeliveryInvariant, Proved!AnswersAreSecure, Proved!Secure
  <1> QED
    BY <1>1, <1>2

\* The inspection that a row is marked with is of its image and secure.
LEMMA SettledIsSecure ==
    ASSUME DeliveryInvariant, NEW u \in Uploaders, Settled(u)
    PROVE  LET d == answer[uploader[u].req].id IN
           /\ d \in Requests /\ Proved!Secure(d) /\ request[d].at # "unsent"
           /\ request[d].key = queue[uploader[u].item].key
  <1>1. uploader[u].req \in Requests
        /\ request[uploader[u].req].key = queue[uploader[u].item].key
    BY ThreadState DEF Settled, DeliveryInvariant, GatewayInvariant, RequestsSound
  <1> QED
    BY <1>1 DEF Settled, DeliveryInvariant, GatewayInvariant, Proved!AnswersAreSecure,
                Proved!IntakeInvariant, Proved!AnswerFitsRequest

LEMMA DeliveryStep ==
    ASSUME DeliveryInvariant, ~AckedMayAbort, [GatewayNext]_gatewayVars
    PROVE  DeliveryInvariant'
  <1> USE DEF DeliveryInvariant
  <1>0. GatewayInvariant'
    BY GatewayStep
  <1>1. CASE UNCHANGED gatewayVars
    BY <1>0, <1>1, UploadedFrame DEF gatewayVars, backendVars
  <1>2. ASSUME NEW s \in Sources, NEW k \in Keys, Accept(s, k) PROVE DeliveryInvariant'
    <2>1. /\ \A t \in Sources \ {s} : queue'[t] = queue[t]
          /\ queue'[s].status \in {"QUEUED", "DUPLICATE"}
      BY <1>2, EnqueueRows DEF Accept, GatewayInvariant
    <2> QED
      BY <1>0, <1>2, <2>1, UploadedFrame DEF Accept
  <1>11. ASSUME NEW s \in Sources, Reject(s) PROVE DeliveryInvariant'
    <2>1. /\ \A t \in Sources \ {s} : queue'[t] = queue[t]
          /\ queue'[s].status = "REJECTED"
      BY <1>11, RejectRows DEF Reject, GatewayInvariant
    <2> QED
      BY <1>0, <1>11, <2>1, UploadedFrame DEF Reject
  <1>3. ASSUME NEW s \in Sources, NEW status \in {"FAILED", "UPLOADING"}, Touched(queue, queue', s, status),
               UNCHANGED <<detection, backendVars>>
        PROVE  DeliveryInvariant'
    BY <1>0, <1>3, UploadedFrame DEF Touched
  <1>4. CASE Rescheduled
    BY <1>3, <1>4 DEF Rescheduled
  <1>5. ASSUME NEW u \in Uploaders, Failed(u) PROVE DeliveryInvariant'
    BY <1>3, <1>5, HeldItem DEF Failed, Ended
  <1>6. ASSUME NEW u \in Uploaders, Claim(u) PROVE DeliveryInvariant'
    <2> DEFINE s == First(queue, Claimable(queue))
    <2>1. s \in Claimable(queue)
      BY <1>6, FirstIsOne DEF Claim, Claimable, Due, GatewayInvariant, RowsSound
    <2>2. s \in Accepted(queue) /\ s \in Sources /\ queue[s].status \in {"QUEUED", "FAILED"}
      BY <2>1 DEF Claimable, Due, Accepted, Recorded
    <2>3. queue' = ClaimDue(queue, s) /\ UNCHANGED <<detection, backendVars>>
      BY <1>6 DEF Claim
    <2> HIDE DEF s
    <2>4. Touched(queue, queue', s, "UPLOADING")
      BY <2>2, <2>3, OperationsTouch DEF GatewayInvariant, RowsSound
    <2> QED
      BY <1>3, <2>2, <2>3, <2>4
  <1>7. ASSUME NEW u \in Uploaders, Post(u) PROVE DeliveryInvariant'
    BY <1>0, <1>7, PostStep, UploadedFrame DEF Post
  <1>8. ASSUME NEW u \in Uploaders, Settled(u) PROVE DeliveryInvariant'
    <2> DEFINE s == uploader[u].item
               d == answer[uploader[u].req].id
    <2>1. s \in Sources /\ UNCHANGED backendVars /\ Touched(queue, queue', s, "UPLOADED")
      BY <1>8, HeldItem DEF Settled, Ended
    <2>2. /\ d \in Requests /\ Proved!Secure(d) /\ request[d].at # "unsent"
          /\ request[d].key = queue[s].key
      BY <1>8, SettledIsSecure
    <2>3. detection'[s] = d /\ \A t \in Sources \ {s} : detection'[t] = detection[t]
      BY <1>8, <2>1 DEF Settled, GatewayInvariant
    <2> HIDE DEF s, d
    <2>4. Proved!AnswersAreSecure' /\ \A w : Proved!Secure(w)' <=> Proved!Secure(w)
      BY <2>1 DEF backendVars, Proved!AnswersAreSecure, Proved!Secure
    <2>5. UploadedSound'
      BY <2>1, <2>2, <2>3, <2>4 DEF Touched, UploadedSound, backendVars
    <2> QED
      BY <1>0, <2>4, <2>5
  <1>9. CASE Restart
    <2>1. \A t \in Sources : queue'[t].status = "UPLOADED" => t \in Recorded(queue)
      BY <1>9, RecoveredRows, RecordedRow DEF Restart, GatewayInvariant, RowsSound
    <2>2. \A t \in Sources : queue'[t].status = "UPLOADED" =>
             queue[t].status = "UPLOADED" /\ queue'[t].key = queue[t].key
      BY <1>9, <2>1, RecoveredRows DEF Restart, GatewayInvariant
    <2> QED
      BY <1>0, <1>9, <2>2, UploadedFrame DEF Restart
  <1>10. CASE Served
    BY <1>0, <1>10, ServeStep, UploadedFrame DEF Served, ownVars
  <1> QED
    BY <1>1, <1>2, <1>4, <1>5, <1>6, <1>7, <1>8, <1>9, <1>10, <1>11, StepKinds

-----------------------------------------------------------------------------
(* What the runs check.                                                     *)

\* The table, the threads at work on it and the requests in flight fit together in
\* every reachable state.
THEOREM GatewayInvariantHolds == GatewaySpec => []GatewayInvariant
  <1>1. GatewayInit => GatewayInvariant
    BY GatewayStarts DEF DeliveryInvariant
  <1>2. GatewayInvariant /\ [GatewayNext]_gatewayVars => GatewayInvariant'
    BY GatewayStep
  <1> QED
    BY <1>1, <1>2, PTL DEF GatewaySpec

\* If no commit fails once its answer was sent, every answer and every uploaded row
\* names an inspection that exists or is about to.
THEOREM DeliveryInvariantHolds ==
    ASSUME ~AckedMayAbort
    PROVE  GatewaySpec => []DeliveryInvariant
  <1>1. DeliveryInvariant /\ [GatewayNext]_gatewayVars => DeliveryInvariant'
    BY DeliveryStep
  <1> QED
    BY <1>1, GatewayStarts, PTL DEF GatewaySpec

\* However often an item is sent, the backend keeps one inspection of its key.
THEOREM OneInspectionPerKeyHolds == GatewaySpec => []OneInspectionPerKey
  <1>1. GatewayInvariant => OneInspectionPerKey
    BY DEF GatewayInvariant, Proved!IntakeInvariant, Proved!OneInspectionPerKey,
           OneInspectionPerKey, Backend!OneInspectionPerKey
  <1> QED
    BY <1>1, GatewayInvariantHolds, PTL

\* A row is UPLOADING exactly while one thread works on it.
THEOREM UploadingIsHeldOnceHolds == GatewaySpec => []UploadingIsHeldOnce
  <1>1. ASSUME GatewayInvariant
        PROVE  UploadingIsHeldOnce
    <2> SUFFICES ASSUME NEW s \in Sources
                 PROVE  Cardinality({u \in Uploaders : uploader[u] # Idle /\ uploader[u].item = s})
                            = IF queue[s].status = "UPLOADING" THEN 1 ELSE 0
      BY DEF UploadingIsHeldOnce
    <2>1. {u \in Uploaders : uploader[u] # Idle /\ uploader[u].item = s}
             = {u \in Uploaders : Holds(u, s)}
      BY <1>1, ThreadState DEF Holds, GatewayInvariant
    <2>2. CASE queue[s].status = "UPLOADING"
      <3>1. PICK u \in Uploaders : Holds(u, s)
        BY <1>1, <2>2 DEF GatewayInvariant, ThreadsSound
      <3>2. {v \in Uploaders : Holds(v, s)} = {u}
        BY <1>1, <3>1 DEF GatewayInvariant, ThreadsSound
      <3> QED
        BY <2>1, <2>2, <3>2, FS_Singleton
    <2>3. CASE queue[s].status # "UPLOADING"
      <3>1. {v \in Uploaders : Holds(v, s)} = {}
        BY <1>1, <2>3 DEF GatewayInvariant, ThreadsSound
      <3> QED
        BY <2>1, <2>3, <3>1, FS_EmptySet
    <2> QED
      BY <2>2, <2>3
  <1> QED
    BY <1>1, GatewayInvariantHolds, PTL

\* Every DUPLICATE was folded into an older row of its key that still holds the
\* image, the only one of its key to be uploaded.
THEOREM DuplicateHasPrimaryHolds == GatewaySpec => []DuplicateHasPrimary
  <1>1. ASSUME GatewayInvariant
        PROVE  DuplicateHasPrimary
    <2>1. RowsSound(queue)
      BY <1>1 DEF GatewayInvariant
    <2>2. ASSUME NEW s \in Accepted(queue), queue[s].status = "DUPLICATE"
          PROVE  queue[queue[s].primary].spool
      <3> DEFINE p == queue[s].primary
      <3>1. p \in Primaries(queue, queue[s].key) /\ queue[s].key \in Keys
        BY <2>1, <2>2 DEF RowsSound, Held
      <3>2. p \in Recorded(queue) /\ queue[p].status # "DUPLICATE" /\ queue[p].key \in Keys
        BY <3>1 DEF Primaries
      <3>3. p \in Accepted(queue)
        BY <2>1, <3>2, EdgeGatewayAssumption DEF Accepted, RowsSound, Listed
      <3> QED
        BY <2>1, <3>2, <3>3 DEF RowsSound, Held
    <2> QED
      BY <2>1, <2>2 DEF RowsSound, Held, DuplicateHasPrimary
  <1> QED
    BY <1>1, GatewayInvariantHolds, PTL

\* If no commit fails once its answer was sent, an uploaded row names an inspection
\* of its image that exists or is about to.
THEOREM UploadedIsDetectedHolds ==
    ASSUME ~AckedMayAbort
    PROVE  GatewaySpec => []UploadedIsDetected
  <1>1. DeliveryInvariant => UploadedIsDetected
    BY DEF DeliveryInvariant, UploadedSound, UploadedIsDetected, Proved!Secure
  <1> QED
    BY <1>1, DeliveryInvariantHolds, PTL

-----------------------------------------------------------------------------
(* The refinement.                                                          *)
HeldKeys(q) == {q[s].key : s \in Accepted(q)}

UploadedKeys(q) == {q[s].key : s \in {t \in Recorded(q) : q[t].status = "UPLOADED"}}

LEMMA AbstractVars ==
    /\ Abstract!vars = <<HeldKeys(queue), Detected, UploadedKeys(queue)>>
  BY DEF Abstract!vars, HeldKeys, UploadedKeys

LEMMA DetectedIsSecure ==
    Detected = {<<request[r].key, r>> : r \in {x \in Requests : Proved!Secure(x)}}
  BY DEF Detected, Proved!Secure

\* A secure inspection's request was sent.
LEMMA SecureWasSent ==
    ASSUME Proved!IntakeInvariant, NEW r \in Requests, Proved!Secure(r)
    PROVE  request[r].at # "unsent"
  BY DEF Proved!Secure, Proved!IntakeInvariant, Proved!RowsHaveWriters

\* A step of the backend detects one key, for the first time, or none.
LEMMA BackendDetects ==
    ASSUME DeliveryInvariant, ~AckedMayAbort, Proved!IntakeNext
    PROVE  \/ UNCHANGED Detected
           \/ \E r \in Requests :
                 /\ request[r].key \in HeldKeys(queue)
                 /\ \A d \in Detected : d[1] # request[r].key
                 /\ Detected' = Detected \cup {<<request[r].key, r>>}
  <1> DEFINE S == {x \in Requests : Proved!Secure(x)}
  <1>1. Proved!IntakeInvariant
    BY DEF DeliveryInvariant, GatewayInvariant
  <1>2. \A w \in S : request'[w].key = request[w].key
    BY <1>1, SecureWasSent, BackendStep
  <1>3. Detected' = {<<request'[r].key, r>> : r \in {x \in Requests : Proved!Secure(x)'}}
    BY DEF Detected, Proved!Secure
  <1>4. CASE \A w \in Requests : Proved!Secure(w)' <=> Proved!Secure(w)
    <2>1. {x \in Requests : Proved!Secure(x)'} = S
      BY <1>4
    <2>2. Detected' = {<<request[r].key, r>> : r \in S}
      BY <1>2, <1>3, <2>1
    <2> QED
      BY <2>2, DetectedIsSecure
  <1>5. ASSUME NEW r \in Requests, Proved!Acknowledge(r),
               \A w \in Requests : Proved!Secure(w)' <=> (Proved!Secure(w) \/ w = r)
        PROVE  /\ request[r].key \in HeldKeys(queue)
               /\ \A d \in Detected : d[1] # request[r].key
               /\ Detected' = Detected \cup {<<request[r].key, r>>}
    <2>1. request[r].at # "unsent"
      BY <1>5 DEF Proved!Acknowledge
    <2>2. request[r].key \in HeldKeys(queue)
      BY <2>1 DEF DeliveryInvariant, GatewayInvariant, RequestsSound, HeldKeys
    <2>3. \A w \in S : request[w].key # request[r].key
      BY <1>1, <1>5, IntakeAssumed, Proved!AcknowledgedIsFirst
    <2>4. {x \in Requests : Proved!Secure(x)'} = S \cup {r}
      BY <1>5
    <2>5. request'[r].key = request[r].key
      BY <1>1, <2>1, BackendStep
    <2>6. Detected' = {<<request[w].key, w>> : w \in S} \cup {<<request[r].key, r>>}
      BY <1>2, <1>3, <2>4, <2>5
    <2> QED
      BY <2>2, <2>3, <2>6, DetectedIsSecure
  <1>6. \/ \A w \in Requests : Proved!Secure(w)' <=> Proved!Secure(w)
        \/ \E r \in Requests : /\ Proved!Acknowledge(r)
                               /\ \A w \in Requests : Proved!Secure(w)' <=> (Proved!Secure(w) \/ w = r)
    BY <1>1, IntakeAssumed, Proved!SecureSteps
  <1> QED
    BY <1>4, <1>5, <1>6

\* The rows' keys are kept and, but for what is marked, so is what was uploaded.
LEMMA KeysKept ==
    ASSUME NEW q, NEW p, Recorded(p) = Recorded(q), Accepted(p) = Accepted(q),
           \A t \in Recorded(q) : p[t].key = q[t].key
    PROVE  /\ HeldKeys(p) = HeldKeys(q)
           /\ (\A t \in Recorded(q) : p[t].status = "UPLOADED" <=> q[t].status = "UPLOADED")
                 => UploadedKeys(p) = UploadedKeys(q)
           /\ \A s \in Recorded(q) :
                 (/\ p[s].status = "UPLOADED"
                  /\ \A t \in Recorded(q) \ {s} :
                        p[t].status = "UPLOADED" <=> q[t].status = "UPLOADED")
                 => UploadedKeys(p) = UploadedKeys(q) \cup {q[s].key}
  <1>1. HeldKeys(p) = HeldKeys(q)
    BY DEF HeldKeys, Accepted
  <1>2. (\A t \in Recorded(q) : p[t].status = "UPLOADED" <=> q[t].status = "UPLOADED")
           => UploadedKeys(p) = UploadedKeys(q)
    BY DEF UploadedKeys
  <1>3. ASSUME NEW s \in Recorded(q), p[s].status = "UPLOADED",
               \A t \in Recorded(q) \ {s} : p[t].status = "UPLOADED" <=> q[t].status = "UPLOADED"
        PROVE  UploadedKeys(p) = UploadedKeys(q) \cup {q[s].key}
    <2>1. {t \in Recorded(p) : p[t].status = "UPLOADED"}
             = {t \in Recorded(q) : q[t].status = "UPLOADED"} \cup {s}
      BY <1>3
    <2>2. UploadedKeys(p) = {q[x].key : x \in {t \in Recorded(q) : q[t].status = "UPLOADED"} \cup {s}}
      BY <2>1 DEF UploadedKeys
    <2> QED
      BY <2>2 DEF UploadedKeys
  <1> QED
    BY <1>1, <1>2, <1>3

LEMMA RefinementInit == GatewayInit => Abstract!Init
  <1> SUFFICES ASSUME GatewayInit PROVE Abstract!Init
    OBVIOUS
  <1>1. Recorded(queue) = {} /\ Accepted(queue) = {}
    BY DEF GatewayInit, EmptyQueue, NoRow, Accepted, Recorded
  <1>2. Detected = {}
    BY DEF GatewayInit, Detected, Backend!IntakeInit, Backend!Unsent
  <1> QED
    BY <1>1, <1>2 DEF Abstract!Init

LEMMA RefinementStep ==
    ASSUME DeliveryInvariant, ~AckedMayAbort, [GatewayNext]_gatewayVars
    PROVE  [Abstract!Next]_Abstract!vars
  <1> DEFINE Stutter == /\ UNCHANGED Detected
                        /\ HeldKeys(queue') = HeldKeys(queue)
                        /\ UploadedKeys(queue') = UploadedKeys(queue)
  <1>a. Stutter => UNCHANGED Abstract!vars
    BY DEF Abstract!vars, HeldKeys, UploadedKeys
  <1>b. ASSUME UNCHANGED backendVars PROVE UNCHANGED Detected
    BY <1>b DEF backendVars, Detected
  <1>c. RowsSound(queue)
    BY DEF DeliveryInvariant, GatewayInvariant
  <1>1. CASE UNCHANGED gatewayVars
    BY <1>1, <1>a, <1>b DEF gatewayVars, backendVars
  <1>2. ASSUME NEW s \in Sources, NEW k \in Keys, Accept(s, k) PROVE Abstract!Next
    <2>1. /\ Recorded(queue') = Recorded(queue) \cup {s} /\ s \notin Recorded(queue)
          /\ Accepted(queue') = Accepted(queue) \cup {s} /\ Accepted(queue) \subseteq Recorded(queue)
          /\ \A t \in Recorded(queue) : queue'[t] = queue[t]
          /\ queue'[s].key = k /\ queue'[s].status # "UPLOADED"
      BY <1>2, <1>c, EnqueueRows DEF Accept, Accepted, Recorded
    <2>2. HeldKeys(queue') = HeldKeys(queue) \cup {k}
      BY <2>1 DEF HeldKeys
    <2>3. {t \in Recorded(queue') : queue'[t].status = "UPLOADED"}
             = {t \in Recorded(queue) : queue[t].status = "UPLOADED"}
      BY <2>1
    <2>4. UploadedKeys(queue') = UploadedKeys(queue)
      BY <2>1, <2>3 DEF UploadedKeys
    <2>5. UNCHANGED Detected
      BY <1>2, <1>b DEF Accept
    <2>6. Abstract!Hold(k)
      BY <2>2, <2>4, <2>5 DEF Abstract!Hold, HeldKeys, UploadedKeys
    <2> QED
      BY <2>6 DEF Abstract!Next
  <1>12. ASSUME NEW s \in Sources, Reject(s) PROVE UNCHANGED Abstract!vars
    <2>1. /\ Recorded(queue') = Recorded(queue) \cup {s} /\ s \notin Recorded(queue)
          /\ Accepted(queue') = Accepted(queue) /\ Accepted(queue) \subseteq Recorded(queue)
          /\ \A t \in Recorded(queue) : queue'[t] = queue[t]
          /\ queue'[s].status # "UPLOADED"
      BY <1>12, <1>c, RejectRows DEF Reject, Accepted, Recorded
    <2>2. HeldKeys(queue') = HeldKeys(queue)
      BY <2>1 DEF HeldKeys
    <2>3. {t \in Recorded(queue') : queue'[t].status = "UPLOADED"}
             = {t \in Recorded(queue) : queue[t].status = "UPLOADED"}
      BY <2>1
    <2>4. UploadedKeys(queue') = UploadedKeys(queue)
      BY <2>1, <2>3 DEF UploadedKeys
    <2>5. UNCHANGED Detected
      BY <1>12, <1>b DEF Reject
    <2> QED
      BY <2>2, <2>4, <2>5, <1>a
  <1>3. ASSUME NEW s \in Sources, NEW status \in {"FAILED", "UPLOADING"},
               queue[s].status # "UPLOADED", Touched(queue, queue', s, status),
               UNCHANGED backendVars
        PROVE  UNCHANGED Abstract!vars
    <2>1. /\ Recorded(queue') = Recorded(queue) /\ Accepted(queue') = Accepted(queue)
          /\ \A t \in Recorded(queue) : queue'[t].key = queue[t].key
      BY <1>3, <1>c, TouchedRows
    <2>2. \A t \in Recorded(queue) : queue'[t].status = "UPLOADED" <=> queue[t].status = "UPLOADED"
      BY <1>3 DEF Touched, Recorded
    <2>3. Stutter
      BY <2>1, <2>2, <1>3, <1>b, KeysKept
    <2> QED
      BY <2>3, <1>a
  <1>4. CASE Rescheduled
    BY <1>3, <1>4 DEF Rescheduled
  <1>5. ASSUME NEW u \in Uploaders, Failed(u) PROVE UNCHANGED Abstract!vars
    BY <1>3, <1>5, HeldItem DEF Failed, Ended, DeliveryInvariant
  <1>6. ASSUME NEW u \in Uploaders, Claim(u) PROVE UNCHANGED Abstract!vars
    <2> DEFINE s == First(queue, Claimable(queue))
    <2>1. s \in Claimable(queue)
      BY <1>6, <1>c, FirstIsOne DEF Claim, Claimable, Due, RowsSound
    <2>2. s \in Accepted(queue) /\ s \in Sources /\ queue[s].status \in {"QUEUED", "FAILED"}
      BY <2>1 DEF Claimable, Due, Accepted, Recorded
    <2>3. queue' = ClaimDue(queue, s) /\ UNCHANGED backendVars
      BY <1>6 DEF Claim
    <2> HIDE DEF s
    <2>4. Touched(queue, queue', s, "UPLOADING")
      BY <1>c, <2>2, <2>3, OperationsTouch DEF RowsSound
    <2> QED
      BY <1>3, <2>2, <2>3, <2>4
  <1>7. ASSUME Proved!IntakeNext, UNCHANGED queue
        PROVE  Abstract!Next \/ UNCHANGED Abstract!vars
    <2>1. CASE UNCHANGED Detected
      BY <1>7, <1>a, <2>1
    <2>2. ASSUME NEW r \in Requests, request[r].key \in HeldKeys(queue),
                 \A d \in Detected : d[1] # request[r].key,
                 Detected' = Detected \cup {<<request[r].key, r>>}
          PROVE  Abstract!Next
      <3>1. request[r].key \in Keys
        BY <1>c, <2>2 DEF RowsSound, Held, HeldKeys
      <3>2. Abstract!Detect(request[r].key)
        BY <1>7, <2>2 DEF Abstract!Detect, HeldKeys
      <3> QED
        BY <3>1, <3>2 DEF Abstract!Next
    <2> QED
      BY <1>7, <2>1, <2>2, BackendDetects
  <1>8. ASSUME NEW u \in Uploaders, Post(u) PROVE Abstract!Next \/ UNCHANGED Abstract!vars
    BY <1>7, <1>8, PostStep DEF Post, DeliveryInvariant
  <1>9. ASSUME NEW u \in Uploaders, Settled(u) PROVE Abstract!Next
    <2> DEFINE s == uploader[u].item
               d == answer[uploader[u].req].id
    <2>1. /\ s \in Sources /\ s \in Recorded(queue) /\ queue[s].status = "UPLOADING"
          /\ queue[s].key \in Keys /\ UNCHANGED backendVars /\ Touched(queue, queue', s, "UPLOADED")
      BY <1>9, HeldItem DEF Settled, Ended, DeliveryInvariant
    <2>2. d \in Requests /\ Proved!Secure(d) /\ request[d].key = queue[s].key
      BY <1>9, SettledIsSecure
    <2> HIDE DEF s, d
    <2>3. <<queue[s].key, d>> \in Detected
      BY <2>2, DetectedIsSecure
    <2>4. /\ Recorded(queue') = Recorded(queue) /\ Accepted(queue') = Accepted(queue)
          /\ \A t \in Recorded(queue) : queue'[t].key = queue[t].key
      BY <1>c, <2>1, TouchedRows
    <2>5. /\ queue'[s].status = "UPLOADED"
          /\ \A t \in Recorded(queue) \ {s} :
                queue'[t].status = "UPLOADED" <=> queue[t].status = "UPLOADED"
      BY <2>1 DEF Touched, Recorded
    <2>6. /\ HeldKeys(queue') = HeldKeys(queue)
          /\ UploadedKeys(queue') = UploadedKeys(queue) \cup {queue[s].key}
      BY <2>1, <2>4, <2>5, KeysKept
    <2>7. UNCHANGED Detected
      BY <1>b, <2>1
    <2>8. <<queue[s].key, d>>[1] = queue[s].key
      OBVIOUS
    <2>9. PICK k \in Keys : k = queue[s].key
      BY <2>1
    <2>10. Abstract!Settle(k)
      BY <2>3, <2>6, <2>7, <2>8, <2>9 DEF Abstract!Settle, HeldKeys, UploadedKeys
    <2> QED
      BY <2>10 DEF Abstract!Next
  <1>10. CASE Restart
    <2>1. /\ Recorded(queue') = Recorded(queue) /\ Accepted(queue') = Accepted(queue)
          /\ \A t \in Recorded(queue) : /\ queue'[t].key = queue[t].key
                                        /\ queue'[t].status = "UPLOADED" <=> queue[t].status = "UPLOADED"
      BY <1>10, <1>c, RecoveredRows DEF Restart, Recorded
    <2>2. Stutter
      BY <1>10, <1>b, <2>1, KeysKept DEF Restart
    <2> QED
      BY <2>2, <1>a
  <1>11. CASE Served
    BY <1>7, <1>11, ServeStep DEF Served, ownVars, DeliveryInvariant
  <1> QED
    BY <1>1, <1>2, <1>4, <1>5, <1>6, <1>8, <1>9, <1>10, <1>11, <1>12,
       StepKinds DEF DeliveryInvariant

\* If no commit fails once its answer was sent, gateway and backend together
\* implement Delivery: an image is held before anything is sent for it, detected
\* once however often it is sent, and marked uploaded only then.
THEOREM GatewayImplementsDelivery ==
    ASSUME ~AckedMayAbort
    PROVE  GatewaySpec => ImplementsDelivery
  <1>1. DeliveryInvariant /\ [GatewayNext]_gatewayVars => [Abstract!Next]_Abstract!vars
    BY RefinementStep
  <1> QED
    BY <1>1, RefinementInit, DeliveryInvariantHolds, PTL
       DEF GatewaySpec, ImplementsDelivery, Abstract!Spec

=============================================================================
