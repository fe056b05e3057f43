------------------------------ MODULE EdgeQueue ------------------------------
(***************************************************************************)
(* The local queue of an edge gateway (edge-gateway/src/edge_gateway/       *)
(* queue.py) as operators from one content of the SQLite table to the next. *)
(* Each is one transaction: BEGIN IMMEDIATE, or a single UPDATE.            *)
(*                                                                          *)
(* The table holds one row per source observation, so it is a function from *)
(* source fingerprints; id is the AUTOINCREMENT key, in whose order rows    *)
(* are created.  The scan (EdgeIngest) adds rows, the upload (EdgeGateway)  *)
(* settles them.                                                            *)
(***************************************************************************)
EXTENDS Naturals, FiniteSets

CONSTANTS
    Sources,     \* source fingerprints: path, size and mtime of a file
    Keys,        \* deterministic idempotency keys
    None,        \* SQL NULL, no file, no path
    Background   \* the thread of the background loop

VARIABLE queue   \* the SQLite table queue_items

QueueStatus ==
    {"QUEUED", "UPLOADING", "UPLOADED", "FAILED", "DUPLICATE", "REJECTED"}

\* due abstracts next_attempt_at <= now.
Row == [id : Nat, status : QueueStatus, key : Keys \cup {None}, spool : BOOLEAN,
        retryable : BOOLEAN, due : BOOLEAN, primary : Sources \cup {None}]

NoRow == [status |-> "none"]

Queue == [Sources -> {NoRow} \cup Row]

EmptyQueue == [s \in Sources |-> NoRow]

\* A thread of the gateway that is between two pieces of work.
Idle == [at |-> "idle"]

Recorded(q) == {s \in Sources : q[s] # NoRow}

\* The rows that stand for an image the quality gate accepted.
Accepted(q) == {s \in Recorded(q) : q[s].status # "REJECTED"}

NextId(q) == 1 + Cardinality(Recorded(q))

Inserted(q, s, status, key, spool, primary) ==
    [q EXCEPT ![s] = [id |-> NextId(q), status |-> status, key |-> key, spool |-> spool,
                      retryable |-> status = "QUEUED", due |-> status = "QUEUED",
                      primary |-> primary]]

\* The row that was created first.
First(q, S) == CHOOSE s \in S : \A t \in S : q[s].id <= q[t].id

\* What an equal observation is folded into; permanently FAILED rows count too.
Primaries(q, key) ==
    {s \in Recorded(q) : q[s].key = key /\ q[s].status # "DUPLICATE"}

\* Variant: uploaded rows are no longer looked at.
EnqueueBesideUploaded(q, s, key) ==
    LET P == {t \in Primaries(q, key) : q[t].status # "UPLOADED"} IN
    IF s \in Recorded(q) THEN q
    ELSE IF P = {} THEN Inserted(q, s, "QUEUED", key, TRUE, None)
    ELSE Inserted(q, s, "DUPLICATE", key, FALSE, First(q, P))

Enqueue(q, s, key) ==
    LET P == Primaries(q, key) IN
    IF s \in Recorded(q) THEN q
    ELSE IF P = {} THEN Inserted(q, s, "QUEUED", key, TRUE, None)
    ELSE Inserted(q, s, "DUPLICATE", key, FALSE, First(q, P))

RecordRejection(q, s) ==
    IF s \in Recorded(q) THEN q ELSE Inserted(q, s, "REJECTED", None, FALSE, None)

\* Variant: rows found UPLOADING are left for the upload that is under way.
RecoverNothing(q) == q

\* Run when the gateway starts.
RecoverInflight(q) ==
    [s \in Sources |->
        IF q[s].status = "UPLOADING"
        THEN [q[s] EXCEPT !.status = "FAILED", !.retryable = TRUE, !.due = TRUE]
        ELSE q[s]]

Due(q) ==
    {s \in Recorded(q) : q[s].status \in {"QUEUED", "FAILED"} /\ q[s].retryable /\ q[s].due}

\* Variant: an upload under way is due too.
ClaimableUploading(q) ==
    {s \in Recorded(q) : q[s].status \in {"QUEUED", "FAILED", "UPLOADING"}
                         /\ q[s].retryable /\ q[s].due}

\* claim_due takes the oldest of these.
Claimable(q) == Due(q)

ClaimDue(q, s) == [q EXCEPT ![s].status = "UPLOADING"]

MarkUploaded(q, s) ==
    [q EXCEPT ![s].status = "UPLOADED", ![s].retryable = FALSE, ![s].due = FALSE]

\* The next attempt of a retryable failure is at least two seconds away.
MarkFailed(q, s, retryable) ==
    [q EXCEPT ![s].status = "FAILED", ![s].retryable = retryable, ![s].due = FALSE]

\* POST /queue/{id}/retry: of no effect on a row that is not FAILED.
Retry(q, s) ==
    IF q[s].status = "FAILED"
    THEN [q EXCEPT ![s].retryable = TRUE, ![s].due = TRUE]
    ELSE q

=============================================================================
