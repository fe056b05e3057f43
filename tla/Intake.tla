-------------------------------- MODULE Intake --------------------------------
(***************************************************************************)
(* POST /inspections (create_inspection in backend/app/services.py) under   *)
(* concurrent and repeated requests.  A request is one transaction of       *)
(* get_session in backend/app/api.py, whose commit runs after the response  *)
(* has been sent (the exit code of a FastAPI dependency with yield).        *)
(*                                                                          *)
(* The handler is an async def without an await around its database calls:  *)
(* from the lookup to its return it occupies the event loop of its process, *)
(* also while the database makes it wait.  The commit is dispatched by that *)
(* event loop.                                                              *)
(*                                                                          *)
(* One tenant; what happens to an inspection later is QualityLoop's.        *)
(***************************************************************************)
EXTENDS Naturals, FiniteSets

CONSTANTS
    Requests,        \* HTTP requests; an inspection is named by its request
    Keys,            \* Idempotency-Key headers
    Processes,       \* uvicorn processes of the API
    Prints,          \* request fingerprints: image digest and context
    None,            \* no inspection
    AckedMayAbort,   \* whether a commit may fail after the response was sent
    MaxAborts        \* bound: requests that fail inside the backend

ASSUME IntakeAssumption ==
    /\ None \notin Requests
    /\ Processes # {}
    /\ AckedMayAbort \in BOOLEAN
    /\ MaxAborts \in Nat

VARIABLES
    inspections,     \* committed rows of inspections
    request,         \* the requests and where their transactions stand
    loop,            \* the handler that occupies the event loop of a process
    answer,          \* the response of each request, once it was sent
    aborts           \* failures so far

intakeVars == <<inspections, request, loop, answer, aborts>>

Inspection == [id : Requests, key : Keys, print : Prints]

Stage == {"sent", "missed", "inserted", "acked", "done"}

Unsent == [at |-> "unsent"]

SentRequest == [at : Stage, key : Keys, print : Prints, home : Processes]

Silence == [kind |-> "none", id |-> None]

AnswerKind == {"none", "created", "replay", "conflict", "refused", "error"}

IntakeTypeOK ==
    /\ inspections \subseteq Inspection
    /\ request \in [Requests -> {Unsent} \cup SentRequest]
    /\ loop \in [Processes -> Requests \cup {None}]
    /\ answer \in [Requests -> [kind : AnswerKind, id : Requests \cup {None}]]
    /\ aborts \in 0..MaxAborts

IntakeInit ==
    /\ inspections = {}
    /\ request = [r \in Requests |-> Unsent]
    /\ loop = [p \in Processes |-> None]
    /\ answer = [r \in Requests |-> Silence]
    /\ aborts = 0

-----------------------------------------------------------------------------
Send(r, k, p) ==
    /\ request[r] = Unsent
    /\ \E h \in Processes :
          request' = [request EXCEPT ![r] = [at |-> "sent", key |-> k, print |-> p, home |-> h]]
    /\ UNCHANGED <<inspections, loop, answer, aborts>>

\* The handler is running, or may begin to: it has been sent all of its form.
Runs(r) ==
    \/ request[r].at = "sent" /\ loop[request[r].home] = None
    \/ request[r].at \in {"missed", "inserted"} /\ loop[request[r].home] = r

\* The handler goes on to the next stage and keeps the event loop.
Reach(r, stage) ==
    /\ request' = [request EXCEPT ![r].at = stage]
    /\ loop' = [loop EXCEPT ![request[r].home] = r]
    /\ UNCHANGED <<inspections, answer, aborts>>

\* The handler ends with this answer and leaves nothing in the database.
Finish(r, kind, id) ==
    /\ request' = [request EXCEPT ![r].at = "done"]
    /\ loop' = [loop EXCEPT ![request[r].home] = None]
    /\ answer' = [answer EXCEPT ![r] = [kind |-> kind, id |-> id]]
    /\ UNCHANGED inspections

Stored(r) == \E i \in inspections : i.key = request[r].key

\* Variant: whatever is stored under the key is taken for the same request.
ReplayUnchecked(r) ==
    \E i \in inspections :
        /\ i.key = request[r].key
        /\ Finish(r, "replay", i.id)
        /\ UNCHANGED aborts

\* Variant: a key that was used is a conflict, for whatever request.
ReplayNever(r) == Stored(r) /\ Finish(r, "conflict", None) /\ UNCHANGED aborts

\* The stored inspection is returned to the same request, and a different one
\* under its key is a conflict.
Replay(r) ==
    \E i \in inspections :
        /\ i.key = request[r].key
        /\ IF i.print = request[r].print
           THEN Finish(r, "replay", i.id)
           ELSE Finish(r, "conflict", None)
        /\ UNCHANGED aborts

\* The SELECT by idempotency key.
Lookup(r) ==
    /\ request[r].at = "sent"
    /\ Runs(r)
    /\ IF Stored(r) THEN Replay(r) ELSE Reach(r, "missed")

\* Pack binding, image validation and, when the lookup misses, the tenant, product
\* and station checks: 4xx.
Refuse(r) ==
    /\ request[r].at = "sent"
    /\ Runs(r)
    /\ Finish(r, "refused", None)
    /\ UNCHANGED aborts

\* Transactions that wrote a row under the key and are still open.
Writers(k) ==
    {r \in Requests : request[r].at \in {"inserted", "acked"} /\ request[r].key = k}

\* Variant: no unique constraint on (tenant_id, idempotency_key).
InsertAnyway(r) ==
    /\ request[r].at = "missed"
    /\ Runs(r)
    /\ Reach(r, "inserted")

\* The flush of the new row.  The unique constraint makes it wait, without a
\* timeout, for an open writer of the same key; the IntegrityError after the
\* other's commit is rolled back and answered from the row that won.
Insert(r) ==
    /\ request[r].at = "missed"
    /\ Runs(r)
    /\ Writers(request[r].key) = {}
    /\ IF Stored(r) THEN Replay(r) ELSE Reach(r, "inserted")

\* The image is stored, the outbox event added, the handler returns and 202 is
\* sent.
Acknowledge(r) ==
    /\ request[r].at = "inserted"
    /\ Runs(r)
    /\ request' = [request EXCEPT ![r].at = "acked"]
    /\ loop' = [loop EXCEPT ![request[r].home] = None]
    /\ answer' = [answer EXCEPT ![r] = [kind |-> "created", id |-> r]]
    /\ UNCHANGED <<inspections, aborts>>

\* The exit of get_session, which the event loop hands to a thread.
Commit(r) ==
    /\ request[r].at = "acked"
    /\ loop[request[r].home] = None
    /\ inspections' = inspections \cup
          {[id |-> r, key |-> request[r].key, print |-> request[r].print]}
    /\ request' = [request EXCEPT ![r].at = "done"]
    /\ UNCHANGED <<loop, answer, aborts>>

Mishap ==
    /\ aborts < MaxAborts
    /\ aborts' = aborts + 1

\* The database, or the image store after the insert, fails and the handler raises.
Raise(r) ==
    /\ request[r].at \in {"sent", "missed", "inserted"}
    /\ Runs(r)
    /\ request[r].at = "missed" => Writers(request[r].key) = {}
    /\ Mishap
    /\ Finish(r, "error", None)

\* The commit fails when the answer is gone.
CommitFails(r) ==
    /\ AckedMayAbort
    /\ request[r].at = "acked"
    /\ loop[request[r].home] = None
    /\ Mishap
    /\ request' = [request EXCEPT ![r].at = "done"]
    /\ UNCHANGED <<inspections, loop, answer>>

Open(h) == {r \in Requests : request[r] # Unsent /\ request[r].at # "done" /\ request[r].home = h}

\* A process dies with its connections: what was written is rolled back.
Die(h) ==
    /\ Open(h) # {}
    /\ AckedMayAbort \/ \A r \in Open(h) : request[r].at # "acked"
    /\ Mishap
    /\ request' = [r \in Requests |->
                      IF r \in Open(h) THEN [request[r] EXCEPT !.at = "done"] ELSE request[r]]
    /\ loop' = [loop EXCEPT ![h] = None]
    /\ UNCHANGED <<inspections, answer>>

\* The steps of the backend on a request.
Serve(r) ==
    \/ Lookup(r) \/ Refuse(r) \/ Insert(r) \/ Acknowledge(r) \/ Commit(r)
    \/ Raise(r) \/ CommitFails(r)

IntakeNext ==
    \/ \E r \in Requests, k \in Keys, p \in Prints : Send(r, k, p)
    \/ \E r \in Requests : Serve(r)
    \/ \E h \in Processes : Die(h)

\* Clients send what they like, and twice; the gateway is one of them.
IntakeSpec == IntakeInit /\ [][IntakeNext]_intakeVars

\* A process runs what it can run.
IntakeFairSpec == IntakeSpec /\ \A r \in Requests : WF_intakeVars(Serve(r))

-----------------------------------------------------------------------------
(***************************************************************************)
(* Properties.                                                              *)
(***************************************************************************)

\* docs/04-edge-gateway-deployment.md: a repeated request gets the original
\* inspection, it is not inferred or ticketed twice.  Lookup and Insert are two
\* steps and any number of requests may be between them.
OneInspectionPerKey ==
    \A i, j \in inspections : i.key = j.key => i = j

\* The inspection named in an answer was made from an image and a context equal
\* to the asker's, under the key asked with.
AnswerFitsRequest ==
    \A r \in Requests :
        answer[r].kind \in {"created", "replay"} =>
            LET w == answer[r].id IN
            /\ w \in Requests
            /\ request[w].at \in {"acked", "done"}
            /\ request[w].key = request[r].key
            /\ request[w].print = request[r].print

\* A conflict is answered only on the ground of a stored, different request.
ConflictIsFounded ==
    \A r \in Requests :
        answer[r].kind = "conflict" =>
            \E i \in inspections : i.key = request[r].key /\ i.print # request[r].print

\* A repeated request gets the original inspection (docs/04-edge-gateway-
\* deployment.md), and every request some answer.
EveryRequestAnswered ==
    \A r \in Requests : request[r].at = "sent" ~> request[r].at = "done"

-----------------------------------------------------------------------------
(***************************************************************************)
(* The inductive invariant behind the properties.                           *)
(***************************************************************************)

\* Every row was written by the request it is named after, whose transaction is
\* over.
RowsHaveWriters ==
    \A i \in inspections :
        /\ request[i.id].at = "done"
        /\ request[i.id].key = i.key
        /\ request[i.id].print = i.print

\* An open writer is alone under its key and no row was committed before it.
WritersAreAlone ==
    \A r \in Requests :
        request[r].at \in {"inserted", "acked"} =>
            /\ ~Stored(r)
            /\ \A w \in Writers(request[r].key) : w = r

\* Before the acknowledgement nothing was answered.
AnswersAreFinal ==
    \A r \in Requests :
        request[r].at \in {"unsent", "sent", "missed", "inserted"} => answer[r] = Silence

IntakeInvariant ==
    /\ IntakeTypeOK
    /\ RowsHaveWriters
    /\ WritersAreAlone
    /\ AnswersAreFinal
    /\ OneInspectionPerKey
    /\ AnswerFitsRequest
    /\ ConflictIsFounded

=============================================================================
