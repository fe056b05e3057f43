----------------------------- MODULE EdgeGateway -----------------------------
(***************************************************************************)
(* Uploading from the local queue of an edge gateway to the backend         *)
(* (upload_once in edge-gateway/src/edge_gateway/runtime.py and upload in   *)
(* uploader.py), composed with Intake.  upload_once runs in the background  *)
(* loop of main.py and, at the same time, in any POST /cycle request.       *)
(*                                                                          *)
(* A request that was sent may be served long after the gateway has given   *)
(* up waiting for it, or has been restarted.                                *)
(***************************************************************************)
EXTENDS EdgeQueue

CONSTANTS
    Uploaders,       \* threads that may run upload_once: Background and POST /cycle
    Requests,        \* HTTP requests
    Processes,       \* uvicorn processes of the backend's API
    AckedMayAbort,   \* see Intake
    MaxAborts,       \* bound: requests that fail inside the backend
    MaxFaults        \* bound: lost answers, unreadable spools, restarts, retries by hand

ASSUME EdgeGatewayAssumption ==
    /\ None \notin Keys \cup Sources \cup Requests
    /\ IsFiniteSet(Sources)
    /\ Processes # {}
    /\ AckedMayAbort \in BOOLEAN
    /\ Background \in Uploaders
    /\ MaxAborts \in Nat /\ MaxFaults \in Nat

VARIABLES
    uploader,        \* what each thread in upload_once is doing
    detection,       \* queue_items.inspection_id
    faults,          \* failures and interventions so far
    inspections, request, loop, answer, aborts

\* The idempotency key digests the image and the context, which is all that the
\* request fingerprint does.
Backend == INSTANCE Intake WITH Prints <- Keys

backendVars == <<inspections, request, loop, answer, aborts>>

ownVars == <<queue, uploader, detection, faults>>

gatewayVars == <<queue, uploader, detection, faults, inspections, request, loop, answer, aborts>>

UploaderState ==
         {Idle}
    \cup [at : {"claimed"}, item : Sources]
    \cup [at : {"waiting"}, item : Sources, req : Requests]

GatewayTypeOK ==
    /\ Backend!IntakeTypeOK
    /\ queue \in Queue
    /\ uploader \in [Uploaders -> UploaderState]
    /\ detection \in [Sources -> Requests \cup {None}]
    /\ faults \in 0..MaxFaults

GatewayInit ==
    /\ Backend!IntakeInit
    /\ queue = EmptyQueue
    /\ uploader = [u \in Uploaders |-> Idle]
    /\ detection = [s \in Sources |-> None]
    /\ faults = 0

-----------------------------------------------------------------------------
Fault ==
    /\ faults < MaxFaults
    /\ faults' = faults + 1

\* The transaction by which a scan hands an accepted file over (EdgeIngest), with
\* the key that its image and context give.
Accept(s, k) ==
    /\ s \notin Recorded(queue)
    /\ queue' = Enqueue(queue, s, k)
    /\ UNCHANGED <<uploader, detection, faults, backendVars>>

\* The one by which it records a rejection.
Reject(s) ==
    /\ s \notin Recorded(queue)
    /\ queue' = RecordRejection(queue, s)
    /\ UNCHANGED <<uploader, detection, faults, backendVars>>

Claim(u) ==
    /\ uploader[u] = Idle
    /\ Claimable(queue) # {}
    /\ LET s == First(queue, Claimable(queue)) IN
          /\ queue' = ClaimDue(queue, s)
          /\ uploader' = [uploader EXCEPT ![u] = [at |-> "claimed", item |-> s]]
    /\ UNCHANGED <<detection, faults, backendVars>>

\* The upload of u is over: the row is marked.
Mark(u, q) ==
    /\ queue' = q
    /\ uploader' = [uploader EXCEPT ![u] = Idle]

\* The spool file cannot be read: SPOOL_READ_ERROR, for a person to look at.
SpoolUnreadable(u) ==
    /\ uploader[u].at = "claimed"
    /\ Fault
    /\ Mark(u, MarkFailed(queue, uploader[u].item, FALSE))
    /\ UNCHANGED <<detection, backendVars>>

Post(u) ==
    /\ uploader[u].at = "claimed"
    /\ LET fresh == {r \in Requests : request[r] = Backend!Unsent}
           r == CHOOSE x \in fresh : TRUE IN
          /\ fresh # {}
          /\ Backend!Send(r, queue[uploader[u].item].key, queue[uploader[u].item].key)
          /\ uploader' = [uploader EXCEPT ![u] =
                             [at |-> "waiting", item |-> uploader[u].item, req |-> r]]
    /\ UNCHANGED <<queue, detection, faults>>

\* Variant: the status of the answer is not looked at.
SuccessIsAnyAnswer == {"created", "replay", "conflict", "refused"}

Success == {"created", "replay"}

\* 429 and 5xx; every other answer is the backend's last word.
RetryableAnswers == {"error"}

Receive(u) ==
    /\ uploader[u].at = "waiting"
    /\ LET s == uploader[u].item  a == answer[uploader[u].req] IN
          /\ a.kind # "none"
          /\ IF a.kind \in Success
             THEN /\ Mark(u, MarkUploaded(queue, s))
                  /\ detection' = [detection EXCEPT ![s] = a.id]
             ELSE /\ Mark(u, MarkFailed(queue, s, a.kind \in RetryableAnswers))
                  /\ UNCHANGED detection
    /\ UNCHANGED <<faults, backendVars>>

\* Timeout or transport error, before or after the backend did its part.
GiveUp(u) ==
    /\ uploader[u].at = "waiting"
    /\ \/ answer[uploader[u].req].kind = "none"
          /\ request[uploader[u].req].at = "done"
          /\ UNCHANGED faults
       \/ Fault
    /\ Mark(u, MarkFailed(queue, uploader[u].item, TRUE))
    /\ UNCHANGED <<detection, backendVars>>

\* next_attempt_at is reached.
BackoffElapsed(s) ==
    /\ queue[s].status = "FAILED"
    /\ queue[s].retryable
    /\ ~queue[s].due
    /\ queue' = [queue EXCEPT ![s].due = TRUE]
    /\ UNCHANGED <<uploader, detection, faults, backendVars>>

RetryByHand(s) ==
    /\ queue[s].status = "FAILED"
    /\ Fault
    /\ queue' = Retry(queue, s)
    /\ UNCHANGED <<uploader, detection, backendVars>>

\* The process dies, at any point of any thread, and GatewayRuntime is built anew.
Restart ==
    /\ \E u \in Uploaders : uploader[u] # Idle
    /\ Fault
    /\ queue' = RecoverInflight(queue)
    /\ uploader' = [u \in Uploaders |-> Idle]
    /\ UNCHANGED <<detection, backendVars>>

Serve(r) == Backend!Serve(r) /\ UNCHANGED ownVars

BackendDies(h) == Backend!Die(h) /\ UNCHANGED ownVars

\* The rest of an upload that has begun.
GoOn(u) == Post(u) \/ Receive(u) \/ GiveUp(u) \/ SpoolUnreadable(u)

Upload(u) == Claim(u) \/ GoOn(u)

GatewayNext ==
    \/ \E s \in Sources, k \in Keys : Accept(s, k)
    \/ \E s \in Sources : Reject(s) \/ BackoffElapsed(s) \/ RetryByHand(s)
    \/ \E u \in Uploaders : Upload(u)
    \/ \E r \in Requests : Serve(r)
    \/ \E h \in Processes : BackendDies(h)
    \/ Restart

\* The background loop runs upload_once again and again; a request is served or
\* its connection breaks; the backoff elapses.  Nobody is obliged to POST /cycle, but
\* a thread that has begun finishes (the client's timeout).
GatewayFairness ==
    /\ WF_gatewayVars(Claim(Background))
    /\ \A u \in Uploaders : WF_gatewayVars(GoOn(u))
    /\ \A r \in Requests : WF_gatewayVars(Serve(r))
    /\ \A s \in Sources : WF_gatewayVars(BackoffElapsed(s))

GatewaySpec == GatewayInit /\ [][GatewayNext]_gatewayVars /\ GatewayFairness

-----------------------------------------------------------------------------
(***************************************************************************)
(* Properties.                                                              *)
(***************************************************************************)

\* However often an item is sent, by whichever thread, before or after a restart
\* and however late a request is served, the backend keeps one inspection per key
\* (docs/04-edge-gateway-deployment.md: a repeated request gets the original).
OneInspectionPerKey == Backend!OneInspectionPerKey

\* An uploaded row names an inspection of its image that exists or whose
\* transaction is about to commit (docs/04-edge-gateway-deployment.md: the row keeps
\* inspection_id to audit the local sample against the backend's detection).
\* Nothing sends an uploaded row again.
UploadedIsDetected ==
    \A s \in Sources :
        queue[s].status = "UPLOADED" =>
            /\ detection[s] \in Requests
            /\ request[detection[s]].key = queue[s].key
            /\ \/ \E i \in inspections : i.id = detection[s]
               \/ request[detection[s]].at = "acked"

\* A row is UPLOADING exactly while one thread of the living process works on it:
\* a restart, a retry by hand and POST /cycle never set two threads on one row nor
\* leave a row UPLOADING with nobody at work.
UploadingIsHeldOnce ==
    \A s \in Sources :
        Cardinality({u \in Uploaders : uploader[u] # Idle /\ uploader[u].item = s})
            = IF queue[s].status = "UPLOADING" THEN 1 ELSE 0

\* Every DUPLICATE was folded into an older row of the same key that still holds
\* the image and is the only one to be uploaded.
DuplicateHasPrimary ==
    \A s \in Accepted(queue) :
        IF queue[s].status = "DUPLICATE"
        THEN LET p == queue[s].primary IN
             /\ p \in Primaries(queue, queue[s].key)
             /\ queue[p].spool
             /\ queue[p].id < queue[s].id
        ELSE Primaries(queue, queue[s].key) = {s}

\* The event loop of an API process waits for a transaction that only this event
\* loop can commit (IntakeFrozen shows how).
BackendFrozen ==
    \E r, w \in Requests :
        /\ request[r].at = "missed"
        /\ request[w].at = "acked"
        /\ request[r].key = request[w].key
        /\ request[r].home = request[w].home

\* An accepted image is uploaded in the end or waits for a person, once failures
\* stop: a backoff, a restart, a lost or late answer never leaves it in between.
\* The one exception is the backend's own deadlock.
EveryItemSettles ==
    \A s \in Sources :
        queue[s].status = "QUEUED"
            ~> \/ queue[s].status = "UPLOADED"
               \/ queue[s].status = "FAILED" /\ ~queue[s].retryable
               \/ BackendFrozen

\* An inspection counts from the moment it was acknowledged.
Detected ==
    {<<request[r].key, r>> : r \in {x \in Requests :
        request[x].at = "acked" \/ \E i \in inspections : i.id = x}}

Abstract == INSTANCE Delivery WITH
    Names    <- Requests,
    held     <- {queue[s].key : s \in Accepted(queue)},
    detected <- Detected,
    uploaded <- {queue[s].key : s \in {t \in Recorded(queue) : queue[t].status = "UPLOADED"}}

\* Every step of gateway and backend is a step of Delivery: hold, detect once,
\* settle, in this order for every key.
ImplementsDelivery == Abstract!Spec

=============================================================================
