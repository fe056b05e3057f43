---------------------------------- MODULE Edge ----------------------------------
(***************************************************************************)
(* The whole edge gateway: the scan of the watch directory (EdgeIngest) and *)
(* the upload (EdgeGateway) over one table, in the threads and the one      *)
(* process they share (edge-gateway/src/edge_gateway/runtime.py, main.py),  *)
(* with the camera on one side and the backend's intake on the other.       *)
(*                                                                          *)
(* A thread runs run_cycle: a scan, then at most one upload.  What it scans *)
(* without finding anything to do is no step here, so two uploads may       *)
(* follow each other.  Nobody claims an item while its own scan is under    *)
(* way, but other threads do.                                               *)
(***************************************************************************)
EXTENDS EdgeIngest, EdgeGateway

ASSUME EdgeAssumption == Scanners \subseteq Uploaders

\* What the scan alone changes, and what the upload alone changes.
scanVars == <<disk, writes, delivered, seen, scanner, spool, temp, spooled, failures>>

uploadVars == <<uploader, detection, faults, backendVars>>

edgeVars == <<queue, scanVars, uploadVars>>

EdgeInit == IngestInit /\ GatewayInit

-----------------------------------------------------------------------------
\* A scan begins when the upload of the cycle before is over.
ScanOnce(t) ==
    /\ scanner[t] = Idle => uploader[t] = Idle
    /\ Scan(t) \/ LocalFailure(t)
    /\ UNCHANGED uploadVars

\* A claim follows the scan of its own cycle.  A background loop that has ended claims
\* nothing any more.
UploadOnce(u) ==
    /\ u \in Scanners => scanner[u] = Idle
    /\ Upload(u)
    /\ UNCHANGED scanVars

\* The camera and time.
Delivering(p) ==
    /\ \/ BeginWrite(p)
       \/ Age(p)
       \/ \E i \in GoodImages \cup BadImages : EndWrite(p, i)
    /\ UNCHANGED uploadVars

\* Time, the person who retries, and the backend.
Beside ==
    /\ \/ \E s \in Sources : BackoffElapsed(s) \/ RetryByHand(s)
       \/ \E r \in Requests : Serve(r)
       \/ \E h \in Processes : BackendDies(h)
    /\ UNCHANGED scanVars

\* Variant: the scan is started anew, and the rows recovered, beside uploads that go on.
RestartOfScan ==
    \/ ScanRestart /\ UNCHANGED uploadVars
    \/ Restart /\ UNCHANGED scanVars

\* All threads of the process die at once, in a scan, in an upload or in both, and
\* recover_inflight runs over the rows of both.
EdgeRestart ==
    \/ ScanRestart /\ Restart
    \/ ScanRestart /\ (\A u \in Uploaders : uploader[u] = Idle) /\ UNCHANGED uploadVars
    \/ /\ Restart
       /\ \A t \in Scanners : scanner[t] = Idle
       /\ \A p \in Paths : seen[p] = Unseen
       /\ UNCHANGED scanVars

EdgeNext ==
    \/ \E p \in Paths : Delivering(p)
    \/ \E t \in Scanners : ScanOnce(t)
    \/ \E u \in Uploaders : UploadOnce(u)
    \/ Beside
    \/ EdgeRestart

\* Both sides' fairness: the background loop scans and uploads in turn.
EdgeFairness ==
    /\ WF_edgeVars(ScanOnce(Background))
    /\ \A p \in Paths : WF_edgeVars(Age(p) /\ UNCHANGED uploadVars)
    /\ WF_edgeVars(Claim(Background) /\ UploadOnce(Background))
    /\ \A u \in Uploaders : WF_edgeVars(GoOn(u) /\ UNCHANGED scanVars)
    /\ \A r \in Requests : WF_edgeVars(Serve(r) /\ UNCHANGED scanVars)
    /\ WF_edgeVars((\E s \in Sources : BackoffElapsed(s)) /\ UNCHANGED scanVars)

EdgeSpec == EdgeInit /\ [][EdgeNext]_edgeVars /\ EdgeFairness

-----------------------------------------------------------------------------
(***************************************************************************)
(* Properties.                                                              *)
(***************************************************************************)

\* Each step of the gateway is one that EdgeGateway allows, where rows come from
\* nowhere: what the scan writes is what the upload expects, and a restart that hits
\* the scan leaves no upload behind (the interface between scan_once and upload_once).
ImplementsGateway == GatewayInit /\ [][GatewayNext]_gatewayVars

\* What upload_once reads from the spool and posts is the image that the row's key
\* digests, complete: the backend's fingerprint check and the deterministic key speak
\* of one image (runtime.upload_once; docs/04-edge-gateway-deployment.md: the spool is
\* the source of truth).
UploadsItsImage ==
    \A u \in Uploaders :
        uploader[u].at = "claimed" =>
            LET s == uploader[u].item IN
            /\ spooled[s] = s.image
            /\ spool[s.image] = "whole"
            /\ queue[s].key = <<s.image, Context[s.path]>>

\* From the camera to the backend (docs/04-edge-gateway-deployment.md: nothing is lost
\* silently): a delivered image is still in the watch directory, or has a row of its own;
\* a rejection has a reason, and any other image is held in the spool under a row of its
\* key; and if that row is UPLOADED, the inspection it names is one of this image that
\* exists or is about to be committed.
AccountedFor ==
    \A s \in delivered :
        LET key == <<s.image, Context[s.path]>> IN
        \/ disk[s.path] = s
        \/ /\ s \in Recorded(queue)
           /\ IF queue[s].status = "REJECTED"
              THEN s.image \in BadImages \/ s.path \in BadNames
              ELSE \E p \in Primaries(queue, key) :
                      /\ spooled[p] = s.image /\ spool[s.image] = "whole"
                      /\ queue[p].status = "UPLOADED" => <<key, detection[p]>> \in Detected

\* Every delivered file gets a row in the end, accepted or rejected (docs/04-edge-
\* gateway-deployment.md: every rejection is kept in SQLite), also after local
\* failures and restarts and whatever becomes of the uploads between two scans.  What
\* was delivered stays so, hence it is enough that again and again every delivered file
\* of a path has its row.  The exception is that the backend is frozen: the loop's upload
\* times out then, but the timeouts here are bounded.
EveryFileSettles ==
    \A p \in Paths :
        []<>({s \in delivered : s.path = p} \subseteq Recorded(queue) \/ BackendFrozen)

\* An acceptable image that was delivered is uploaded in the end or waits for a person,
\* whichever step of the scan or of the upload a failure, a restart or a lost answer
\* hits.  The one exception is the backend's own deadlock, as in EveryItemSettles.
EveryImageArrives ==
    \A k \in Keys :
        (\E s \in delivered : s.path \notin BadNames /\ <<s.image, Context[s.path]>> = k)
            ~> \/ \E p \in Primaries(queue, k) :
                     \/ queue[p].status = "UPLOADED"
                     \/ queue[p].status = "FAILED" /\ ~queue[p].retryable
               \/ BackendFrozen

=============================================================================
