------------------------------ MODULE EdgeIngest ------------------------------
(***************************************************************************)
(* From a file in the watch directory to a row of the local queue           *)
(* (DirectoryWatcher and scan_once in edge-gateway/src/edge_gateway/        *)
(* runtime.py), with the camera that writes the files, the spool directory, *)
(* local failures and restarts.  What becomes of a row afterwards is        *)
(* EdgeGateway's; Edge puts both together.                                  *)
(*                                                                          *)
(* A path holds one write of the camera after the other: each has its own   *)
(* size and mtime, hence its own fingerprint.  A write that is still in     *)
(* progress shows the image Torn, which does not decode.                    *)
(***************************************************************************)
EXTENDS EdgeQueue

CONSTANTS
    Paths,           \* names of files in the watch directory
    GoodImages,      \* images the quality gate accepts
    BadImages,       \* images it rejects
    Torn,            \* what a half-written file holds
    Context,         \* what _parse_file makes of a path
    BadNames,        \* paths that do not match the deployment pack
    BadTimes,        \* paths that match and whose capture time is no date
    Scanners,        \* threads that may run scan_once
    MaxWrites,       \* bound: writes to one path
    MaxFailures      \* bound: local failures and restarts

Images == GoodImages \cup BadImages \cup {Torn}

\* Number 0 stands for the fingerprint of a path whose file is gone.
Write == [path : Paths, nr : 0..MaxWrites, image : Images]

Key == GoodImages \X {Context[p] : p \in Paths}

ASSUME EdgeIngestAssumption ==
    /\ Sources = Write
    /\ Keys = Key
    /\ Torn \notin GoodImages \cup BadImages
    /\ GoodImages \cap BadImages = {}
    /\ None \notin Write
    /\ BadNames \cup BadTimes \subseteq Paths
    /\ Background \in Scanners
    /\ MaxWrites \in Nat /\ MaxFailures \in Nat

VARIABLES
    disk,            \* the write each path of the watch directory holds
    writes,          \* writes to a path so far
    delivered,       \* writes the camera has completed
    seen,            \* the watcher's observations, in memory
    scanner,         \* what each thread in scan_once is doing
    spool,           \* files in the spool directory, named by image digest
    temp,            \* their temporary files
    spooled,         \* the column spool_path of the table
    failures

ingestVars == <<disk, writes, delivered, seen, scanner, spool, temp, queue, spooled, failures>>

Unseen == [src |-> None, aged |-> FALSE, emitted |-> FALSE]

FileState == {"none", "torn", "whole"}

Dead == [at |-> "dead"]

\* todo: stable paths not looked at yet; path: the one in hand, or those whose
\* observations are to be deleted; data: what was read; print: the
\* fingerprint taken after reading.
Scanning(at, todo, path, data, print) ==
    [at |-> at, todo |-> todo, path |-> path, data |-> data, print |-> print]

Stage == {"emit", "next", "read", "identify", "judge", "reject", "spool", "write", "replace", "enqueue",
          "tidy"}

IngestTypeOK ==
    /\ disk \in [Paths -> Write \cup {None}]
    /\ writes \in [Paths -> 0..MaxWrites]
    /\ delivered \subseteq Write
    /\ seen \in [Paths -> [src : Write \cup {None}, aged : BOOLEAN, emitted : BOOLEAN]]
    /\ \A t \in Scanners :
          \/ scanner[t] \in {Idle, Dead}
          \/ scanner[t] \in [at : Stage, todo : SUBSET Paths, path : Paths \cup {None} \cup SUBSET Paths,
                             data : Write \cup {None}, print : Write \cup {None}]
    /\ spool \in [Images -> FileState]
    /\ temp \in [Images -> FileState]
    /\ queue \in Queue
    /\ spooled \in [Write -> Images \cup {None}]
    /\ failures \in 0..MaxFailures

IngestInit ==
    /\ disk = [p \in Paths |-> None]
    /\ writes = [p \in Paths |-> 0]
    /\ delivered = {}
    /\ seen = [p \in Paths |-> Unseen]
    /\ scanner = [t \in Scanners |-> Idle]
    /\ spool = [i \in Images |-> "none"]
    /\ temp = [i \in Images |-> "none"]
    /\ queue = EmptyQueue
    /\ spooled = [s \in Write |-> None]
    /\ failures = 0

-----------------------------------------------------------------------------
(***************************************************************************)
(* The camera, which never writes over a file that is still there, and time.*)
(***************************************************************************)
BeginWrite(p) ==
    /\ disk[p] = None
    /\ writes[p] < MaxWrites
    /\ writes' = [writes EXCEPT ![p] = @ + 1]
    /\ disk' = [disk EXCEPT ![p] = [path |-> p, nr |-> writes'[p], image |-> Torn]]
    /\ UNCHANGED <<delivered, seen, scanner, spool, temp, queue, spooled, failures>>

EndWrite(p, i) ==
    /\ disk[p] # None
    /\ disk[p].image = Torn
    /\ disk' = [disk EXCEPT ![p].image = i]
    /\ delivered' = delivered \cup {disk'[p]}
    /\ UNCHANGED <<writes, seen, scanner, spool, temp, queue, spooled, failures>>

\* stable_for_seconds pass without a change of the file.  The window is longer than
\* any pause of a camera in the middle of a write.
Age(p) ==
    /\ seen[p].src # None
    /\ seen[p].src = disk[p]
    /\ seen[p].src.image # Torn
    /\ ~seen[p].aged
    /\ seen' = [seen EXCEPT ![p].aged = TRUE]
    /\ UNCHANGED <<disk, writes, delivered, scanner, spool, temp, queue, spooled, failures>>

Failing ==
    /\ failures < MaxFailures
    /\ failures' = failures + 1

-----------------------------------------------------------------------------
(***************************************************************************)
(* scan_once.                                                               *)
(***************************************************************************)

\* Variant: the stability window is not waited for.
StableAtOnce(p) == disk[p] # None /\ seen[p].src = disk[p] /\ ~seen[p].emitted

Stable(p) == disk[p] # None /\ seen[p].src = disk[p] /\ seen[p].aged /\ ~seen[p].emitted

Gone(p) == disk[p] = None /\ seen[p] # Unseen

\* stable_files, over the files there are: a changed file is observed anew.
StableFiles(t) ==
    /\ scanner[t] = Idle
    /\ LET anew == {p \in Paths : disk[p] # None /\ seen[p].src # disk[p]}
           todo == {p \in Paths : Stable(p)} IN
          /\ anew # {} \/ todo # {} \/ \E p \in Paths : Gone(p)
          /\ seen' = [p \in Paths |->
                         IF p \in anew THEN [Unseen EXCEPT !.src = disk[p]] ELSE seen[p]]
          /\ scanner' = [scanner EXCEPT ![t] =
                Scanning("emit", todo, {p \in Paths : Gone(p)}, None, None)]
    /\ UNCHANGED <<disk, writes, delivered, spool, temp, queue, spooled, failures>>

\* How a thread ends that an exception is not caught for.
Raised(t) == IF t = Background THEN Dead ELSE Idle

\* stable_files: stable files are marked as emitted, and observations of files that
\* are gone deleted.  If another thread has deleted one, del raises KeyError.
Emit(t) ==
    /\ scanner[t].at = "emit"
    /\ LET todo == scanner[t].todo  gone == scanner[t].path IN
          /\ seen' = [p \in Paths |->
                         IF p \in gone THEN Unseen
                         ELSE IF p \in todo THEN [seen[p] EXCEPT !.emitted = TRUE]
                         ELSE seen[p]]
          /\ scanner' = [scanner EXCEPT ![t] =
                IF \E p \in gone : seen[p] = Unseen THEN Raised(t)
                ELSE IF todo = {} THEN Idle
                ELSE Scanning("next", todo, None, None, None)]
    /\ UNCHANGED <<disk, writes, delivered, spool, temp, queue, spooled, failures>>

\* On to the next file; the scan ends with the last.
Proceed(t) ==
    scanner' = [scanner EXCEPT ![t] =
                   IF @.todo = {} THEN Idle ELSE Scanning("next", @.todo, None, None, None)]

Reset(p) == seen' = [seen EXCEPT ![p].emitted = FALSE]

\* Variant: the observation stays marked as emitted.
LocalErrorForgets(t) == Proceed(t) /\ UNCHANGED <<seen, disk>>

\* Variant: the file is moved away with the error.
LocalErrorTidies(t) ==
    /\ Proceed(t)
    /\ disk' = [disk EXCEPT ![scanner[t].path] = None]
    /\ UNCHANGED seen

\* LOCAL_INGEST_ERROR and FILE_STILL_WRITING: the observation is re-armed and the
\* source stays where it is.
LocalError(t) == Proceed(t) /\ Reset(scanner[t].path) /\ UNCHANGED disk

Stat(t) ==
    /\ scanner[t].at = "next"
    /\ \E p \in scanner[t].todo :
          LET rest == scanner[t].todo \ {p} IN
          IF disk[p] = None
          THEN /\ Reset(p)
               /\ scanner' = [scanner EXCEPT ![t] =
                     IF rest = {} THEN Idle ELSE Scanning("next", rest, None, None, None)]
          ELSE /\ scanner' = [scanner EXCEPT ![t] = Scanning("read", rest, p, disk[p], None)]
               /\ UNCHANGED seen
    /\ UNCHANGED <<disk, writes, delivered, spool, temp, queue, spooled, failures>>

\* Reading and the second stat.
Read(t) ==
    /\ scanner[t].at = "read"
    /\ IF disk[scanner[t].path] = scanner[t].data
       THEN /\ scanner' = [scanner EXCEPT ![t].at = "identify"]
            /\ UNCHANGED <<seen, disk>>
       ELSE LocalError(t)
    /\ UNCHANGED <<writes, delivered, spool, temp, queue, spooled, failures>>

\* The fingerprint, from a third stat, and find_source.  A file whose row is there
\* already is left alone.
Identify(t) ==
    /\ scanner[t].at = "identify"
    /\ LET now == disk[scanner[t].path] IN
          IF now = None THEN LocalError(t)
          ELSE /\ UNCHANGED <<seen, disk>>
               /\ IF now \in Recorded(queue)
                  THEN Proceed(t)
                  ELSE scanner' = [scanner EXCEPT ![t] =
                          Scanning("judge", @.todo, @.path, @.data, now)]
    /\ UNCHANGED <<writes, delivered, spool, temp, queue, spooled, failures>>

Rejected(t) == scanner[t].data.image \notin GoodImages \/ scanner[t].path \in BadNames

\* assess_image, then _parse_file.  The ValueError of normalize_captured_at is caught
\* nowhere: it ends the scan, and with it the background loop.
Judge(t) ==
    /\ scanner[t].at = "judge"
    /\ scanner' = [scanner EXCEPT ![t] =
          IF Rejected(t) THEN [@ EXCEPT !.at = "reject"]
          ELSE IF scanner[t].path \notin BadTimes THEN [@ EXCEPT !.at = "spool"]
          ELSE Raised(t)]
    /\ UNCHANGED <<disk, writes, delivered, seen, spool, temp, queue, spooled, failures>>

\* record_rejection, with a fingerprint of its own.
RejectFile(t) ==
    /\ scanner[t].at = "reject"
    /\ LET p == scanner[t].path
           now == IF disk[p] = None THEN [path |-> p, nr |-> 0, image |-> Torn] ELSE disk[p] IN
          queue' = RecordRejection(queue, now)
    /\ scanner' = [scanner EXCEPT ![t].at = "tidy"]
    /\ UNCHANGED <<disk, writes, delivered, seen, spool, temp, spooled, failures>>

\* Variant: the row is written first.
SpoolLater(t) ==
    /\ scanner[t].at = "spool"
    /\ scanner' = [scanner EXCEPT ![t].at = "enqueue"]
    /\ UNCHANGED <<disk, seen, temp>>

\* _atomic_spool: an equal file is used as it is, a different one of that digest is a
\* RuntimeError; otherwise the temporary file is opened and truncated.
Spool(t) ==
    /\ scanner[t].at = "spool"
    /\ LET i == scanner[t].data.image IN
          CASE spool[i] = "whole" ->
                  /\ scanner' = [scanner EXCEPT ![t].at = "enqueue"]
                  /\ UNCHANGED <<disk, seen, temp>>
            [] spool[i] = "torn" ->
                  LocalError(t) /\ UNCHANGED temp
            [] spool[i] = "none" ->
                  /\ temp' = [temp EXCEPT ![i] = "torn"]
                  /\ scanner' = [scanner EXCEPT ![t].at = "write"]
                  /\ UNCHANGED <<disk, seen>>

SpoolFile(t) ==
    Spool(t) /\ UNCHANGED <<writes, delivered, spool, queue, spooled, failures>>

\* The write goes to the file that was opened, also if another thread, which uses the
\* same temporary name, has put it in its place meanwhile.
SpoolWrite(t) ==
    /\ scanner[t].at = "write"
    /\ LET i == scanner[t].data.image IN
          IF temp[i] # "none"
          THEN temp' = [temp EXCEPT ![i] = "whole"] /\ UNCHANGED spool
          ELSE spool' = [spool EXCEPT ![i] = "whole"] /\ UNCHANGED temp
    /\ scanner' = [scanner EXCEPT ![t].at = "replace"]
    /\ UNCHANGED <<disk, writes, delivered, seen, queue, spooled, failures>>

SpoolReplace(t) ==
    /\ scanner[t].at = "replace"
    /\ LET i == scanner[t].data.image IN
          IF temp[i] = "none"
          THEN LocalError(t) /\ UNCHANGED <<spool, temp>>
          ELSE /\ spool' = [spool EXCEPT ![i] = temp[i]]
               /\ temp' = [temp EXCEPT ![i] = "none"]
               /\ scanner' = [scanner EXCEPT ![t].at = "enqueue"]
               /\ UNCHANGED <<disk, seen>>
    /\ UNCHANGED <<writes, delivered, queue, spooled, failures>>

\* The file cannot be read, the disk is full, the file system fails.
LocalFailure(t) ==
    /\ scanner[t].at \in {"read", "identify", "spool", "write", "replace"}
    /\ Failing
    /\ LocalError(t)
    /\ UNCHANGED <<writes, delivered, spool, temp, queue, spooled>>

EnqueueRow(t) ==
    /\ scanner[t].at = "enqueue"
    /\ LET s == scanner[t].print  i == scanner[t].data.image IN
          /\ queue' = Enqueue(queue, s, <<i, Context[scanner[t].path]>>)
          /\ spooled' = IF queue[s] = NoRow /\ queue'[s].spool
                        THEN [spooled EXCEPT ![s] = i] ELSE spooled
    /\ scanner' = [scanner EXCEPT ![t].at = "tidy"]
    /\ UNCHANGED <<disk, writes, delivered, seen, spool, temp, failures>>

\* _archive_source: whatever is at the path now goes to the archive or to quarantine;
\* if that fails it is left in place.
Tidy(t) ==
    /\ scanner[t].at = "tidy"
    /\ \/ disk' = [disk EXCEPT ![scanner[t].path] = None] /\ UNCHANGED failures
       \/ Failing /\ UNCHANGED disk
    /\ Proceed(t)
    /\ UNCHANGED <<writes, delivered, seen, spool, temp, queue, spooled>>

\* The process dies and is started again: the observations are lost.
ScanRestart ==
    /\ (\E t \in Scanners : scanner[t] # Idle) \/ (\E p \in Paths : seen[p] # Unseen)
    /\ Failing
    /\ seen' = [p \in Paths |-> Unseen]
    /\ scanner' = [t \in Scanners |-> Idle]
    /\ queue' = RecoverInflight(queue)
    /\ UNCHANGED <<disk, writes, delivered, spool, temp, spooled>>

Scan(t) ==
    \/ StableFiles(t) \/ Emit(t) \/ Stat(t) \/ Read(t) \/ Identify(t) \/ Judge(t) \/ RejectFile(t)
    \/ SpoolFile(t) \/ SpoolWrite(t) \/ SpoolReplace(t) \/ EnqueueRow(t) \/ Tidy(t)

IngestNext ==
    \/ \E p \in Paths : BeginWrite(p) \/ Age(p)
    \/ \E p \in Paths, i \in GoodImages \cup BadImages : EndWrite(p, i)
    \/ \E t \in Scanners : Scan(t) \/ LocalFailure(t)
    \/ ScanRestart

\* The background loop scans again and again, and time passes.  Nobody is obliged to
\* POST /cycle.
IngestFairness ==
    /\ WF_ingestVars(Scan(Background))
    /\ \A p \in Paths : WF_ingestVars(Age(p))

IngestSpec == IngestInit /\ [][IngestNext]_ingestVars /\ IngestFairness

-----------------------------------------------------------------------------
(***************************************************************************)
(* Properties.                                                              *)
(***************************************************************************)

\* A delivered image is in the watch directory or has a row of its own: no failure,
\* restart or move in between loses it without a trace, also when the camera uses a
\* name again.
NothingLost ==
    \A s \in delivered : disk[s.path] = s \/ s \in Recorded(queue)

\* A row that is not a rejection stands for a complete delivery of an acceptable
\* image, and carries its own image; a rejection stands for a complete delivery that
\* is not acceptable.
RowsAreTrue ==
    \A s \in Recorded(queue) :
        /\ s \in delivered
        /\ (queue[s].status = "REJECTED") = (s.image \in BadImages \/ s.path \in BadNames)
        /\ queue[s].status # "REJECTED" => queue[s].key = <<s.image, Context[s.path]>>

\* docs/04-edge-gateway-deployment.md: an accepted original is copied to the spool
\* atomically before the row is written; the spool is the source of truth.
QueuedIsSpooled ==
    \A s \in Recorded(queue) :
        queue[s].spool => spooled[s] = s.image /\ spool[s.image] = "whole"

=============================================================================
