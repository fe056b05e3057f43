------------------------------- MODULE EdgeProofs -------------------------------
(***************************************************************************)
(* The whole gateway with the background loop as its only scanner, for any  *)
(* paths, images, writes, uploading threads, requests and failures.         *)
(*                                                                          *)
(* The argument about the intake of files rests on what the camera and the  *)
(* scanner leave alone: a file that is complete stays where it is until the *)
(* scan moves it, and the scan moves it only when its row is there.  What   *)
(* the scan says of rows is not disturbed by uploads, and what               *)
(* EdgeGatewayProofs says of the table is not disturbed by the scan.        *)
(***************************************************************************)
EXTENDS Edge, EdgeGatewayProofs

\* The path holds a file that the camera has completed.
Whole(p) == disk[p] \in Write /\ disk[p].image # Torn

FilesSound ==
    /\ disk \in [Paths -> Write \cup {None}]
    /\ writes \in [Paths -> 0 .. MaxWrites]
    /\ delivered \subseteq Write
    /\ \A p \in Paths : disk[p] # None => disk[p].path = p
    /\ \A p \in Paths : Whole(p) => disk[p] \in delivered
    /\ \A s \in delivered : s.image # Torn

SeenSound ==
    /\ seen \in [Paths -> [src : Write \cup {None}, aged : BOOLEAN, emitted : BOOLEAN]]
    /\ \A p \in Paths : seen[p].aged => seen[p].src \in Write /\ seen[p].src.image # Torn

Local == {"read", "identify", "judge", "reject", "spool", "write", "replace", "enqueue", "tidy"}

\* The file in hand is the one at its path, from the first stat to the end.
HandSound(r) ==
    /\ r.path \in Paths /\ r.path \notin r.todo
    /\ Whole(r.path)
    /\ r.data = disk[r.path]
    /\ r.at \in Local \ {"read", "identify", "tidy"} => r.print = disk[r.path]
    /\ r.at \in {"spool", "write", "replace", "enqueue"} =>
          r.data.image \in GoodImages /\ r.path \notin BadNames
    /\ r.at = "reject" => r.data.image \notin GoodImages \/ r.path \in BadNames
    /\ r.at = "write" => temp[r.data.image] = "torn"
    /\ r.at = "replace" => temp[r.data.image] = "whole"
    /\ r.at = "enqueue" => spool[r.data.image] = "whole"
    /\ r.at = "tidy" => disk[r.path] \in Recorded(queue)

ScanSound(r) ==
    \/ r \in {Idle, Dead}
    \/ /\ r = Scanning(r.at, r.todo, r.path, r.data, r.print)
       /\ r.at \in Stage
       /\ r.todo \subseteq Paths /\ \A p \in r.todo : Whole(p)
       /\ r.at \in Local => HandSound(r)

SpoolSound ==
    /\ spool \in [Images -> {"none", "whole"}]
    /\ temp \in [Images -> FileState]

TableSound == RowsSound(queue) /\ spooled = [s \in Write |-> spooled[s]]

IngestInvariant ==
    /\ FilesSound
    /\ SeenSound
    /\ scanner = [t \in Scanners |-> scanner[t]]
    /\ ScanSound(scanner[Background])
    /\ SpoolSound
    /\ TableSound
    /\ NothingLost
    /\ RowsAreTrue
    /\ QueuedIsSpooled

-----------------------------------------------------------------------------
(* Lemmas.                                                                 *)

\* A stage of the scan with a file in hand is no rest.
LEMMA StageIsScanning ==
    ASSUME NEW r, ScanSound(r), r.at \in Stage
    PROVE  /\ r = Scanning(r.at, r.todo, r.path, r.data, r.print)
           /\ r.todo \subseteq Paths /\ \A p \in r.todo : Whole(p)
           /\ r.at \in Local => HandSound(r)
  BY DEF ScanSound, Idle, Dead, Stage

\* A file that is there and complete may be anything but a half-written one.
LEMMA WholeImage ==
    ASSUME NEW p \in Paths, Whole(p)
    PROVE  /\ disk[p] # None
           /\ disk[p].image \in GoodImages \cup BadImages
           /\ disk[p].image \in Images
  BY EdgeIngestAssumption DEF Whole, Write, Images

\* Fingerprints are writes, and the key of an acceptable one is a key.
LEMMA SourcesAreWrites ==
    /\ Sources = Write
    /\ \A s \in Write : s.image \in GoodImages => <<s.image, Context[s.path]>> \in Keys
  BY EdgeIngestAssumption DEF Write, Key

\* The invariant at the start.
LEMMA IngestStarts == IngestInit => IngestInvariant
  <1> SUFFICES ASSUME IngestInit PROVE IngestInvariant
    OBVIOUS
  <1>1. Background \in Scanners
    BY EdgeIngestAssumption
  <1>2. FilesSound
    BY EdgeIngestAssumption DEF IngestInit, FilesSound, Whole
  <1>3. SeenSound
    BY DEF IngestInit, SeenSound, Unseen
  <1>4. SpoolSound /\ ScanSound(scanner[Background]) /\ scanner = [t \in Scanners |-> scanner[t]]
    BY <1>1 DEF IngestInit, SpoolSound, FileState, ScanSound
  <1>5. Recorded(queue) = {} /\ Accepted(queue) = {} /\ queue \in Queue
    BY DEF IngestInit, Recorded, Accepted, EmptyQueue, Queue
  <1>6. TableSound
    BY <1>5 DEF IngestInit, TableSound, RowsSound
  <1> QED
    BY <1>2, <1>3, <1>4, <1>5, <1>6
    DEF IngestInit, IngestInvariant, NothingLost, RowsAreTrue, QueuedIsSpooled


\* The row of a step of the scan: what it holds stays what it was.
LEMMA HandKept ==
    ASSUME \A p \in Paths : Whole(p) => disk'[p] = disk[p],
           UNCHANGED <<spool, temp>>,
           Recorded(queue) \subseteq Recorded(queue)'
    PROVE  \A r : ScanSound(r) => ScanSound(r)'
  <1>1. \A p \in Paths : Whole(p) => Whole(p)'
    BY DEF Whole
  <1>2. \A r : HandSound(r) => HandSound(r)'
    BY <1>1 DEF HandSound
  <1> QED
    BY <1>1, <1>2 DEF ScanSound

\* The tables after a step that does not touch them.
LEMMA TablesKept ==
    ASSUME IngestInvariant, UNCHANGED <<disk, writes, delivered, queue, spooled>>,
           \A i \in Images : spool[i] = "whole" => spool'[i] = "whole"
    PROVE  FilesSound' /\ TableSound' /\ NothingLost' /\ RowsAreTrue' /\ QueuedIsSpooled'
  <1>1. \A p : Whole(p)' <=> Whole(p)
    BY DEF Whole
  <1>2. FilesSound'
    BY <1>1 DEF IngestInvariant, FilesSound
  <1>3. TableSound'
    BY DEF IngestInvariant, TableSound
  <1>4. Recorded(queue)' = Recorded(queue)
    OBVIOUS
  <1>5. NothingLost' /\ RowsAreTrue'
    BY <1>4 DEF IngestInvariant, NothingLost, RowsAreTrue
  <1>6. QueuedIsSpooled'
    <2>1. \A s \in Recorded(queue) : s \in Write /\ s.image \in Images
      BY SourcesAreWrites DEF Recorded, Write
    <2> QED
      BY <1>4, <2>1 DEF IngestInvariant, QueuedIsSpooled
  <1> QED
    BY <1>2, <1>3, <1>5, <1>6

\* The table after what an upload or a start does to its rows.
SameRows ==
    /\ RowsSound(queue')
    /\ Recorded(queue') = Recorded(queue) /\ Accepted(queue') = Accepted(queue)
    /\ \A t \in Recorded(queue) : queue'[t].key = queue[t].key /\ queue'[t].spool = queue[t].spool

LEMMA SameRowsKeep ==
    ASSUME IngestInvariant, SameRows, UNCHANGED <<disk, writes, delivered, spool, spooled>>
    PROVE  FilesSound' /\ TableSound' /\ NothingLost' /\ RowsAreTrue' /\ QueuedIsSpooled'
  <1>1. FilesSound'
    BY DEF IngestInvariant, FilesSound, Whole
  <1>2. TableSound'
    BY DEF IngestInvariant, TableSound, SameRows
  <1>3. \A t \in Recorded(queue) : queue'[t].status = "REJECTED" <=> queue[t].status = "REJECTED"
    BY DEF SameRows, Accepted
  <1>4. NothingLost' /\ RowsAreTrue' /\ QueuedIsSpooled'
    BY <1>3 DEF IngestInvariant, NothingLost, RowsAreTrue, QueuedIsSpooled, SameRows
  <1> QED
    BY <1>1, <1>2, <1>4

LEMMA RecoveredSameRows ==
    ASSUME RowsSound(queue), queue' = RecoverInflight(queue)
    PROVE  SameRows
  BY RecoveredRows DEF SameRows

LEMMA TouchedSameRows ==
    ASSUME RowsSound(queue), NEW s \in Sources,
           NEW status \in {"QUEUED", "UPLOADING", "UPLOADED", "FAILED"}, Touched(queue, queue', s, status)
    PROVE  SameRows
  BY TouchedRows DEF SameRows

\* The end of a file, and on to the next one.
LEMMA ProceedKeeps ==
    ASSUME scanner = [t \in Scanners |-> scanner[t]], ScanSound(scanner[Background]),
           scanner[Background].at \in Stage, Proceed(Background),
           \A p \in scanner[Background].todo : Whole(p)'
    PROVE  /\ scanner' = [t \in Scanners |-> scanner'[t]]
           /\ ScanSound(scanner[Background])'
  <1> DEFINE r == scanner[Background]
  <1>1. r.todo \subseteq Paths
    BY StageIsScanning
  <1>2. /\ scanner' = [t \in Scanners |-> scanner'[t]]
        /\ scanner'[Background] =
              IF r.todo = {} THEN Idle ELSE Scanning("next", r.todo, None, None, None)
    BY EdgeIngestAssumption DEF Proceed
  <1>3. CASE r.todo = {}
    BY <1>2, <1>3 DEF ScanSound
  <1>4. CASE r.todo # {}
    <2> DEFINE n == Scanning("next", r.todo, None, None, None)
    <2>1. scanner'[Background] = n
      BY <1>2, <1>4
    <2>2. n = Scanning(n.at, n.todo, n.path, n.data, n.print)
      BY DEF Scanning
    <2>3. n.at = "next" /\ n.at \notin Local /\ n.todo = r.todo
      BY DEF Scanning, Local
    <2> HIDE DEF n
    <2> QED
      BY <1>1, <1>2, <2>1, <2>2, <2>3 DEF ScanSound, Stage
  <1> QED
    BY <1>2, <1>3, <1>4

\* An observation that is re-armed keeps what was observed.
LEMMA ResetKeeps ==
    ASSUME SeenSound, NEW p \in Paths, Reset(p)
    PROVE  SeenSound'
  BY DEF SeenSound, Reset

-----------------------------------------------------------------------------
(* The camera and time.                                                    *)

\* The camera begins and ends files without touching those that are complete.
LEMMA CameraInvariant ==
    ASSUME IngestInvariant, NEW p \in Paths, NEW i,
           BeginWrite(p) \/ (i \in GoodImages \cup BadImages /\ EndWrite(p, i))
    PROVE  IngestInvariant'
  <1> DEFINE s == disk'[p]
  <1>1. /\ disk' = [disk EXCEPT ![p] = s] /\ s \in Write /\ s.path = p
        /\ writes' \in [Paths -> 0 .. MaxWrites]
        /\ ~Whole(p) /\ disk[p] \notin delivered
        /\ IF s.image = Torn THEN delivered' = delivered ELSE delivered' = delivered \cup {s}
        /\ UNCHANGED <<seen, scanner, spool, temp, queue, spooled>>
    <2>1. CASE BeginWrite(p)
      <3>1. writes[p] + 1 \in 0 .. MaxWrites
        BY <2>1, EdgeIngestAssumption DEF BeginWrite, IngestInvariant, FilesSound
      <3>2. s = [path |-> p, nr |-> writes[p] + 1, image |-> Torn]
        BY <2>1 DEF BeginWrite, IngestInvariant, FilesSound
      <3>3. s \in Write
        BY <3>1, <3>2 DEF Write, Images
      <3> QED
        BY <2>1, <3>1, <3>2, <3>3, EdgeIngestAssumption
        DEF BeginWrite, IngestInvariant, FilesSound, Whole
    <2>2. CASE i \in GoodImages \cup BadImages /\ EndWrite(p, i)
      <3>1. disk[p] \in Write /\ disk[p].path = p
        BY <2>2 DEF EndWrite, IngestInvariant, FilesSound
      <3>2. s = [path |-> p, nr |-> disk[p].nr, image |-> i]
        BY <2>2, <3>1 DEF EndWrite, IngestInvariant, FilesSound, Write
      <3>3. s \in Write /\ s.path = p /\ s.image = i /\ i # Torn
        BY <2>2, <3>1, <3>2, EdgeIngestAssumption DEF Write, Images
      <3>4. disk' = [disk EXCEPT ![p] = s]
        BY <2>2 DEF EndWrite, IngestInvariant, FilesSound
      <3>5. ~Whole(p) /\ disk[p] \notin delivered
        BY <2>2 DEF EndWrite, IngestInvariant, FilesSound, Whole
      <3> QED
        BY <2>2, <3>3, <3>4, <3>5 DEF EndWrite, IngestInvariant, FilesSound
    <2> QED
      BY <2>1, <2>2
  <1>2. \A q \in Paths : Whole(q) => disk'[q] = disk[q]
    BY <1>1 DEF IngestInvariant, FilesSound
  <1>3. disk'[p] = s /\ \A q \in Paths \ {p} : disk'[q] = disk[q]
    BY <1>1 DEF IngestInvariant, FilesSound
  <1>4. FilesSound'
    BY <1>1, <1>3 DEF IngestInvariant, FilesSound, Whole
  <1>5. ScanSound(scanner[Background])'
    BY <1>1, <1>2, HandKept DEF IngestInvariant
  <1>6. NothingLost'
    <2> SUFFICES ASSUME NEW d \in delivered'
                 PROVE  disk'[d.path] = d \/ d \in Recorded(queue)'
      BY DEF NothingLost
    <2>1. CASE d = s
      BY <1>1, <1>3, <2>1
    <2>2. CASE d # s
      <3>1. d \in delivered /\ d.path \in Paths
        BY <1>1, <2>2 DEF IngestInvariant, FilesSound, Write
      <3>2. CASE d.path = p
        BY <1>1, <3>1, <3>2 DEF IngestInvariant, NothingLost
      <3>3. CASE d.path # p
        BY <1>1, <1>3, <3>1, <3>3 DEF IngestInvariant, NothingLost
      <3> QED
        BY <3>2, <3>3
    <2> QED
      BY <2>1, <2>2
  <1>7. RowsAreTrue' /\ QueuedIsSpooled'
    BY <1>1 DEF IngestInvariant, RowsAreTrue, QueuedIsSpooled
  <1>8. SeenSound' /\ SpoolSound' /\ TableSound'
    BY <1>1 DEF IngestInvariant, SeenSound, SpoolSound, TableSound
  <1> QED
    BY <1>1, <1>4, <1>5, <1>6, <1>7, <1>8 DEF IngestInvariant

\* An observation ages only when what it saw is complete.
LEMMA AgeInvariant ==
    ASSUME IngestInvariant, NEW p \in Paths, Age(p)
    PROVE  IngestInvariant'
  <1>1. SeenSound'
    BY DEF IngestInvariant, SeenSound, Age
  <1>2. ScanSound(scanner[Background])'
    BY HandKept DEF IngestInvariant, Age
  <1>3. SpoolSound'
    BY DEF IngestInvariant, SpoolSound, Age
  <1> QED
    BY <1>1, <1>2, <1>3, TablesKept DEF IngestInvariant, Age

\* A restart forgets the observations and the scan, and nothing else.
LEMMA RestartInvariant ==
    ASSUME IngestInvariant, ScanRestart
    PROVE  IngestInvariant'
  <1>1. SameRows
    BY RecoveredSameRows DEF IngestInvariant, TableSound, ScanRestart
  <1>2. SeenSound' /\ SpoolSound'
    BY DEF IngestInvariant, SeenSound, SpoolSound, Unseen, ScanRestart
  <1>3. scanner' = [t \in Scanners |-> scanner'[t]] /\ ScanSound(scanner[Background])'
    BY EdgeIngestAssumption DEF ScanRestart, ScanSound
  <1> QED
    BY <1>1, <1>2, <1>3, SameRowsKeep DEF IngestInvariant, ScanRestart

-----------------------------------------------------------------------------
(* The scan, up to the row.                                                *)

\* What is stable was complete when it was observed and is still the same.
LEMMA StableFilesInvariant ==
    ASSUME IngestInvariant, StableFiles(Background)
    PROVE  IngestInvariant'
  <1> DEFINE todo == {p \in Paths : Stable(p)}
             gone == {p \in Paths : Gone(p)}
  <1>1. /\ scanner' = [scanner EXCEPT ![Background] = Scanning("emit", todo, gone, None, None)]
        /\ UNCHANGED <<disk, writes, delivered, spool, temp, queue, spooled>>
    BY DEF StableFiles
  <1>2. \A p \in todo : Whole(p)
    BY DEF Stable, Whole, IngestInvariant, SeenSound
  <1>3. SeenSound'
    BY DEF StableFiles, Unseen, IngestInvariant, FilesSound, SeenSound
  <1>4. scanner' = [t \in Scanners |-> scanner'[t]]
    BY <1>1 DEF IngestInvariant
  <1>5. scanner'[Background] = Scanning("emit", todo, gone, None, None)
    BY <1>1, EdgeIngestAssumption DEF IngestInvariant
  <1>6. \A p \in todo : Whole(p)'
    BY <1>1, <1>2 DEF Whole
  <1>7. ScanSound(scanner[Background])'
    BY <1>5, <1>6 DEF ScanSound, Scanning, Stage, Local
  <1>8. SpoolSound'
    BY <1>1 DEF IngestInvariant, SpoolSound
  <1> QED
    BY <1>1, <1>3, <1>4, <1>7, <1>8, TablesKept DEF IngestInvariant

\* The files that are stable are taken up.
LEMMA EmitInvariant ==
    ASSUME IngestInvariant, Emit(Background)
    PROVE  IngestInvariant'
  <1> DEFINE r == scanner[Background]
             n == scanner'[Background]
  <1>1. r.todo \subseteq Paths /\ \A p \in r.todo : Whole(p)
    BY StageIsScanning DEF IngestInvariant, Emit, Stage
  <1>2. /\ scanner' = [t \in Scanners |-> scanner'[t]]
        /\ n \in {Idle, Dead} \/ n = Scanning("next", r.todo, None, None, None)
        /\ UNCHANGED <<disk, writes, delivered, spool, temp, queue, spooled>>
    BY EdgeIngestAssumption DEF IngestInvariant, Emit, Raised
  <1>3. SeenSound'
    BY DEF Emit, Unseen, IngestInvariant, SeenSound
  <1>4. \A p \in r.todo : Whole(p)'
    BY <1>1, <1>2 DEF Whole
  <1>5. ScanSound(scanner[Background])'
    <2>1. CASE n \in {Idle, Dead}
      BY <2>1 DEF ScanSound
    <2>2. CASE n = Scanning("next", r.todo, None, None, None)
      BY <1>1, <1>4, <2>2 DEF ScanSound, Scanning, Stage, Local
    <2> QED
      BY <1>2, <2>1, <2>2
  <1>6. SpoolSound'
    BY <1>2 DEF IngestInvariant, SpoolSound
  <1> QED
    BY <1>2, <1>3, <1>5, <1>6, TablesKept DEF IngestInvariant

\* The first stat of a file finds it where it was.
LEMMA StatInvariant ==
    ASSUME IngestInvariant, Stat(Background)
    PROVE  IngestInvariant'
  <1> DEFINE r == scanner[Background]
  <1>1. r.todo \subseteq Paths /\ \A q \in r.todo : Whole(q)
    BY StageIsScanning DEF IngestInvariant, Stat, Stage
  <1>2. PICK p \in r.todo :
           /\ scanner' = [scanner EXCEPT ![Background] =
                             Scanning("read", r.todo \ {p}, p, disk[p], None)]
           /\ UNCHANGED seen
    BY <1>1, WholeImage DEF Stat
  <1>3. UNCHANGED <<disk, writes, delivered, spool, temp, queue, spooled>>
    BY DEF Stat
  <1>4. scanner' = [t \in Scanners |-> scanner'[t]]
    BY <1>2 DEF IngestInvariant
  <1>5. scanner'[Background] = Scanning("read", r.todo \ {p}, p, disk[p], None)
    BY <1>2, EdgeIngestAssumption DEF IngestInvariant
  <1>6. \A q \in r.todo : Whole(q)'
    BY <1>1, <1>3 DEF Whole
  <1>7. ScanSound(scanner[Background])'
    BY <1>1, <1>3, <1>5, <1>6 DEF ScanSound, HandSound, Scanning, Stage, Local
  <1>8. SeenSound' /\ SpoolSound'
    BY <1>2, <1>3 DEF IngestInvariant, SeenSound, SpoolSound
  <1> QED
    BY <1>3, <1>4, <1>7, <1>8, TablesKept DEF IngestInvariant

-----------------------------------------------------------------------------
(* The scan, with a file in hand.                                          *)

\* What the scan knows of the file in hand.
LEMMA FileInHand ==
    ASSUME IngestInvariant, scanner[Background].at \in Local
    PROVE  LET r == scanner[Background] IN
           /\ r = Scanning(r.at, r.todo, r.path, r.data, r.print)
           /\ r.todo \subseteq Paths /\ \A q \in r.todo : Whole(q)
           /\ HandSound(r)
           /\ r.path \in Paths /\ r.path \notin r.todo
           /\ r.data = disk[r.path]
           /\ disk[r.path] \in Write /\ disk[r.path] # None /\ disk[r.path].path = r.path
           /\ disk[r.path] \in delivered
           /\ r.data.image \in GoodImages \cup BadImages /\ r.data.image \in Images
  <1> DEFINE r == scanner[Background]
  <1>1. r.at \in Stage
    BY DEF Local, Stage
  <1>2. /\ r = Scanning(r.at, r.todo, r.path, r.data, r.print)
        /\ r.todo \subseteq Paths /\ \A q \in r.todo : Whole(q)
        /\ HandSound(r)
    BY <1>1, StageIsScanning DEF IngestInvariant
  <1>3. r.path \in Paths /\ r.path \notin r.todo /\ Whole(r.path) /\ r.data = disk[r.path]
    BY <1>2 DEF HandSound
  <1> QED
    BY <1>2, <1>3, WholeImage DEF IngestInvariant, FilesSound, Whole

\* On to the next stage.
LEMMA StageKeeps ==
    ASSUME IngestInvariant, scanner[Background].at \in Local,
           NEW at \in Local, NEW print,
           scanner' = [scanner EXCEPT ![Background] = Scanning(at, @.todo, @.path, @.data, print)],
           UNCHANGED disk,
           LET r == scanner[Background]
           IN  \A n : n = Scanning(at, r.todo, r.path, r.data, print) => HandSound(n)'
    PROVE  scanner' = [t \in Scanners |-> scanner'[t]] /\ ScanSound(scanner[Background])'
  <1> DEFINE r == scanner[Background]
  <1>1. r = Scanning(r.at, r.todo, r.path, r.data, r.print)
    BY FileInHand
  <1>2. PICK n : n = Scanning(at, r.todo, r.path, r.data, print)
    OBVIOUS
  <1>3. scanner' = [scanner EXCEPT ![Background] = n]
    BY <1>2
  <1>4. scanner'[Background] = n /\ scanner' = [t \in Scanners |-> scanner'[t]]
    BY <1>3, EdgeIngestAssumption DEF IngestInvariant
  <1>5. n.todo \subseteq Paths /\ \A q \in n.todo : Whole(q)'
    BY <1>2, FileInHand DEF Whole, Scanning
  <1>6. HandSound(n)'
    BY <1>2
  <1>7. n.at \in Stage /\ n = Scanning(n.at, n.todo, n.path, n.data, n.print)
    BY <1>2 DEF Scanning, Local, Stage
  <1> QED
    BY <1>4, <1>5, <1>6, <1>7 DEF ScanSound

\* The same where the fingerprint stays.
LEMMA AtKeeps ==
    ASSUME IngestInvariant, scanner[Background].at \in Local,
           NEW at \in Local,
           scanner' = [scanner EXCEPT ![Background].at = at],
           UNCHANGED disk,
           LET r == scanner[Background]
           IN  \A n : n = Scanning(at, r.todo, r.path, r.data, r.print) => HandSound(n)'
    PROVE  scanner' = [t \in Scanners |-> scanner'[t]] /\ ScanSound(scanner[Background])'
  <1> DEFINE r == scanner[Background]
  <1>1. r = Scanning(r.at, r.todo, r.path, r.data, r.print)
    BY FileInHand
  <1>2. scanner' = [scanner EXCEPT ![Background] = Scanning(at, @.todo, @.path, @.data, r.print)]
    <2>1. PICK a, todo, path, data, print :
             r = [at |-> a, todo |-> todo, path |-> path, data |-> data, print |-> print]
      BY <1>1 DEF Scanning
    <2>2. [r EXCEPT !.at = at] = Scanning(at, r.todo, r.path, r.data, r.print)
      BY <2>1 DEF Scanning
    <2> QED
      BY <2>2
  <1> QED
    BY <1>2, StageKeeps

\* A local error leaves the file where it is and re-arms its observation.
LEMMA LocalErrorKeeps ==
    ASSUME IngestInvariant, scanner[Background].at \in Local, LocalError(Background)
    PROVE  /\ SeenSound'
           /\ scanner' = [t \in Scanners |-> scanner'[t]] /\ ScanSound(scanner[Background])'
           /\ UNCHANGED disk
  <1>1. SeenSound'
    BY FileInHand, ResetKeeps DEF IngestInvariant, LocalError
  <1>2. \A q \in scanner[Background].todo : Whole(q)'
    BY FileInHand DEF LocalError, Whole
  <1>3. scanner[Background].at \in Stage
    BY DEF Local, Stage
  <1> QED
    BY <1>1, <1>2, <1>3, ProceedKeeps DEF IngestInvariant, LocalError

\* The second stat finds what the first one found.
LEMMA ReadInvariant ==
    ASSUME IngestInvariant, Read(Background)
    PROVE  IngestInvariant'
  <1> DEFINE r == scanner[Background]
  <1>1. r.at \in Local
    BY DEF Read, Local
  <1>2. /\ scanner' = [scanner EXCEPT ![Background].at = "identify"]
        /\ UNCHANGED <<seen, disk, writes, delivered, spool, temp, queue, spooled>>
    BY <1>1, FileInHand DEF Read
  <1>3. \A n : n = Scanning("identify", r.todo, r.path, r.data, r.print) => HandSound(n)'
    BY <1>1, <1>2, FileInHand DEF HandSound, Scanning, Whole, Local
  <1>4. scanner' = [t \in Scanners |-> scanner'[t]] /\ ScanSound(scanner[Background])'
    BY <1>1, <1>2, <1>3, AtKeeps DEF Local
  <1>5. SeenSound' /\ SpoolSound'
    BY <1>2 DEF IngestInvariant, SeenSound, SpoolSound
  <1> QED
    BY <1>2, <1>4, <1>5, TablesKept DEF IngestInvariant

\* The fingerprint is that of what was read.
LEMMA IdentifyInvariant ==
    ASSUME IngestInvariant, Identify(Background)
    PROVE  IngestInvariant'
  <1> DEFINE r == scanner[Background]
             now == disk[r.path]
  <1>1. r.at \in Local
    BY DEF Identify, Local
  <1>2. UNCHANGED <<seen, disk, writes, delivered, spool, temp, queue, spooled>>
    BY <1>1, FileInHand DEF Identify
  <1>3. scanner' = [t \in Scanners |-> scanner'[t]] /\ ScanSound(scanner[Background])'
    <2>1. CASE now \in Recorded(queue)
      <3>1. Proceed(Background)
        BY <1>1, <2>1, FileInHand DEF Identify
      <3>2. \A q \in r.todo : Whole(q)'
        BY <1>1, <1>2, FileInHand DEF Whole
      <3>3. r.at \in Stage
        BY <1>1 DEF Local, Stage
      <3> QED
        BY <3>1, <3>2, <3>3, ProceedKeeps DEF IngestInvariant
    <2>2. CASE now \notin Recorded(queue)
      <3>1. scanner' = [scanner EXCEPT ![Background] =
                           Scanning("judge", @.todo, @.path, @.data, now)]
        BY <1>1, <2>2, FileInHand DEF Identify
      <3>2. \A n : n = Scanning("judge", r.todo, r.path, r.data, now) => HandSound(n)'
        BY <1>1, <1>2, FileInHand DEF HandSound, Scanning, Whole, Local
      <3> QED
        BY <1>1, <1>2, <3>1, <3>2, StageKeeps DEF Local
    <2> QED
      BY <2>1, <2>2
  <1>4. SeenSound' /\ SpoolSound'
    BY <1>2 DEF IngestInvariant, SeenSound, SpoolSound
  <1> QED
    BY <1>2, <1>3, <1>4, TablesKept DEF IngestInvariant

\* What is neither rejected nor ends the scan is acceptable.
LEMMA JudgeInvariant ==
    ASSUME IngestInvariant, Judge(Background)
    PROVE  IngestInvariant'
  <1> DEFINE r == scanner[Background]
  <1>1. r.at \in Local
    BY DEF Judge, Local
  <1>2. UNCHANGED <<seen, disk, writes, delivered, spool, temp, queue, spooled>>
    BY DEF Judge
  <1>3. r.print = disk[r.path]
    BY <1>1, FileInHand DEF Judge, HandSound, Local
  <1>4. scanner' = [t \in Scanners |-> scanner'[t]] /\ ScanSound(scanner[Background])'
    <2>1. CASE Rejected(Background)
      <3>1. scanner' = [scanner EXCEPT ![Background].at = "reject"]
        BY <2>1 DEF Judge
      <3>2. \A n : n = Scanning("reject", r.todo, r.path, r.data, r.print) => HandSound(n)'
        BY <1>1, <1>2, <1>3, <2>1, FileInHand DEF HandSound, Scanning, Whole, Rejected
      <3> QED
        BY <1>1, <1>2, <3>1, <3>2, AtKeeps DEF Local
    <2>2. CASE ~Rejected(Background) /\ r.path \notin BadTimes
      <3>1. scanner' = [scanner EXCEPT ![Background].at = "spool"]
        BY <2>2 DEF Judge
      <3>2. \A n : n = Scanning("spool", r.todo, r.path, r.data, r.print) => HandSound(n)'
        BY <1>1, <1>2, <1>3, <2>2, FileInHand DEF HandSound, Scanning, Whole, Rejected
      <3> QED
        BY <1>1, <1>2, <3>1, <3>2, AtKeeps DEF Local
    <2>3. CASE ~Rejected(Background) /\ r.path \in BadTimes
      BY <2>3, EdgeIngestAssumption DEF Judge, Raised, ScanSound, IngestInvariant
    <2> QED
      BY <2>1, <2>2, <2>3
  <1>5. SeenSound' /\ SpoolSound'
    BY <1>2 DEF IngestInvariant, SeenSound, SpoolSound
  <1> QED
    BY <1>2, <1>4, <1>5, TablesKept DEF IngestInvariant

\* A spool file is used when it is whole, and its temporary file opened otherwise.
LEMMA SpoolInvariant ==
    ASSUME IngestInvariant, SpoolFile(Background)
    PROVE  IngestInvariant'
  <1> DEFINE r == scanner[Background]
             i == r.data.image
  <1>1. r.at = "spool" /\ r.at \in Local
    BY DEF SpoolFile, Spool, Local
  <1>2. /\ i \in Images /\ i \in GoodImages /\ r.path \notin BadNames /\ r.print = disk[r.path]
        /\ spool[i] \in {"none", "whole"}
    BY <1>1, FileInHand DEF HandSound, Local, IngestInvariant, SpoolSound
  <1>3. UNCHANGED <<disk, seen, writes, delivered, spool, queue, spooled>>
    BY <1>2 DEF SpoolFile, Spool
  <1>4. /\ SpoolSound'
        /\ scanner' = [t \in Scanners |-> scanner'[t]] /\ ScanSound(scanner[Background])'
    <2>1. CASE spool[i] = "whole"
      <3>1. scanner' = [scanner EXCEPT ![Background].at = "enqueue"] /\ UNCHANGED temp
        BY <2>1 DEF SpoolFile, Spool
      <3>2. \A n : n = Scanning("enqueue", r.todo, r.path, r.data, r.print) => HandSound(n)'
        BY <1>1, <1>2, <1>3, <2>1, FileInHand DEF HandSound, Scanning, Whole
      <3>3. SpoolSound'
        BY <1>3, <3>1 DEF IngestInvariant, SpoolSound
      <3> QED
        BY <1>1, <1>3, <3>1, <3>2, <3>3, AtKeeps DEF Local
    <2>2. CASE spool[i] = "none"
      <3>1. /\ scanner' = [scanner EXCEPT ![Background].at = "write"]
            /\ temp' = [temp EXCEPT ![i] = "torn"]
        BY <2>2 DEF SpoolFile, Spool
      <3>2. temp'[i] = "torn"
        BY <1>2, <3>1 DEF IngestInvariant, SpoolSound
      <3>3. \A n : n = Scanning("write", r.todo, r.path, r.data, r.print) => HandSound(n)'
        BY <1>1, <1>2, <1>3, <3>2, FileInHand DEF HandSound, Scanning, Whole
      <3>4. SpoolSound'
        BY <1>3, <3>1 DEF IngestInvariant, SpoolSound, FileState
      <3> QED
        BY <1>1, <1>3, <3>1, <3>3, <3>4, AtKeeps DEF Local
    <2> QED
      BY <1>2, <2>1, <2>2
  <1>5. SeenSound'
    BY <1>3 DEF IngestInvariant, SeenSound
  <1> QED
    BY <1>3, <1>4, <1>5, TablesKept DEF IngestInvariant

\* The temporary file that was opened is still there and gets its content.
LEMMA SpoolWriteInvariant ==
    ASSUME IngestInvariant, SpoolWrite(Background)
    PROVE  IngestInvariant'
  <1> DEFINE r == scanner[Background]
             i == r.data.image
  <1>1. r.at = "write" /\ r.at \in Local
    BY DEF SpoolWrite, Local
  <1>2. /\ i \in Images /\ i \in GoodImages /\ r.path \notin BadNames /\ r.print = disk[r.path]
        /\ temp[i] = "torn"
    BY <1>1, FileInHand DEF HandSound, Local
  <1>3. /\ temp' = [temp EXCEPT ![i] = "whole"]
        /\ scanner' = [scanner EXCEPT ![Background].at = "replace"]
        /\ UNCHANGED <<disk, seen, writes, delivered, spool, queue, spooled>>
    BY <1>2 DEF SpoolWrite
  <1>4. temp'[i] = "whole" /\ SpoolSound'
    BY <1>2, <1>3 DEF IngestInvariant, SpoolSound, FileState
  <1>5. \A n : n = Scanning("replace", r.todo, r.path, r.data, r.print) => HandSound(n)'
    BY <1>1, <1>2, <1>3, <1>4, FileInHand DEF HandSound, Scanning, Whole
  <1>6. scanner' = [t \in Scanners |-> scanner'[t]] /\ ScanSound(scanner[Background])'
    BY <1>1, <1>3, <1>5, AtKeeps DEF Local
  <1>7. SeenSound'
    BY <1>3 DEF IngestInvariant, SeenSound
  <1> QED
    BY <1>3, <1>4, <1>6, <1>7, TablesKept DEF IngestInvariant

\* Only a whole temporary file is put in place.
LEMMA SpoolReplaceInvariant ==
    ASSUME IngestInvariant, SpoolReplace(Background)
    PROVE  IngestInvariant'
  <1> DEFINE r == scanner[Background]
             i == r.data.image
  <1>1. r.at = "replace" /\ r.at \in Local
    BY DEF SpoolReplace, Local
  <1>2. /\ i \in Images /\ i \in GoodImages /\ r.path \notin BadNames /\ r.print = disk[r.path]
        /\ temp[i] = "whole"
    BY <1>1, FileInHand DEF HandSound, Local
  <1>3. /\ spool' = [spool EXCEPT ![i] = "whole"]
        /\ temp' = [temp EXCEPT ![i] = "none"]
        /\ scanner' = [scanner EXCEPT ![Background].at = "enqueue"]
        /\ UNCHANGED <<disk, seen, writes, delivered, queue, spooled>>
    BY <1>2 DEF SpoolReplace
  <1>4. /\ spool'[i] = "whole" /\ SpoolSound'
        /\ \A j \in Images : spool[j] = "whole" => spool'[j] = "whole"
    BY <1>2, <1>3 DEF IngestInvariant, SpoolSound, FileState
  <1>5. \A n : n = Scanning("enqueue", r.todo, r.path, r.data, r.print) => HandSound(n)'
    BY <1>1, <1>2, <1>3, <1>4, FileInHand DEF HandSound, Scanning, Whole
  <1>6. scanner' = [t \in Scanners |-> scanner'[t]] /\ ScanSound(scanner[Background])'
    BY <1>1, <1>3, <1>5, AtKeeps DEF Local
  <1>7. SeenSound'
    BY <1>3 DEF IngestInvariant, SeenSound
  <1> QED
    BY <1>3, <1>4, <1>6, <1>7, TablesKept DEF IngestInvariant

\* A failure of the disk.
LEMMA LocalFailureInvariant ==
    ASSUME IngestInvariant, LocalFailure(Background)
    PROVE  IngestInvariant'
  <1>1. scanner[Background].at \in Local
    BY DEF LocalFailure, Local
  <1>2. LocalError(Background) /\ UNCHANGED <<writes, delivered, spool, temp, queue, spooled>>
    BY DEF LocalFailure
  <1>3. SpoolSound'
    BY <1>2 DEF IngestInvariant, SpoolSound
  <1> QED
    BY <1>1, <1>2, <1>3, LocalErrorKeeps, TablesKept DEF IngestInvariant

-----------------------------------------------------------------------------
(* The row, and the end of the file.                                       *)

\* A new row for the complete file at its path, true and spooled.
LEMMA RowAdded ==
    ASSUME IngestInvariant, NEW s \in delivered, s \notin Recorded(queue),
           UNCHANGED <<disk, writes, delivered, spool>>,
           RowsSound(queue'), Recorded(queue') = Recorded(queue) \cup {s},
           \A t \in Sources \ {s} : queue'[t] = queue[t],
           spooled' = IF queue'[s].spool THEN [spooled EXCEPT ![s] = s.image] ELSE spooled,
           queue'[s].spool => spool[s.image] = "whole",
           (queue'[s].status = "REJECTED") = (s.image \in BadImages \/ s.path \in BadNames),
           queue'[s].status # "REJECTED" => queue'[s].key = <<s.image, Context[s.path]>>
    PROVE  /\ FilesSound' /\ TableSound' /\ NothingLost' /\ RowsAreTrue' /\ QueuedIsSpooled'
           /\ s \in Recorded(queue)'
  <1>1. s \in Write /\ \A t \in Recorded(queue)' : t \in Write
    BY SourcesAreWrites DEF IngestInvariant, FilesSound, Recorded
  <1>2. \A u \in Write \ {s} : queue'[u] = queue[u]
    BY SourcesAreWrites
  <1>3. Recorded(queue)' = Recorded(queue) \cup {s}
    OBVIOUS
  <1>4. FilesSound'
    BY DEF IngestInvariant, FilesSound, Whole
  <1>5. TableSound'
    BY <1>1 DEF IngestInvariant, TableSound
  <1>6. NothingLost'
    BY <1>3 DEF IngestInvariant, NothingLost
  <1>7. RowsAreTrue'
    <2> SUFFICES ASSUME NEW u \in Recorded(queue)'
                 PROVE  /\ u \in delivered'
                        /\ (queue'[u].status = "REJECTED")
                              = (u.image \in BadImages \/ u.path \in BadNames)
                        /\ queue'[u].status # "REJECTED"
                              => queue'[u].key = <<u.image, Context[u.path]>>
      BY DEF RowsAreTrue
    <2>1. CASE u = s
      BY <1>2, <2>1
    <2>2. CASE u # s
      <3>1. u \in Recorded(queue) /\ u \in Write
        BY <1>1, <1>3, <2>2
      <3> QED
        BY <1>2, <2>2, <3>1 DEF IngestInvariant, RowsAreTrue
    <2> QED
      BY <2>1, <2>2
  <1>8. QueuedIsSpooled'
    <2> SUFFICES ASSUME NEW u \in Recorded(queue)', queue'[u].spool
                 PROVE  spooled'[u] = u.image /\ spool'[u.image] = "whole"
      BY DEF QueuedIsSpooled
    <2>1. CASE u = s
      BY <1>1, <1>2, <2>1 DEF IngestInvariant, TableSound
    <2>2. CASE u # s
      <3>1. u \in Recorded(queue) /\ u \in Write
        BY <1>1, <1>3, <2>2
      <3>2. spooled'[u] = spooled[u] /\ queue[u].spool
        BY <1>2, <2>2, <3>1 DEF IngestInvariant, TableSound
      <3> QED
        BY <3>1, <3>2 DEF IngestInvariant, QueuedIsSpooled
    <2> QED
      BY <2>1, <2>2
  <1> QED
    BY <1>3, <1>4, <1>5, <1>6, <1>7, <1>8

\* After a row is written, or found written, the file can be moved.
LEMMA ToTidy ==
    ASSUME IngestInvariant, scanner[Background].at \in Local,
           scanner' = [scanner EXCEPT ![Background].at = "tidy"],
           UNCHANGED <<disk, writes, delivered, seen, spool, temp>>,
           FilesSound', TableSound', NothingLost', RowsAreTrue', QueuedIsSpooled',
           disk[scanner[Background].path] \in Recorded(queue)'
    PROVE  IngestInvariant'
  <1> DEFINE r == scanner[Background]
  <1>1. \A n : n = Scanning("tidy", r.todo, r.path, r.data, r.print) => HandSound(n)'
    BY FileInHand DEF HandSound, Scanning, Whole, Local
  <1>2. scanner' = [t \in Scanners |-> scanner'[t]] /\ ScanSound(scanner[Background])'
    BY <1>1, AtKeeps DEF Local
  <1>3. SeenSound' /\ SpoolSound'
    BY DEF IngestInvariant, SeenSound, SpoolSound
  <1> QED
    BY <1>2, <1>3 DEF IngestInvariant

\* A rejection is recorded for the file that was judged.
LEMMA RejectInvariant ==
    ASSUME IngestInvariant, RejectFile(Background)
    PROVE  IngestInvariant'
  <1> DEFINE r == scanner[Background]
             s == disk[r.path]
  <1>1. r.at = "reject" /\ r.at \in Local
    BY DEF RejectFile, Local
  <1>2. /\ s \in delivered /\ s \in Write /\ s # None /\ s.path = r.path
        /\ s.image \in BadImages \/ s.path \in BadNames
    BY <1>1, FileInHand DEF HandSound
  <1>3. /\ queue' = RecordRejection(queue, s)
        /\ scanner' = [scanner EXCEPT ![Background].at = "tidy"]
        /\ UNCHANGED <<disk, writes, delivered, seen, spool, temp, spooled>>
    BY <1>2 DEF RejectFile
  <1>4. CASE s \in Recorded(queue)
    <2>1. queue' = queue
      BY <1>3, <1>4 DEF RecordRejection
    <2>2. FilesSound' /\ TableSound' /\ NothingLost' /\ RowsAreTrue' /\ QueuedIsSpooled'
      BY <1>3, <2>1, TablesKept
    <2> QED
      BY <1>1, <1>3, <1>4, <2>1, <2>2, ToTidy
  <1>5. CASE s \notin Recorded(queue)
    <2>1. /\ RowsSound(queue') /\ Recorded(queue') = Recorded(queue) \cup {s}
          /\ \A t \in Sources \ {s} : queue'[t] = queue[t]
          /\ queue'[s].status = "REJECTED" /\ ~queue'[s].spool
      <3>1. s \in Sources \ Recorded(queue) /\ RowsSound(queue)
        BY <1>2, <1>5, SourcesAreWrites DEF IngestInvariant, TableSound
      <3> HIDE DEF s
      <3> QED
        BY <1>3, <3>1, RejectRows
    <2>2. /\ FilesSound' /\ TableSound' /\ NothingLost' /\ RowsAreTrue' /\ QueuedIsSpooled'
          /\ s \in Recorded(queue)'
      <3>1. s \in delivered /\ (s.image \in BadImages \/ s.path \in BadNames)
        BY <1>2
      <3>2. spooled' = spooled /\ UNCHANGED <<disk, writes, delivered, spool>>
        BY <1>3
      <3> HIDE DEF s
      <3> QED
        BY <1>5, <2>1, <3>1, <3>2, RowAdded
    <2> QED
      BY <1>1, <1>3, <2>2, ToTidy
  <1> QED
    BY <1>4, <1>5

\* The row of an accepted file, first of its key or not.
LEMMA EnqueueRowInvariant ==
    ASSUME IngestInvariant, EnqueueRow(Background)
    PROVE  IngestInvariant'
  <1> DEFINE r == scanner[Background]
             s == disk[r.path]
             key == <<s.image, Context[s.path]>>
  <1>1. r.at = "enqueue" /\ r.at \in Local
    BY DEF EnqueueRow, Local
  <1>2. /\ s \in delivered /\ s \in Write /\ s.path = r.path /\ r.data = s /\ r.print = s
        /\ s.image \in GoodImages /\ s.image \notin BadImages /\ s.path \notin BadNames
        /\ spool[s.image] = "whole"
    BY <1>1, FileInHand, EdgeIngestAssumption DEF HandSound, Local
  <1>3. /\ queue' = Enqueue(queue, s, key)
        /\ spooled' = IF queue[s] = NoRow /\ queue'[s].spool
                      THEN [spooled EXCEPT ![s] = s.image] ELSE spooled
        /\ scanner' = [scanner EXCEPT ![Background].at = "tidy"]
        /\ UNCHANGED <<disk, writes, delivered, seen, spool, temp>>
    BY <1>2 DEF EnqueueRow
  <1>4. CASE s \in Recorded(queue)
    <2>1. queue' = queue /\ spooled' = spooled
      BY <1>3, <1>4 DEF Enqueue, Recorded
    <2>2. FilesSound' /\ TableSound' /\ NothingLost' /\ RowsAreTrue' /\ QueuedIsSpooled'
      BY <1>3, <2>1, TablesKept
    <2> QED
      BY <1>1, <1>3, <1>4, <2>1, <2>2, ToTidy
  <1>5. CASE s \notin Recorded(queue)
    <2>1. queue[s] = NoRow
      BY <1>2, <1>5, SourcesAreWrites DEF Recorded
    <2>2. /\ RowsSound(queue') /\ Recorded(queue') = Recorded(queue) \cup {s}
          /\ \A t \in Sources \ {s} : queue'[t] = queue[t]
          /\ queue'[s].status # "REJECTED" /\ queue'[s].key = key
      <3>1. key \in Keys /\ s \in Sources \ Recorded(queue) /\ RowsSound(queue)
        BY <1>2, <1>5, SourcesAreWrites DEF IngestInvariant, TableSound
      <3> HIDE DEF key, s
      <3> QED
        BY <1>3, <3>1, EnqueueRows
    <2>3. spooled' = IF queue'[s].spool THEN [spooled EXCEPT ![s] = s.image] ELSE spooled
      BY <1>3, <2>1
    <2>4. (queue'[s].status = "REJECTED") = (s.image \in BadImages \/ s.path \in BadNames)
      BY <1>2, <2>2
    <2>5. /\ FilesSound' /\ TableSound' /\ NothingLost' /\ RowsAreTrue' /\ QueuedIsSpooled'
          /\ s \in Recorded(queue)'
      <3>1. s \in delivered /\ (queue'[s].spool => spool[s.image] = "whole")
        BY <1>2
      <3>2. UNCHANGED <<disk, writes, delivered, spool>>
        BY <1>3
      <3>3. queue'[s].status # "REJECTED" => queue'[s].key = <<s.image, Context[s.path]>>
        BY <2>2
      <3> HIDE DEF s
      <3> QED
        BY <1>5, <2>2, <2>3, <2>4, <3>1, <3>2, <3>3, RowAdded
    <2> QED
      BY <1>1, <1>3, <2>5, ToTidy
  <1> QED
    BY <1>4, <1>5

\* The file that is moved away has its row.
LEMMA TidyInvariant ==
    ASSUME IngestInvariant, Tidy(Background)
    PROVE  IngestInvariant'
  <1> DEFINE r == scanner[Background]
             p == r.path
  <1>1. r.at = "tidy" /\ r.at \in Local /\ r.at \in Stage
    BY DEF Tidy, Local, Stage
  <1>2. /\ p \in Paths /\ p \notin r.todo /\ \A q \in r.todo : Whole(q)
        /\ disk[p] \in Recorded(queue)
        /\ r.todo \subseteq Paths
    BY <1>1, FileInHand DEF HandSound
  <1>3. UNCHANGED <<writes, delivered, seen, spool, temp, queue, spooled>>
    BY DEF Tidy
  <1>4. disk' = [disk EXCEPT ![p] = None] \/ disk' = disk
    BY DEF Tidy
  <1>5. /\ disk' \in [Paths -> Write \cup {None}]
        /\ disk'[p] = None \/ disk'[p] = disk[p]
        /\ \A q \in Paths \ {p} : disk'[q] = disk[q]
    BY <1>2, <1>4 DEF IngestInvariant, FilesSound
  <1>6. \A q \in r.todo : Whole(q)'
    BY <1>2, <1>5 DEF Whole
  <1>7. scanner' = [t \in Scanners |-> scanner'[t]] /\ ScanSound(scanner[Background])'
    BY <1>1, <1>6, ProceedKeeps DEF IngestInvariant, Tidy
  <1>8. FilesSound'
    <2>1. \A q \in Paths : disk'[q] = None \/ disk'[q] = disk[q]
      BY <1>5
    <2>2. \A q \in Paths : Whole(q)' => Whole(q) /\ disk'[q] = disk[q]
      BY <2>1, EdgeIngestAssumption DEF Whole
    <2> QED
      BY <1>3, <1>5, <2>1, <2>2 DEF IngestInvariant, FilesSound
  <1>9. NothingLost'
    <2> SUFFICES ASSUME NEW d \in delivered
                 PROVE  disk'[d.path] = d \/ d \in Recorded(queue)
      BY <1>3 DEF NothingLost
    <2>1. d.path \in Paths
      BY DEF IngestInvariant, FilesSound, Write
    <2> QED
      BY <1>2, <1>5, <2>1 DEF IngestInvariant, NothingLost
  <1>10. SeenSound' /\ SpoolSound' /\ TableSound' /\ RowsAreTrue' /\ QueuedIsSpooled'
    BY <1>3 DEF IngestInvariant, SeenSound, SpoolSound, TableSound, RowsAreTrue, QueuedIsSpooled
  <1> QED
    BY <1>7, <1>8, <1>9, <1>10 DEF IngestInvariant

-----------------------------------------------------------------------------
(* The theorems.                                                           *)

\* Every step, with one scanner.
LEMMA IngestKeeps ==
    ASSUME Scanners = {Background}, IngestInvariant, [IngestNext]_ingestVars
    PROVE  IngestInvariant'
  <1>1. CASE \E p \in Paths : BeginWrite(p) \/ Age(p)
    BY <1>1, CameraInvariant, AgeInvariant
  <1>2. CASE \E p \in Paths, i \in GoodImages \cup BadImages : EndWrite(p, i)
    BY <1>2, CameraInvariant
  <1>3. CASE Scan(Background)
    BY <1>3, StableFilesInvariant, EmitInvariant, StatInvariant, ReadInvariant,
       IdentifyInvariant, JudgeInvariant, RejectInvariant, SpoolInvariant, SpoolWriteInvariant,
       SpoolReplaceInvariant, EnqueueRowInvariant, TidyInvariant
    DEF Scan
  <1>4. CASE LocalFailure(Background)
    BY <1>4, LocalFailureInvariant
  <1>5. CASE ScanRestart
    BY <1>5, RestartInvariant
  <1>6. CASE UNCHANGED ingestVars
    <2>1. UNCHANGED <<disk, writes, delivered, seen, scanner, spool, temp, queue, spooled>>
      BY <1>6 DEF ingestVars
    <2>2. ScanSound(scanner[Background])'
      BY <2>1, HandKept DEF IngestInvariant
    <2>3. SeenSound' /\ SpoolSound'
      BY <2>1 DEF IngestInvariant, SeenSound, SpoolSound
    <2> QED
      BY <2>1, <2>2, <2>3, TablesKept DEF IngestInvariant
  <1> QED
    BY <1>1, <1>2, <1>3, <1>4, <1>5, <1>6 DEF IngestNext

\* With the background loop as the only scanner the invariant holds in every state:
\* a complete file stays at its path until the scan moves it, and the scan moves it
\* only when its row is there.
THEOREM IngestInvariantHolds ==
    ASSUME Scanners = {Background}
    PROVE  IngestSpec => []IngestInvariant
  <1>1. IngestInit => IngestInvariant
    BY IngestStarts
  <1>2. IngestInvariant /\ [IngestNext]_ingestVars => IngestInvariant'
    BY IngestKeeps
  <1> QED
    BY <1>1, <1>2, PTL DEF IngestSpec

\* No delivered image is lost without a trace, whatever fails or restarts on the way
\* and also when the camera uses a name again.
THEOREM NothingLostHolds ==
    ASSUME Scanners = {Background}
    PROVE  IngestSpec => []NothingLost
  <1>1. IngestInvariant => NothingLost
    BY DEF IngestInvariant
  <1> QED
    BY <1>1, IngestInvariantHolds, PTL

\* A row tells the truth of a complete delivery: what is recorded as rejected is not
\* acceptable, and every other row carries the key of its own image.
THEOREM RowsAreTrueHolds ==
    ASSUME Scanners = {Background}
    PROVE  IngestSpec => []RowsAreTrue
  <1>1. IngestInvariant => RowsAreTrue
    BY DEF IngestInvariant
  <1> QED
    BY <1>1, IngestInvariantHolds, PTL

\* A row that claims a spool file has the whole file of its own image.
THEOREM QueuedIsSpooledHolds ==
    ASSUME Scanners = {Background}
    PROVE  IngestSpec => []QueuedIsSpooled
  <1>1. IngestInvariant => QueuedIsSpooled
    BY DEF IngestInvariant
  <1> QED
    BY <1>1, IngestInvariantHolds, PTL

-----------------------------------------------------------------------------
(* Scan and uploads together.                                              *)
EdgeInvariant == IngestInvariant /\ GatewayInvariant

\* What a step of the whole gateway is for each of its halves.
EdgeStep == IngestInvariant' /\ [GatewayNext]_gatewayVars

\* The scan alone: its rows are new to the uploads, or it touches none.
LEMMA ScanIsStep ==
    ASSUME EdgeInvariant, Scanners = {Background}, UNCHANGED uploadVars,
           \/ \E p \in Paths : BeginWrite(p) \/ Age(p)
           \/ \E p \in Paths, i \in GoodImages \cup BadImages : EndWrite(p, i)
           \/ Scan(Background) \/ LocalFailure(Background)
    PROVE  EdgeStep
  <1> DEFINE r == scanner[Background]
             s == disk[r.path]
             key == <<s.image, Context[s.path]>>
  <1>1. IngestInvariant'
    BY IngestKeeps DEF EdgeInvariant, IngestNext
  <1>2. ASSUME queue' = queue
        PROVE  UNCHANGED gatewayVars
    BY <1>2 DEF uploadVars, backendVars, gatewayVars
  <1>3. UNCHANGED <<uploader, detection, faults, backendVars>>
    BY DEF uploadVars
  <1>4. CASE RejectFile(Background)
    <2>1. r.at \in Local /\ r.at = "reject"
      BY <1>4 DEF RejectFile, Local
    <2>2. s \in Sources /\ s # None
      BY <2>1, FileInHand, SourcesAreWrites DEF EdgeInvariant
    <2>3. queue' = RecordRejection(queue, s)
      BY <1>4, <2>2 DEF RejectFile
    <2>4. CASE s \in Recorded(queue)
      BY <1>1, <1>2, <2>3, <2>4 DEF RecordRejection, EdgeStep
    <2>5. CASE s \notin Recorded(queue)
      <3>1. Reject(s)
        BY <1>3, <2>3, <2>5 DEF Reject
      <3>2. GatewayNext
        BY <2>2, <3>1 DEF GatewayNext
      <3> QED
        BY <1>1, <3>2 DEF EdgeStep
    <2> QED
      BY <2>4, <2>5
  <1>5. CASE EnqueueRow(Background)
    <2>1. r.at \in Local /\ r.at = "enqueue"
      BY <1>5 DEF EnqueueRow, Local
    <2>2. /\ s \in Write /\ s.path = r.path /\ r.data = s /\ r.print = s /\ s.image \in GoodImages
      BY <2>1, FileInHand DEF HandSound, Local, EdgeInvariant
    <2>3. queue' = Enqueue(queue, s, key)
      BY <1>5, <2>2 DEF EnqueueRow
    <2>4. s \in Sources /\ key \in Keys
      BY <2>2, SourcesAreWrites
    <2>5. CASE s \in Recorded(queue)
      BY <1>1, <1>2, <2>3, <2>5 DEF Enqueue, EdgeStep
    <2>6. CASE s \notin Recorded(queue)
      <3>1. Accept(s, key)
        BY <1>3, <2>3, <2>6 DEF Accept
      <3>2. GatewayNext
        BY <2>4, <3>1 DEF GatewayNext
      <3> QED
        BY <1>1, <3>2 DEF EdgeStep
    <2> QED
      BY <2>5, <2>6
  <1>6. queue' = queue \/ RejectFile(Background) \/ EnqueueRow(Background)
    BY DEF BeginWrite, Age, EndWrite, Scan, LocalFailure, StableFiles, Emit, Stat, Read, Identify,
           Judge, SpoolFile, SpoolWrite, SpoolReplace, Tidy
  <1> QED
    BY <1>1, <1>2, <1>4, <1>5, <1>6 DEF EdgeStep

\* An upload changes rows only in ways that the scan does not see.
LEMMA UploadSameRows ==
    ASSUME GatewayInvariant, UploadNext
    PROVE  SameRows
  <1>1. RowsSound(queue) /\ queue \in Queue
    BY DEF GatewayInvariant, RowsSound
  <1>2. ASSUME UNCHANGED queue PROVE SameRows
    BY <1>1, <1>2 DEF SameRows
  <1>3. ASSUME NEW u \in Uploaders, Claim(u) PROVE SameRows
    <2> DEFINE s == First(queue, Claimable(queue))
    <2>1. s \in Claimable(queue)
      BY <1>1, <1>3, FirstIsOne DEF Claim, Claimable, Due
    <2>2. s \in Accepted(queue) /\ s \in Sources /\ queue[s].status # "DUPLICATE"
      BY <2>1 DEF Claimable, Due, Accepted, Recorded
    <2>3. queue' = ClaimDue(queue, s)
      BY <1>3 DEF Claim
    <2> HIDE DEF s
    <2>4. Touched(queue, queue', s, "UPLOADING")
      BY <1>1, <2>2, <2>3, OperationsTouch
    <2> QED
      BY <1>1, <2>2, <2>4, TouchedSameRows
  <1>4. ASSUME NEW u \in Uploaders, Failed(u) \/ Settled(u) PROVE SameRows
    <2>1. uploader[u].item \in Sources
      BY <1>4, HeldItem DEF Failed, Settled, Ended
    <2>2. \/ Touched(queue, queue', uploader[u].item, "FAILED")
          \/ Touched(queue, queue', uploader[u].item, "UPLOADED")
      BY <1>4 DEF Failed, Settled, Ended
    <2> QED
      BY <1>1, <2>1, <2>2, TouchedSameRows
  <1>5. CASE Rescheduled
    BY <1>1, <1>5, TouchedSameRows DEF Rescheduled
  <1>6. CASE Restart
    BY <1>1, <1>6, RecoveredSameRows DEF Restart
  <1>7. ASSUME NEW u \in Uploaders, Post(u) PROVE UNCHANGED queue
    BY <1>7 DEF Post
  <1>8. Served => UNCHANGED queue
    BY DEF Served, ownVars
  <1> QED
    BY <1>2, <1>3, <1>4, <1>5, <1>6, <1>7, <1>8, UploadKinds

\* The uploads alone.
LEMMA UploadIsStep ==
    ASSUME EdgeInvariant, UploadNext, UNCHANGED scanVars
    PROVE  EdgeStep
  <1>1. SameRows
    BY UploadSameRows DEF EdgeInvariant
  <1>2. UNCHANGED <<disk, writes, delivered, seen, scanner, spool, temp, spooled>>
    BY DEF scanVars
  <1>3. FilesSound' /\ TableSound' /\ NothingLost' /\ RowsAreTrue' /\ QueuedIsSpooled'
    BY <1>1, <1>2, SameRowsKeep DEF EdgeInvariant
  <1>4. ScanSound(scanner[Background])'
    BY <1>1, <1>2, HandKept DEF EdgeInvariant, IngestInvariant, SameRows
  <1>5. SeenSound' /\ SpoolSound'
    BY <1>2 DEF EdgeInvariant, IngestInvariant, SeenSound, SpoolSound
  <1>6. IngestInvariant'
    BY <1>2, <1>3, <1>4, <1>5 DEF EdgeInvariant, IngestInvariant
  <1>7. GatewayNext
    BY DEF UploadNext, GatewayNext
  <1> QED
    BY <1>6, <1>7 DEF EdgeStep

\* No row is UPLOADING while nobody uploads, so a start has nothing to recover then.
LEMMA NothingInflight ==
    ASSUME GatewayInvariant, \A u \in Uploaders : uploader[u] = Idle
    PROVE  RecoverInflight(queue) = queue
  <1>1. \A s \in Sources : queue[s].status # "UPLOADING"
    BY DEF GatewayInvariant, ThreadsSound, Holds, Idle
  <1>2. queue = [s \in Sources |-> queue[s]]
    BY DEF GatewayInvariant, RowsSound, Queue
  <1> QED
    BY <1>1, <1>2 DEF RecoverInflight

\* All threads die together, whichever of them were at work.
LEMMA RestartIsStep ==
    ASSUME EdgeInvariant, EdgeRestart
    PROVE  EdgeStep
  <1>1. CASE ScanRestart /\ Restart
    <2>1. IngestInvariant'
      BY <1>1, RestartInvariant DEF EdgeInvariant
    <2> QED
      BY <1>1, <2>1 DEF GatewayNext, EdgeStep
  <1>2. CASE ScanRestart /\ (\A u \in Uploaders : uploader[u] = Idle) /\ UNCHANGED uploadVars
    <2>1. IngestInvariant'
      BY <1>2, RestartInvariant DEF EdgeInvariant
    <2>2. queue' = queue
      BY <1>2, NothingInflight DEF EdgeInvariant, ScanRestart
    <2> QED
      BY <1>2, <2>1, <2>2 DEF uploadVars, backendVars, gatewayVars, EdgeStep
  <1>3. CASE Restart /\ UNCHANGED scanVars
    BY <1>3, UploadIsStep DEF UploadNext
  <1> QED
    BY <1>1, <1>2, <1>3 DEF EdgeRestart

\* Every step of the whole gateway.
LEMMA EdgeSteps ==
    ASSUME Scanners = {Background}, EdgeInvariant, [EdgeNext]_edgeVars
    PROVE  EdgeStep /\ EdgeInvariant'
  <1>1. EdgeStep
    <2>1. CASE \E p \in Paths : Delivering(p)
      BY <2>1, ScanIsStep DEF Delivering
    <2>2. CASE \E t \in Scanners : ScanOnce(t)
      BY <2>2, ScanIsStep DEF ScanOnce
    <2>3. CASE \E u \in Uploaders : UploadOnce(u)
      BY <2>3, UploadIsStep DEF UploadOnce, UploadNext
    <2>4. CASE Beside
      BY <2>4, UploadIsStep DEF Beside, UploadNext
    <2>5. CASE EdgeRestart
      BY <2>5, RestartIsStep
    <2>6. CASE UNCHANGED edgeVars
      <3>1. UNCHANGED ingestVars
        BY <2>6 DEF edgeVars, scanVars, ingestVars
      <3>2. UNCHANGED gatewayVars
        BY <2>6 DEF edgeVars, uploadVars, backendVars, gatewayVars
      <3> QED
        BY <3>1, <3>2, IngestKeeps DEF EdgeInvariant, EdgeStep
    <2> QED
      BY <2>1, <2>2, <2>3, <2>4, <2>5, <2>6 DEF EdgeNext
  <1>2. GatewayInvariant'
    BY <1>1, GatewayStep DEF EdgeStep, EdgeInvariant
  <1> QED
    BY <1>1, <1>2 DEF EdgeStep, EdgeInvariant

\* With the background loop as the only scanner, what the scan relies on and what the
\* uploads rely on hold in every state of the whole gateway.
THEOREM EdgeInvariantHolds ==
    ASSUME Scanners = {Background}
    PROVE  EdgeSpec => []EdgeInvariant
  <1>1. EdgeInit => EdgeInvariant
    BY IngestStarts, GatewayStarts DEF EdgeInit, EdgeInvariant, DeliveryInvariant
  <1>2. EdgeInvariant /\ [EdgeNext]_edgeVars => EdgeInvariant'
    BY EdgeSteps
  <1> QED
    BY <1>1, <1>2, PTL DEF EdgeSpec

\* The whole gateway does to the table, to the uploads and to the backend only what
\* EdgeGateway allows, where the rows come from nowhere: what is proved there of
\* deliveries holds of images that a camera writes.
THEOREM EdgeImplementsGateway ==
    ASSUME Scanners = {Background}
    PROVE  EdgeSpec => ImplementsGateway
  <1>1. EdgeInvariant /\ [EdgeNext]_edgeVars => [GatewayNext]_gatewayVars
    BY EdgeSteps DEF EdgeStep
  <1>2. EdgeInit => GatewayInit
    BY DEF EdgeInit
  <1> QED
    BY <1>1, <1>2, EdgeInvariantHolds, PTL DEF EdgeSpec, ImplementsGateway

\* Without commits that fail after their answer.
LEMMA EdgeDelivers ==
    ASSUME Scanners = {Background}, ~AckedMayAbort
    PROVE  EdgeSpec => [](EdgeInvariant /\ DeliveryInvariant)
  <1>1. EdgeInit => DeliveryInvariant
    BY GatewayStarts DEF EdgeInit
  <1>2. DeliveryInvariant /\ EdgeInvariant /\ [EdgeNext]_edgeVars => DeliveryInvariant'
    BY EdgeSteps, DeliveryStep DEF EdgeStep
  <1> QED
    BY <1>1, <1>2, EdgeInvariantHolds, PTL DEF EdgeSpec

\* If also no commit fails once its answer was sent, the chain down to Delivery: what
\* the camera delivers and the gate accepts is held, detected once per key, and marked
\* uploaded only then.
THEOREM EdgeImplementsDelivery ==
    ASSUME Scanners = {Background}, ~AckedMayAbort
    PROVE  EdgeSpec => ImplementsDelivery
  <1>1. DeliveryInvariant /\ EdgeInvariant /\ [EdgeNext]_edgeVars => [Abstract!Next]_Abstract!vars
    BY EdgeSteps, RefinementStep DEF EdgeStep
  <1>2. EdgeInit => Abstract!Init
    BY RefinementInit DEF EdgeInit
  <1> QED
    BY <1>1, <1>2, EdgeDelivers, PTL DEF EdgeSpec, ImplementsDelivery, Abstract!Spec

\* What a thread reads from the spool for an upload is the whole image that the row's
\* key digests.
THEOREM UploadsItsImageHolds ==
    ASSUME Scanners = {Background}
    PROVE  EdgeSpec => []UploadsItsImage
  <1>1. ASSUME EdgeInvariant
        PROVE  UploadsItsImage
    <2> SUFFICES ASSUME NEW u \in Uploaders, uploader[u].at = "claimed"
                 PROVE  LET s == uploader[u].item IN
                        /\ spooled[s] = s.image
                        /\ spool[s.image] = "whole"
                        /\ queue[s].key = <<s.image, Context[s.path]>>
      BY DEF UploadsItsImage
    <2> DEFINE s == uploader[u].item
    <2>1. s \in Accepted(queue) /\ s \in Recorded(queue) /\ queue[s].status = "UPLOADING"
      BY <1>1, HeldItem DEF EdgeInvariant
    <2> HIDE DEF s
    <2>2. queue[s].spool
      BY <1>1, <2>1 DEF EdgeInvariant, GatewayInvariant, RowsSound, Held
    <2>3. /\ spooled[s] = s.image /\ spool[s.image] = "whole"
          /\ queue[s].key = <<s.image, Context[s.path]>>
      BY <1>1, <2>1, <2>2 DEF EdgeInvariant, IngestInvariant, RowsAreTrue, QueuedIsSpooled
    <2> QED
      BY <2>3 DEF s
  <1> QED
    BY <1>1, EdgeInvariantHolds, PTL

\* A row that is not a duplicate has its image and, once uploaded, names an inspection
\* of it.
LEMMA PrimaryIsGood ==
    ASSUME EdgeInvariant, DeliveryInvariant, NEW k \in Keys, NEW p \in Primaries(queue, k)
    PROVE  /\ spooled[p] = p.image /\ spool[p.image] = "whole"
           /\ k = <<p.image, Context[p.path]>>
           /\ queue[p].status = "UPLOADED" => <<k, detection[p]>> \in Detected
  <1>1. /\ p \in Recorded(queue) /\ queue[p].key = k /\ queue[p].status # "DUPLICATE"
        /\ p \in Sources
    BY DEF Primaries, Recorded
  <1>2. p \in Accepted(queue) /\ queue[p].status # "REJECTED"
    BY <1>1, EdgeGatewayAssumption DEF EdgeInvariant, GatewayInvariant, RowsSound, Listed, Accepted
  <1>3. queue[p].spool
    BY <1>1, <1>2 DEF EdgeInvariant, GatewayInvariant, RowsSound, Held
  <1>4. spooled[p] = p.image /\ spool[p.image] = "whole" /\ k = <<p.image, Context[p.path]>>
    BY <1>1, <1>2, <1>3 DEF EdgeInvariant, IngestInvariant, RowsAreTrue, QueuedIsSpooled
  <1>5. ASSUME queue[p].status = "UPLOADED"
        PROVE  <<k, detection[p]>> \in Detected
    <2>1. /\ detection[p] \in Requests /\ request[detection[p]].key = k
          /\ Proved!Secure(detection[p])
      BY <1>1, <1>5 DEF DeliveryInvariant, UploadedSound
    <2> QED
      BY <2>1, DetectedIsSecure
  <1> QED
    BY <1>4, <1>5

\* If no commit fails once its answer was sent, every delivered image is accounted
\* for, from the watch directory to the backend.
THEOREM AccountedForHolds ==
    ASSUME Scanners = {Background}, ~AckedMayAbort
    PROVE  EdgeSpec => []AccountedFor
  <1>1. ASSUME EdgeInvariant, DeliveryInvariant
        PROVE  AccountedFor
    <2> SUFFICES ASSUME NEW s \in delivered, disk[s.path] # s
                 PROVE  LET key == <<s.image, Context[s.path]>> IN
                        /\ s \in Recorded(queue)
                        /\ IF queue[s].status = "REJECTED"
                           THEN s.image \in BadImages \/ s.path \in BadNames
                           ELSE \E p \in Primaries(queue, key) :
                                   /\ spooled[p] = s.image /\ spool[s.image] = "whole"
                                   /\ queue[p].status = "UPLOADED" => <<key, detection[p]>> \in Detected
      BY DEF AccountedFor
    <2> DEFINE key == <<s.image, Context[s.path]>>
    <2>1. s \in Recorded(queue)
      BY <1>1 DEF EdgeInvariant, IngestInvariant, NothingLost
    <2>2. CASE queue[s].status = "REJECTED"
      BY <1>1, <2>1, <2>2 DEF EdgeInvariant, IngestInvariant, RowsAreTrue
    <2>3. CASE queue[s].status # "REJECTED"
      <3>1. queue[s].key = key
        BY <1>1, <2>1, <2>3 DEF EdgeInvariant, IngestInvariant, RowsAreTrue
      <3>2. s \in Accepted(queue) /\ s \in Sources
        BY <2>1, <2>3 DEF Accepted, Recorded
      <3>3. Held(queue, s)
        BY <1>1, <3>2 DEF EdgeInvariant, GatewayInvariant, RowsSound
      <3> HIDE DEF key
      <3>4. key \in Keys /\ \E p : p \in Primaries(queue, key)
        BY <3>1, <3>3 DEF Held
      <3>5. PICK p : p \in Primaries(queue, key)
        BY <3>4
      <3>6. /\ spooled[p] = p.image /\ spool[p.image] = "whole"
            /\ key = <<p.image, Context[p.path]>>
            /\ queue[p].status = "UPLOADED" => <<key, detection[p]>> \in Detected
        BY <1>1, <3>4, <3>5, PrimaryIsGood
      <3>7. p.image = s.image
        BY <3>6 DEF key
      <3> QED
        BY <2>1, <2>3, <3>5, <3>6, <3>7 DEF key
    <2> QED
      BY <2>2, <2>3
  <1> QED
    BY <1>1, EdgeDelivers, PTL

=============================================================================
