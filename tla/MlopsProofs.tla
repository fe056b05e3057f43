--------------------------- MODULE MlopsProofs ------------------------------
(***************************************************************************)
(* The ML package for any constants: the registry under any processes, the *)
(* pipeline of artifacts under any commands and bounds, the packages that  *)
(* the qualification writes, and the thresholds of a calibration on any    *)
(* grid.                                                                   *)
(***************************************************************************)
EXTENDS MCMlops, FiniteSetTheorems, WellFoundedInduction, TLAPS

(* The registry. Whatever the processes do to each other's files, every    *)
(* run of the command line turns a sound index into a sound one, and bytes *)
(* are either one such index or not JSON.                                  *)

EntrySound(e, m) ==
    /\ e \in Entries
    /\ e.status \in {"EVALUATED", "APPROVED", "ACTIVE", "RETIRED"} => e.evaluator # NoOne
    /\ e.status \in {"APPROVED", "ACTIVE", "RETIRED"} => e.approver # NoOne
    /\ m \in Attached /\ ~e.unguarded =>
          /\ e.status = "EVALUATED" => e.last = e.evaluator
          /\ e.status \in {"APPROVED", "ACTIVE", "RETIRED"} => e.approver # e.evaluator

IndexSound(x) ==
    /\ x \in Indexes
    /\ \A m \in Models : EntrySound(x[m], m)
    /\ \A m, n \in Models : x[m].status = "ACTIVE" /\ x[n].status = "ACTIVE" => m = n

Runs == [phase : {"rest", "loaded", "opened", "written"}, index : Indexes,
         inode : {"none", "partial", "index"}, stale : Nat]

(* Until two processes overlap, the only one that runs knows what is in    *)
(* the temporary file.                                                     *)
Alone ==
    /\ file # Torn /\ ~lost
    /\ \A p, q \in Processes : proc[p] # Resting /\ proc[q] # Resting => p = q
    /\ \A p \in Processes :
          /\ proc[p].stale = 0 /\ proc[p].inode # "index"
          /\ proc[p].phase = "opened" => proc[p].inode = "partial" /\ partial = Torn
          /\ proc[p].phase = "written" => partial # Torn

RegistryInvariant ==
    /\ proc \in [Processes -> Runs]
    /\ \A p \in Processes : IndexSound(proc[p].index)
    /\ file # Torn => IndexSound(file)
    /\ partial \notin {Torn, NoFile} => IndexSound(partial)
    /\ overlapped \in BOOLEAN /\ lost \in BOOLEAN
    /\ ~overlapped => Alone

-----------------------------------------------------------------------------
\* The empty index is sound.
LEMMA EmptyIsSound == IndexSound(EmptyIndex)
  BY DEF IndexSound, EntrySound, EmptyIndex, Unregistered, Indexes, Entries, Names, Statuses

\* An index of which one entry is replaced by a sound one that is not ACTIVE.
LEMMA OneEntry ==
    ASSUME NEW x, IndexSound(x), NEW m \in Models, NEW e, EntrySound(e, m), e.status # "ACTIVE"
    PROVE  IndexSound([x EXCEPT ![m] = e])
  BY DEF IndexSound, Indexes, EntrySound

\* Registration, evaluation, retirement and approval each change one entry.
LEMMA MovedIsOneEntry ==
    ASSUME NEW x, IndexSound(x), NEW m \in Models, NEW s \in Statuses
    PROVE  /\ Moved(x, m, s) = [x EXCEPT ![m] = [x[m] EXCEPT !.status = s, !.last = NoOne]]
           /\ [x[m] EXCEPT !.status = s, !.last = NoOne] \in Entries
  <1>1. x[m] \in Entries /\ x = [n \in Models |-> x[n]]
    BY DEF IndexSound, Indexes
  <1>2. NoOne \in Names
    BY DEF Names
  <1> QED
    BY <1>1, <1>2 DEF Moved, Entries

LEMMA DraftedIsSound ==
    ASSUME NEW x, IndexSound(x), NEW m \in Models
    PROVE  IndexSound(Drafted(x, m))
  <1> DEFINE e == [x[m] EXCEPT !.status = "DRAFT", !.last = NoOne]
  <1>1. Drafted(x, m) = [x EXCEPT ![m] = e] /\ e \in Entries
    BY MovedIsOneEntry DEF Drafted, Statuses
  <1>2. e.status = "DRAFT"
    BY <1>1 DEF IndexSound, EntrySound, Entries
  <1>3. EntrySound(e, m)
    BY <1>1, <1>2 DEF EntrySound
  <1> HIDE DEF e
  <1>9. IndexSound([x EXCEPT ![m] = e])
    BY <1>1, <1>2, <1>3, OneEntry
  <1> QED
    BY <1>1, <1>9

LEMMA EvaluatedIsSound ==
    ASSUME NEW x, IndexSound(x), NEW m \in Models, NEW a \in Actors
    PROVE  IndexSound(Evaluated(x, m, a))
  <1> DEFINE e == [x[m] EXCEPT !.status = "EVALUATED", !.last = Name(m, a), !.evaluator = Name(m, a)]
  <1>1. x[m] \in Entries /\ x = [n \in Models |-> x[n]]
    BY DEF IndexSound, Indexes
  <1>2. Name(m, a) \in Names /\ Name(m, a) # NoOne
    BY NamesAssumption DEF Name, Names, NoOne, Anyone
  <1>3. e \in Entries /\ e.status = "EVALUATED" /\ e.evaluator = Name(m, a) /\ e.last = Name(m, a)
    BY <1>1, <1>2 DEF Entries, Statuses
  <1>4. Evaluated(x, m, a) = [x EXCEPT ![m] = e]
    BY <1>1 DEF Evaluated, Moved, Entries
  <1>5. EntrySound(e, m)
    BY <1>2, <1>3 DEF EntrySound
  <1> HIDE DEF e
  <1>9. IndexSound([x EXCEPT ![m] = e])
    BY <1>3, <1>4, <1>5, OneEntry
  <1> QED
    BY <1>4, <1>9

LEMMA ReevaluatedIsSound ==
    ASSUME NEW x, IndexSound(x), NEW m \in Models, NEW a \in Actors
    PROVE  IndexSound(Reevaluated(x, m, a))
  <1>1. CASE x[m].status # "EVALUATED"
    BY <1>1 DEF Reevaluated
  <1>2. CASE x[m].status = "EVALUATED"
    <2> DEFINE e == [x[m] EXCEPT !.last = a, !.unguarded = TRUE]
    <2>1. x[m] \in Entries /\ x = [n \in Models |-> x[n]] /\ EntrySound(x[m], m)
      BY DEF IndexSound, Indexes
    <2>2. e \in Entries /\ e.status = "EVALUATED" /\ e.evaluator = x[m].evaluator /\ e.unguarded
      BY <1>2, <2>1 DEF Entries, Names
    <2>3. Reevaluated(x, m, a) = [x EXCEPT ![m] = e]
      BY <1>2, <2>1 DEF Reevaluated, Entries
    <2>4. EntrySound(e, m)
      BY <1>2, <2>1, <2>2 DEF EntrySound
    <2> HIDE DEF e
    <2>9. IndexSound([x EXCEPT ![m] = e])
      BY <2>2, <2>3, <2>4, OneEntry
    <2> QED
      BY <2>3, <2>9
  <1> QED
    BY <1>1, <1>2

LEMMA ApprovedIsSound ==
    ASSUME NEW x, IndexSound(x), NEW m \in Models, NEW a \in Actors, NEW padded \in BOOLEAN,
           x[m].status = "EVALUATED", a = x[m].last => padded
    PROVE  IndexSound(Approved(x, m, a, padded))
  <1> DEFINE e == [x[m] EXCEPT !.status = "APPROVED", !.last = NoOne, !.approver = Name(m, a),
                               !.unguarded = @ \/ padded]
  <1>1. x[m] \in Entries /\ x = [n \in Models |-> x[n]] /\ EntrySound(x[m], m)
    BY DEF IndexSound, Indexes
  <1>2. Name(m, a) \in Names /\ Name(m, a) # NoOne
    BY NamesAssumption DEF Name, Names, NoOne, Anyone
  <1>3. /\ e \in Entries /\ e.status = "APPROVED" /\ e.approver = Name(m, a)
        /\ e.evaluator = x[m].evaluator /\ e.unguarded = (x[m].unguarded \/ padded)
    BY <1>1, <1>2 DEF Entries, Statuses, Names
  <1>4. Approved(x, m, a, padded) = [x EXCEPT ![m] = e]
    BY <1>1 DEF Approved, Moved, Entries
  <1>5. m \in Attached /\ ~e.unguarded => e.approver # e.evaluator
    BY <1>1, <1>3 DEF EntrySound, Name
  <1>6. EntrySound(e, m)
    BY <1>1, <1>2, <1>3, <1>5 DEF EntrySound
  <1> HIDE DEF e
  <1>9. IndexSound([x EXCEPT ![m] = e])
    BY <1>3, <1>4, <1>6, OneEntry
  <1> QED
    BY <1>4, <1>9

LEMMA RetiredIsSound ==
    ASSUME NEW x, IndexSound(x), NEW m \in Models, x[m].status \in {"APPROVED", "ACTIVE"}
    PROVE  IndexSound(Moved(x, m, "RETIRED"))
  <1> DEFINE e == [x[m] EXCEPT !.status = "RETIRED", !.last = NoOne]
  <1>1. Moved(x, m, "RETIRED") = [x EXCEPT ![m] = e] /\ e \in Entries
    BY MovedIsOneEntry DEF Statuses
  <1>2. x[m] \in Entries /\ EntrySound(x[m], m)
    BY DEF IndexSound, Indexes
  <1>3. /\ e.status = "RETIRED" /\ e.evaluator = x[m].evaluator /\ e.approver = x[m].approver
        /\ e.unguarded = x[m].unguarded
    BY <1>2 DEF Entries
  <1>4. EntrySound(e, m)
    BY <1>1, <1>2, <1>3 DEF EntrySound
  <1> HIDE DEF e
  <1>9. IndexSound([x EXCEPT ![m] = e])
    BY <1>1, <1>3, <1>4, OneEntry
  <1> QED
    BY <1>1, <1>9

LEMMA ActivatedIsSound ==
    ASSUME NEW x, IndexSound(x), NEW m \in Models, x[m].status \in {"APPROVED", "RETIRED"}
    PROVE  IndexSound(Activated(x, m))
  <1> DEFINE y == Activated(x, m)
             E(n, s) == [x[n] EXCEPT !.status = s]
  <1>1. \A n \in Models : x[n] \in Entries /\ EntrySound(x[n], n)
    BY DEF IndexSound, Indexes
  <1>2. \A n \in Models, s \in {"ACTIVE", "RETIRED"} :
           x[n].status \in {"APPROVED", "ACTIVE", "RETIRED"} =>
              E(n, s) \in Entries /\ EntrySound(E(n, s), n) /\ E(n, s).status = s
    <2> SUFFICES ASSUME NEW n \in Models, NEW s \in {"ACTIVE", "RETIRED"},
                        x[n].status \in {"APPROVED", "ACTIVE", "RETIRED"}
                 PROVE  E(n, s) \in Entries /\ EntrySound(E(n, s), n) /\ E(n, s).status = s
      OBVIOUS
    <2>1. /\ E(n, s) \in Entries /\ E(n, s).status = s /\ E(n, s).evaluator = x[n].evaluator
          /\ E(n, s).approver = x[n].approver /\ E(n, s).unguarded = x[n].unguarded
      BY <1>1 DEF Entries, Statuses
    <2> QED
      BY <1>1, <2>1 DEF EntrySound
  <1>3. \A n \in Models : y[n] = IF n = m THEN E(m, "ACTIVE")
                                 ELSE IF x[n].status = "ACTIVE" THEN E(n, "RETIRED") ELSE x[n]
    BY DEF Activated
  <1>4. \A n \in Models : /\ y[n] \in Entries /\ EntrySound(y[n], n)
                          /\ y[n].status = "ACTIVE" => n = m
    BY <1>1, <1>2, <1>3
  <1>5. y \in Indexes
    BY <1>4 DEF Activated, Indexes
  <1> QED
    BY <1>4, <1>5 DEF IndexSound

\* What a run of the command line makes of a sound index is sound, and JSON.
LEMMA ResultsAreSound ==
    ASSUME NEW x, IndexSound(x), NEW y \in Results(x)
    PROVE  IndexSound(y) /\ y # Torn
  <1>1. \A m \in Models : IndexSound(Drafted(x, m))
    BY DraftedIsSound
  <1>2. \A m \in Models, a \in Actors : IndexSound(Evaluated(x, m, a)) /\ IndexSound(Reevaluated(x, m, a))
    BY EvaluatedIsSound, ReevaluatedIsSound
  <1>3. \A m \in Models, a \in Actors, padded \in BOOLEAN :
           x[m].status = "EVALUATED" /\ (a = x[m].last => padded) => IndexSound(Approved(x, m, a, padded))
    BY ApprovedIsSound
  <1>4. \A m \in Models : x[m].status \in {"APPROVED", "ACTIVE"} => IndexSound(Moved(x, m, "RETIRED"))
    BY RetiredIsSound
  <1>5. \A m \in Models : x[m].status \in {"APPROVED", "RETIRED"} => IndexSound(Activated(x, m))
    BY ActivatedIsSound
  <1>6. IndexSound(y)
    BY <1>1, <1>2, <1>3, <1>4, <1>5, AttachedAssumption DEF Results
  <1> QED
    BY <1>6, TornAssumption DEF IndexSound

-----------------------------------------------------------------------------
\* A process at rest.
LEMMA RestIsSound == Resting \in Runs /\ IndexSound(Resting.index)
  BY EmptyIsSound DEF Resting, Runs, IndexSound

LEMMA RestFields == Resting.phase = "rest" /\ Resting.inode = "none" /\ Resting.stale = 0
  BY DEF Resting

LEMMA RegistryInitSound == RegistryInit => RegistryInvariant
  <1>1. EmptyIndex \in Indexes
    BY EmptyIsSound DEF IndexSound
  <1>2. EmptyIndex # Torn
    BY <1>1, TornAssumption
  <1> HIDE DEF EmptyIndex
  <1> SUFFICES ASSUME RegistryInit PROVE RegistryInvariant
    OBVIOUS
  <1>3. proc \in [Processes -> Runs] /\ \A p \in Processes : IndexSound(proc[p].index)
    BY RestIsSound DEF RegistryInit
  <1>4. Alone
    BY <1>2, <1>3, RestFields DEF RegistryInit, Alone
  <1> QED
    BY <1>3, <1>4, EmptyIsSound DEF RegistryInit, RegistryInvariant

LEMMA LoadStep ==
    ASSUME RegistryInvariant, NEW p \in Processes, Load(p)
    PROVE  RegistryInvariant'
  <1> DEFINE r == [Resting EXCEPT !.phase = "loaded", !.index = file]
  <1>1. IndexSound(file) /\ file \in Indexes
    BY DEF RegistryInvariant, Load, IndexSound
  <1>2. r \in Runs /\ r.index = file /\ r.stale = 0 /\ r.inode = "none" /\ r.phase = "loaded"
    BY <1>1 DEF Resting, Runs
  <1>3. /\ proc' = [proc EXCEPT ![p] = r]
        /\ UNCHANGED <<file, partial, lost>>
        /\ overlapped' = (overlapped \/ \E q \in Processes \ {p} : proc[q] # Resting)
    BY DEF Load
  <1> HIDE DEF r
  <1>4. ~overlapped' => Alone'
    BY <1>2, <1>3 DEF RegistryInvariant, Alone
  <1> QED
    BY <1>1, <1>2, <1>3, <1>4 DEF RegistryInvariant

LEMMA OpenStep ==
    ASSUME RegistryInvariant, NEW p \in Processes, Open(p)
    PROVE  RegistryInvariant'
  <1> DEFINE r == [proc[p] EXCEPT !.phase = "opened", !.inode = "partial"]
  <1>1. /\ proc' = [proc EXCEPT ![p] = r]
        /\ partial' = Torn /\ UNCHANGED <<file, overlapped, lost>>
        /\ proc[p].phase = "loaded"
    BY DEF Open, RegistryInvariant, Runs
  <1>2. /\ r \in Runs /\ r.index = proc[p].index /\ r.stale = proc[p].stale
        /\ r.phase = "opened" /\ r.inode = "partial"
    BY DEF RegistryInvariant, Runs
  <1>3. proc[p] # Resting
    BY <1>1 DEF Resting
  <1> HIDE DEF r
  <1>4. ~overlapped => Alone'
    <2> SUFFICES ASSUME ~overlapped PROVE Alone'
      OBVIOUS
    <2>1. \A q \in Processes \ {p} : proc'[q] = Resting /\ proc[q] = Resting
      BY <1>1, <1>3 DEF RegistryInvariant, Alone
    <2> QED
      BY <1>1, <1>2, <2>1 DEF RegistryInvariant, Alone, Resting
  <1> QED
    BY <1>1, <1>2, <1>4 DEF RegistryInvariant

LEMMA FlushStep ==
    ASSUME RegistryInvariant, NEW p \in Processes, Flush(p)
    PROVE  RegistryInvariant'
  <1> DEFINE r == [proc[p] EXCEPT !.phase = "written", !.index = EmptyIndex]
             over == IF proc[p].inode = "partial" THEN partial ELSE file
  <1>1. /\ proc' = [proc EXCEPT ![p] = r]
        /\ UNCHANGED <<overlapped, lost>>
        /\ proc[p].phase = "opened"
    BY DEF Flush, RegistryInvariant, Runs
  <1>2. PICK bytes \in Results(proc[p].index) \cup (IF over = Torn THEN {} ELSE {Torn}) :
           IF proc[p].inode = "partial" THEN partial' = bytes /\ UNCHANGED file
                                        ELSE file' = bytes /\ UNCHANGED partial
    BY DEF Flush
  <1>3. IndexSound(proc[p].index)
    BY DEF RegistryInvariant
  <1>4. bytes # Torn => IndexSound(bytes)
    BY <1>2, <1>3, ResultsAreSound
  <1>5. over = Torn => bytes # Torn
    BY <1>2, <1>3, ResultsAreSound
  <1>6. EmptyIndex \in Indexes
    BY EmptyIsSound DEF IndexSound
  <1>7. /\ r \in Runs /\ r.index = EmptyIndex /\ r.stale = proc[p].stale
        /\ r.phase = "written" /\ r.inode = proc[p].inode
    BY <1>6 DEF RegistryInvariant, Runs
  <1>8. proc[p] # Resting
    BY <1>1 DEF Resting
  <1> HIDE DEF r
  <1>9. ~overlapped => Alone'
    <2> SUFFICES ASSUME ~overlapped PROVE Alone'
      OBVIOUS
    <2>1. \A q \in Processes \ {p} : proc'[q] = Resting /\ proc[q] = Resting
      BY <1>1, <1>8 DEF RegistryInvariant, Alone
    <2>2. proc[p].inode = "partial" /\ partial = Torn /\ proc[p].stale = 0
      BY <1>1 DEF RegistryInvariant, Alone
    <2>3. partial' # Torn /\ file' = file
      BY <1>2, <1>5, <2>2
    <2>4. proc' \in [Processes -> Runs] /\ proc'[p] = r
      BY <1>1, <1>7 DEF RegistryInvariant
    <2> QED
      BY <1>1, <1>7, <2>1, <2>2, <2>3, <2>4 DEF RegistryInvariant, Alone, Resting
  <1>10. /\ file' # Torn => IndexSound(file')
         /\ partial' \notin {Torn, NoFile} => IndexSound(partial')
    BY <1>2, <1>4 DEF RegistryInvariant
  <1> QED
    BY <1>1, <1>7, <1>9, <1>10, EmptyIsSound DEF RegistryInvariant

LEMMA ReplaceStep ==
    ASSUME RegistryInvariant, NEW p \in Processes, Replace(p)
    PROVE  RegistryInvariant'
  <1> DEFINE E(q) == [proc[q] EXCEPT !.stale = @ + 1,
                                     !.inode = IF @ = "partial" THEN "index" ELSE @]
  <1>1. /\ proc' = [q \in Processes |->
                       IF q = p THEN Resting ELSE IF proc[q] = Resting THEN Resting ELSE E(q)]
        /\ file' = partial /\ partial' = NoFile /\ partial # NoFile
        /\ lost' = (lost \/ proc[p].stale > 0)
        /\ UNCHANGED overlapped
        /\ proc[p].phase = "written"
    BY DEF Replace
  <1>2. \A q \in Processes : E(q) \in Runs /\ E(q).index = proc[q].index
    <2> SUFFICES ASSUME NEW q \in Processes PROVE E(q) \in Runs /\ E(q).index = proc[q].index
      OBVIOUS
    <2>1. proc[q] \in Runs
      BY DEF RegistryInvariant
    <2>2. proc[q].stale + 1 \in Nat
      BY <2>1 DEF Runs
    <2> QED
      BY <2>1, <2>2 DEF Runs
  <1>3. proc[p] # Resting
    <2>1. proc[p].phase = "written"
      BY DEF Replace
    <2> QED
      BY <2>1, RestFields
  <1> HIDE DEF E
  <1>4. proc' \in [Processes -> Runs] /\ \A q \in Processes : IndexSound(proc'[q].index)
    BY <1>1, <1>2, RestIsSound DEF RegistryInvariant
  <1>5. ~overlapped => Alone'
    <2> SUFFICES ASSUME ~overlapped PROVE Alone'
      OBVIOUS
    <2>1. \A q \in Processes : proc'[q] = Resting
      BY <1>1, <1>3 DEF RegistryInvariant, Alone
    <2>2. partial # Torn /\ proc[p].stale = 0 /\ ~lost
      BY <1>1 DEF RegistryInvariant, Alone
    <2>3. file' # Torn /\ ~lost'
      <3>1. ~(proc[p].stale > 0)
        BY <2>2
      <3>2. ~lost'
        BY <1>1, <2>2, <3>1, Zenon
      <3> QED
        BY <1>1, <2>2, <3>2
    <2>4. \A q \in Processes : /\ proc'[q].phase = "rest" /\ proc'[q].inode = "none"
                               /\ proc'[q].stale = 0
      BY <2>1, RestFields
    <2> QED
      BY <2>1, <2>3, <2>4 DEF Alone
  <1> QED
    BY <1>1, <1>4, <1>5 DEF RegistryInvariant

LEMMA RestStep ==
    ASSUME RegistryInvariant, NEW p \in Processes,
           proc' = [proc EXCEPT ![p] = Resting],
           partial' \in {partial, Torn}, UNCHANGED <<file, overlapped, lost>>,
           proc[p] # Resting
    PROVE  RegistryInvariant'
  <1>1. proc' \in [Processes -> Runs] /\ \A q \in Processes : IndexSound(proc'[q].index)
    BY RestIsSound DEF RegistryInvariant
  <1>2. ~overlapped => Alone'
    <2> SUFFICES ASSUME ~overlapped PROVE Alone'
      OBVIOUS
    <2>1. \A q \in Processes : proc'[q] = Resting
      BY DEF RegistryInvariant, Alone
    <2> QED
      BY <2>1 DEF RegistryInvariant, Alone, Resting
  <1> QED
    BY <1>1, <1>2 DEF RegistryInvariant

LEMMA RegistryStep == RegistryInvariant /\ [RegistryNext]_registryVars => RegistryInvariant'
  <1> SUFFICES ASSUME RegistryInvariant, [RegistryNext]_registryVars
               PROVE  RegistryInvariant'
    OBVIOUS
  <1>1. CASE UNCHANGED registryVars
    BY <1>1 DEF registryVars, RegistryInvariant, Alone
  <1>2. ASSUME NEW p \in Processes, Load(p) \/ Open(p) \/ Flush(p) \/ Replace(p)
        PROVE  RegistryInvariant'
    BY <1>2, LoadStep, OpenStep, FlushStep, ReplaceStep
  <1>3. ASSUME NEW p \in Processes, ReplaceFails(p) PROVE RegistryInvariant'
    <2>1. proc[p] # Resting
      BY <1>3 DEF ReplaceFails, Resting
    <2> QED
      BY <1>3, <2>1, RestStep DEF ReplaceFails
  <1>4. ASSUME NEW p \in Processes, Crash(p) PROVE RegistryInvariant'
    BY <1>4, RestStep DEF Crash
  <1> QED
    BY <1>1, <1>2, <1>3, <1>4 DEF RegistryNext

-----------------------------------------------------------------------------
\* The inductive invariant of the registry's files and processes.
THEOREM RegistryInvariantHolds == RegistrySpec => []RegistryInvariant
  BY RegistryInitSound, RegistryStep, PTL DEF RegistrySpec

\* An index that can be read has one ACTIVE version and kept the lifecycle.
THEOREM ReadableIndexHolds == RegistrySpec => []ReadableIndexIsSound
  <1>1. RegistryInvariant => ReadableIndexIsSound
    BY DEF RegistryInvariant, IndexSound, EntrySound, ReadableIndexIsSound
  <1> QED
    BY <1>1, RegistryInvariantHolds, PTL

\* Without overlapping runs nothing that was stored is lost.
THEOREM LossNeedsOverlapHolds == RegistrySpec => []LossNeedsOverlap
  <1>1. RegistryInvariant => LossNeedsOverlap
    BY DEF RegistryInvariant, Alone, LossNeedsOverlap
  <1> QED
    BY <1>1, RegistryInvariantHolds, PTL

(* The runs of the others that a process has slept through: none starts    *)
(* once that reaches the bound, so at most those under way are added.      *)
Busy == {p \in Processes : proc[p] # Resting}

StaleBounded ==
    \A p \in Processes : proc[p].stale <= MaxOverlap + Cardinality(Processes) - Cardinality(Busy)

\* There are finitely many.
LEMMA SomeAreBusy ==
    /\ Cardinality(Processes) \in Nat /\ Cardinality(Busy) \in Nat
    /\ Cardinality(Busy) <= Cardinality(Processes)
    /\ IsFiniteSet(Busy) /\ MaxOverlap \in Nat
  <1>1. Busy \in SUBSET Processes
    BY DEF Busy
  <1> QED
    BY <1>1, ProcessesAssumption, FS_Subset, FS_CardinalityType

\* The same with the processes of the next state.
LEMMA SomeAreBusyNext ==
    /\ Cardinality(Busy') \in Nat /\ Cardinality(Busy') <= Cardinality(Processes)
    /\ IsFiniteSet(Busy')
  <1>1. Busy' \in SUBSET Processes
    BY DEF Busy
  <1> QED
    BY <1>1, ProcessesAssumption, FS_Subset, FS_CardinalityType

\* A step after which no process has slept through more and none is new.
LEMMA StaleKept ==
    ASSUME RegistryInvariant, StaleBounded, RegistryInvariant', Busy' \subseteq Busy,
           \A q \in Processes : proc'[q].stale <= proc[q].stale
    PROVE  StaleBounded'
  <1>1. Busy' \in SUBSET Busy
    OBVIOUS
  <1>2. Cardinality(Busy') <= Cardinality(Busy)
    BY <1>1, SomeAreBusy, FS_Subset
  <1>3. \A q \in Processes : proc[q].stale \in Nat /\ proc'[q].stale \in Nat
    BY DEF RegistryInvariant, Runs
  <1> QED
    BY <1>2, <1>3, SomeAreBusy, SomeAreBusyNext DEF StaleBounded

\* A load begins only where nobody has reached the bound.
LEMMA LoadBounded ==
    ASSUME RegistryInvariant, NEW p \in Processes, Load(p)
    PROVE  StaleBounded'
  <1> DEFINE r == [Resting EXCEPT !.phase = "loaded", !.index = file]
  <1>1. r.stale = 0
    BY DEF Resting
  <1>2. proc' = [proc EXCEPT ![p] = r] /\ \A q \in Processes : proc[q].stale < MaxOverlap
    BY DEF Load
  <1> HIDE DEF r
  <1>3. \A q \in Processes : proc[q].stale \in Nat
    BY DEF RegistryInvariant, Runs
  <1>4. \A q \in Processes : proc'[q].stale \in Nat /\ proc'[q].stale <= MaxOverlap
    BY <1>1, <1>2, <1>3, SomeAreBusy DEF RegistryInvariant
  <1> QED
    BY <1>4, SomeAreBusy, SomeAreBusyNext DEF StaleBounded

\* A rename adds one for the others and ends one run.
LEMMA ReplaceBounded ==
    ASSUME RegistryInvariant, StaleBounded, NEW p \in Processes, Replace(p)
    PROVE  StaleBounded'
  <1> DEFINE E(q) == [proc[q] EXCEPT !.stale = @ + 1,
                                     !.inode = IF @ = "partial" THEN "index" ELSE @]
  <1>1. proc' = [q \in Processes |->
                    IF q = p THEN Resting ELSE IF proc[q] = Resting THEN Resting ELSE E(q)]
    BY DEF Replace
  <1>2. p \in Busy
    BY RestFields DEF Busy, Replace
  <1>3. \A q \in Processes : proc[q].stale \in Nat /\ E(q).stale = proc[q].stale + 1
    BY DEF RegistryInvariant, Runs
  <1> HIDE DEF E
  <1>4. Busy' \in SUBSET (Busy \ {p})
    BY <1>1 DEF Busy
  <1>5. Cardinality(Busy') <= Cardinality(Busy) - 1
    <2>1. IsFiniteSet(Busy \ {p}) /\ Cardinality(Busy \ {p}) = Cardinality(Busy) - 1
      BY <1>2, SomeAreBusy, FS_RemoveElement
    <2> QED
      BY <1>4, <2>1, FS_Subset
  <1>6. \A q \in Processes : proc'[q].stale = 0 \/ proc'[q].stale = proc[q].stale + 1
    BY <1>1, <1>3, RestFields
  <1> QED
    BY <1>3, <1>5, <1>6, SomeAreBusy, SomeAreBusyNext DEF StaleBounded

\* Nobody has slept through anything at the start, and every step keeps the bound.
LEMMA BoundedInit == RegistryInit => StaleBounded
  <1> SUFFICES ASSUME RegistryInit PROVE StaleBounded
    OBVIOUS
  <1>1. \A p \in Processes : proc[p].stale = 0
    BY RestFields DEF RegistryInit
  <1> QED
    BY <1>1, SomeAreBusy DEF StaleBounded

LEMMA BoundedStep ==
    ASSUME RegistryInvariant, StaleBounded, [RegistryNext]_registryVars
    PROVE  StaleBounded'
  <1>0. RegistryInvariant'
    BY RegistryStep
  <1>1. CASE UNCHANGED registryVars
    BY <1>1 DEF registryVars, StaleBounded, Busy
  <1>2. ASSUME NEW p \in Processes, Open(p) \/ Flush(p) \/ ReplaceFails(p) \/ Crash(p)
        PROVE  StaleBounded'
    <2>1. proc[p] # Resting /\ proc[p] \in Runs
      BY <1>2 DEF Open, Flush, ReplaceFails, Crash, Resting, RegistryInvariant
    <2>2. PICK r : proc' = [proc EXCEPT ![p] = r] /\ r.stale \in {proc[p].stale, 0}
      <3>1. CASE ReplaceFails(p) \/ Crash(p)
        BY <3>1, RestFields DEF ReplaceFails, Crash
      <3>2. CASE Open(p)
        <4> DEFINE e == [proc[p] EXCEPT !.phase = "opened", !.inode = "partial"]
        <4>1. proc' = [proc EXCEPT ![p] = e] /\ e.stale = proc[p].stale
          BY <2>1, <3>2 DEF Open, Runs, RegistryInvariant
        <4> QED
          BY <4>1
      <3>3. CASE Flush(p)
        <4> DEFINE e == [proc[p] EXCEPT !.phase = "written", !.index = EmptyIndex]
        <4>1. proc' = [proc EXCEPT ![p] = e] /\ e.stale = proc[p].stale
          BY <2>1, <3>3 DEF Flush, Runs, RegistryInvariant
        <4> QED
          BY <4>1
      <3> QED
        BY <1>2, <3>1, <3>2, <3>3
    <2>3. \A q \in Processes : q # p => proc'[q] = proc[q]
      BY <2>2 DEF RegistryInvariant
    <2>4. Busy' \subseteq Busy
      BY <2>1, <2>3 DEF Busy
    <2>5. \A q \in Processes : proc[q].stale \in Nat
      BY DEF RegistryInvariant, Runs
    <2>6. \A q \in Processes : proc'[q].stale <= proc[q].stale
      BY <2>2, <2>3, <2>5 DEF RegistryInvariant
    <2> QED
      BY <1>0, <2>4, <2>6, StaleKept
  <1>3. ASSUME NEW p \in Processes, Load(p) \/ Replace(p) PROVE StaleBounded'
    BY <1>3, LoadBounded, ReplaceBounded
  <1> QED
    BY <1>1, <1>2, <1>3 DEF RegistryNext

\* Both together give the types of the registry's variables.
LEMMA RegistryIsTyped == RegistryInvariant /\ StaleBounded => RegistryTypeOK
  <1> SUFFICES ASSUME RegistryInvariant, StaleBounded PROVE RegistryTypeOK
    OBVIOUS
  <1>1. file \in Indexes \cup {Torn} /\ partial \in Indexes \cup {Torn, NoFile}
    BY DEF RegistryInvariant, IndexSound
  <1>2. ASSUME NEW p \in Processes
        PROVE  proc[p] \in [phase : {"rest", "loaded", "opened", "written"}, index : Indexes,
                            inode : {"none", "partial", "index"},
                            stale : 0 .. MaxOverlap + Cardinality(Processes)]
    <2>1. proc[p] \in Runs
      BY DEF RegistryInvariant
    <2>2. proc[p].stale \in 0 .. MaxOverlap + Cardinality(Processes)
      BY <2>1, SomeAreBusy DEF StaleBounded, Runs
    <2> QED
      BY <2>1, <2>2 DEF Runs
  <1>3. proc = [p \in Processes |-> proc[p]]
    BY DEF RegistryInvariant
  <1> QED
    BY <1>1, <1>2, <1>3 DEF RegistryTypeOK, RegistryInvariant

-----------------------------------------------------------------------------
(* The pipeline.  While one baseline alone uses the run directory, every   *)
(* artifact in it comes from its one model, which is the one the baseline  *)
(* has loaded; and what was read since it began lies between the manifest  *)
(* it began with and the dataset of now, unless another manifest was       *)
(* written or an earlier content put back meanwhile.                       *)

(* The artifacts, by the type of their files.                              *)
ManifestFiles == [of : 1 .. MaxData, split : Splits, at : 1 .. MaxStamp]
Weights == [data : 1 .. MaxData, split : Splits, at : 1 .. MaxStamp]
PredictionFiles == [model : Weights, split : Splits, data : 1 .. MaxData, at : 1 .. MaxStamp]
ThresholdFiles == [from : PredictionFiles, at : 1 .. MaxStamp]
EvaluationFiles == [of : PredictionFiles, thresholds : ThresholdFiles, meta : ManifestFiles,
                    at : 1 .. MaxStamp]
PackageDirs == [model : Weights, thresholds : ThresholdFiles, evaluation : EvaluationFiles,
                meta : ManifestFiles, at : 1 .. MaxStamp]
Summaries == [package : PackageDirs, of : 1 .. MaxData, at : 1 .. MaxStamp]
RunDirs == [started : BOOLEAN, model : Weights \cup {None},
            validation : PredictionFiles \cup {None}, thresholds : ThresholdFiles \cup {None},
            test : PredictionFiles \cup {None}, evaluation : EvaluationFiles \cup {None},
            summary : Summaries \cup {None}]
BaseRecords == [step : Steps, weights : Weights \cup {None}, entries : ManifestFiles \cup {None}]

FilesTyped ==
    /\ data \in 1 .. MaxData /\ stamp \in 0 .. MaxStamp
    /\ lines \in ManifestFiles \cup {None} /\ meta \in ManifestFiles \cup {None}
    /\ run \in RunDirs /\ package \in PackageDirs \cup {None}
    /\ base \in [Baselines -> BaseRecords]
    /\ disturbed \in BOOLEAN /\ shared \in BOOLEAN

Trained == {"loaded", "validated", "calibrated", "tested", "evaluated", "packaged"}

(* What a baseline has behind it at each step, whoever else runs.          *)
StepsTaken ==
    /\ \A b \in Baselines :
          /\ base[b].step \notin {"rest", "checked"} => lines # None /\ meta # None
          /\ base[b].step \notin {"rest", "checked", "verified"} => base[b].entries # None
          /\ base[b].step \in Trained => base[b].weights # None
    /\ run.started => lines # None /\ meta # None
    /\ run.thresholds # None => run.thresholds.at <= stamp
    /\ run.evaluation # None => run.evaluation.thresholds.at < run.evaluation.at

(* Everything in the run directory, and what the baseline has loaded,      *)
(* comes from the one model that lies there.                               *)
OneModel ==
    /\ run.model = None => run.validation = None /\ run.test = None /\ run.summary = None
    /\ run.validation # None => run.validation.model = run.model
    /\ run.test # None => run.test.model = run.model
    /\ run.summary # None => run.summary.package.model = run.model
    /\ \A b \in Baselines :
          /\ base[b].step = "started" => run.model = None
          /\ base[b].step \in Trained => base[b].weights = run.model
          /\ base[b].step = "packaged" => package = None \/ package.model = run.model

Single ==
    ~shared =>
        /\ \A b, c \in Baselines : base[b].step # "rest" /\ base[c].step # "rest" => b = c
        /\ \A b \in Baselines : base[b].step \in {"checked", "verified"} => run = EmptyRun
        /\ run.started => OneModel

(* Undisturbed, what was read since the start is no older than the         *)
(* manifest and no newer than the dataset.                                 *)
Between(d) == lines.of <= d /\ d <= data

SinceBegin ==
    ~shared /\ ~disturbed =>
        /\ (run.started \/ \E b \in Baselines : base[b].step = "verified") =>
              meta.of = lines.of /\ meta.split = lines.split /\ Between(data)
        /\ run.started =>
              /\ \A b \in Baselines : base[b].step = "started" => base[b].entries.split = lines.split
              /\ run.model # None => Between(run.model.data) /\ run.model.split = lines.split
              /\ run.validation # None => Between(run.validation.data)
              /\ run.test # None => Between(run.test.data)

(* No command writes measured evidence of a customer pilot.                *)
EvidenceSound ==
    evidence # None =>
        /\ evidence.arguments \in Arguments(1 .. MaxStamp, 1 .. MaxData)
        /\ evidence.intact \in BOOLEAN
        /\ evidence.arguments.source = "CUSTOMER_PILOT" => evidence.arguments.metrics = Absent

PipelineInvariant ==
    FilesTyped /\ StepsTaken /\ Single /\ SinceBegin /\ EvidenceSound /\ outside \in 0 .. MaxOutside

(* All of it but the count of the interventions, which no command reads.   *)
FilesSound == FilesTyped /\ StepsTaken /\ Single /\ SinceBegin /\ EvidenceSound

-----------------------------------------------------------------------------
\* The empty run directory.
LEMMA EmptyFields ==
    /\ EmptyRun \in RunDirs /\ EmptyRun.started = FALSE /\ EmptyRun.model = None
    /\ EmptyRun.validation = None /\ EmptyRun.test = None /\ EmptyRun.summary = None
    /\ EmptyRun.thresholds = None /\ EmptyRun.evaluation = None
  BY DEF EmptyRun, RunDirs

\* A baseline at rest has loaded nothing.
LEMMA BaseAtRest == Rest \in BaseRecords /\ Rest.step = "rest"
  BY DEF Rest, BaseRecords, Steps

\* The initial files.
LEMMA PipelineInitSound == PipelineInit => PipelineInvariant
  <1> SUFFICES ASSUME PipelineInit PROVE PipelineInvariant
    OBVIOUS
  <1>1. 1 \in 1 .. MaxData /\ 0 \in 0 .. MaxStamp /\ 0 \in 0 .. MaxOutside
    BY BoundsAssumption
  <1>2. \A b \in Baselines : base[b] = Rest
    BY DEF PipelineInit
  <1>3. FilesTyped
    BY <1>1, EmptyFields, BaseAtRest DEF PipelineInit, FilesTyped
  <1>4. StepsTaken
    BY <1>2, EmptyFields, BaseAtRest DEF PipelineInit, StepsTaken, Trained
  <1>5. Single /\ SinceBegin /\ EvidenceSound
    BY <1>2, EmptyFields, BaseAtRest DEF PipelineInit, Single, SinceBegin, EvidenceSound
  <1> QED
    BY <1>1, <1>3, <1>4, <1>5 DEF PipelineInit, PipelineInvariant

\* An artifact carries a stamp, and None carries none.
LEMMA ArtifactsExist ==
    None \notin ManifestFiles \cup Weights \cup PredictionFiles \cup ThresholdFiles
                \cup EvaluationFiles \cup PackageDirs \cup Summaries
  BY DEF None, ManifestFiles, Weights, PredictionFiles, ThresholdFiles, EvaluationFiles, PackageDirs,
         Summaries

\* An artifact that is made takes the next stamp.
LEMMA StampedNext ==
    ASSUME FilesSound, Stamped
    PROVE  stamp' = stamp + 1 /\ stamp' \in 1 .. MaxStamp /\ stamp \in Nat
  BY BoundsAssumption DEF Stamped, FilesSound, FilesTyped

\* The stamps of thresholds are numbers.
LEMMA ThresholdStamp ==
    FilesSound => stamp \in Nat /\ (run.thresholds # None => run.thresholds.at \in Nat)
  BY BoundsAssumption DEF FilesSound, FilesTyped, RunDirs, ThresholdFiles

\* A baseline takes a step: it keeps what it has loaded, the others rest or
\* stay where they are.
LEMMA Advancing ==
    ASSUME FilesSound, NEW b \in Baselines, NEW from, NEW to \in Steps, Advance(b, from, to)
    PROVE  /\ base[b].step = from /\ base[b] \in BaseRecords
           /\ base' \in [Baselines -> BaseRecords]
           /\ base'[b].step = to
           /\ base'[b].weights = base[b].weights /\ base'[b].entries = base[b].entries
           /\ \A c \in Baselines \ {b} : base'[c] = base[c]
  <1> DEFINE r == [base[b] EXCEPT !.step = to]
  <1>1. base \in [Baselines -> BaseRecords] /\ base[b] \in BaseRecords
    BY DEF FilesSound, FilesTyped
  <1>2. r \in BaseRecords /\ r.step = to /\ r.weights = base[b].weights /\ r.entries = base[b].entries
    BY <1>1 DEF BaseRecords
  <1>3. base' = [base EXCEPT ![b] = r] /\ base[b].step = from
    BY DEF Advance, At
  <1> HIDE DEF r
  <1> QED
    BY <1>1, <1>2, <1>3

\* A baseline that ends is at rest.
LEMMA Ending ==
    ASSUME FilesSound, NEW b \in Baselines, Ended(b)
    PROVE  /\ base' \in [Baselines -> BaseRecords] /\ base'[b].step = "rest"
           /\ \A c \in Baselines \ {b} : base'[c] = base[c]
  BY BaseAtRest DEF Ended, FilesSound, FilesTyped

\* The dataset and the manifest.
LEMMA ManifestStep ==
    ASSUME FilesSound,
           \/ \E d \in 1 .. MaxData : ChangeData(d)
           \/ WriteMeta
           \/ \E s \in Splits : WriteLines(s)
    PROVE  FilesSound'
  <1>1. UNCHANGED <<run, package, base, shared, evidence>>
    BY DEF ChangeData, WriteMeta, WriteLines
  <1>2. FilesTyped' /\ stamp' >= stamp
    <2>1. ASSUME NEW d \in 1 .. MaxData, ChangeData(d)
          PROVE  FilesTyped' /\ stamp' >= stamp
      BY <2>1, BoundsAssumption DEF ChangeData, FilesSound, FilesTyped
    <2>2. CASE WriteMeta
      BY <2>2 DEF WriteMeta, FilesSound, FilesTyped
    <2>3. ASSUME NEW s \in Splits, WriteLines(s)
          PROVE  FilesTyped' /\ stamp' >= stamp
      <3>1. lines' \in ManifestFiles
        BY <2>3, StampedNext DEF WriteLines, FilesSound, FilesTyped, ManifestFiles
      <3> QED
        BY <2>3, <3>1, StampedNext DEF WriteLines, FilesSound, FilesTyped
    <2> QED
      BY <2>1, <2>2, <2>3
  <1>3. (lines # None => lines' # None) /\ (meta # None => meta' # None)
    BY StampedNext DEF ChangeData, WriteMeta, WriteLines, None
  <1>4. StepsTaken'
    <2>1. run.thresholds # None => run.thresholds.at <= stamp'
      <3>1. stamp' \in Nat
        BY <1>2, BoundsAssumption DEF FilesTyped
      <3> QED
        BY <1>2, <3>1, ThresholdStamp DEF FilesSound, StepsTaken
    <2> QED
      BY <1>1, <1>3, <2>1 DEF FilesSound, StepsTaken
  <1>5. Single' /\ EvidenceSound'
    BY <1>1 DEF FilesSound, Single, OneModel, EvidenceSound
  <1>6. SinceBegin'
    <2>1. CASE disturbed'
      BY <2>1 DEF SinceBegin
    <2>2. CASE ~disturbed'
      <3>1. PICK d \in 1 .. MaxData : ChangeData(d)
        BY <2>2 DEF WriteMeta, WriteLines
      <3>2. UNCHANGED <<lines, meta>> /\ ~disturbed /\ data <= data' /\ data \in Nat /\ data' \in Nat
        <4>1. UNCHANGED <<lines, meta>> /\ ~disturbed /\ ~(d < data) /\ data' = d
          BY <2>2, <3>1, Zenon DEF ChangeData
        <4> QED
          BY <4>1, BoundsAssumption DEF FilesSound, FilesTyped
      <3>3. /\ run.model # None => run.model.data \in Nat
            /\ run.validation # None => run.validation.data \in Nat
            /\ run.test # None => run.test.data \in Nat
            /\ lines # None => lines.of \in Nat
        BY DEF ManifestFiles, FilesSound, FilesTyped, RunDirs, Weights, PredictionFiles
      <3> QED
        BY <1>1, <3>2, <3>3 DEF FilesSound, StepsTaken, SinceBegin, Between
    <2> QED
      BY <2>1, <2>2
  <1> QED
    BY <1>2, <1>4, <1>5, <1>6 DEF FilesSound

\* A baseline begins with an empty run directory, alone or not, and then
\* verifies the manifest.
LEMMA BeginStep ==
    ASSUME FilesSound, NEW b \in Baselines, Check(b) \/ Verify(b)
    PROVE  FilesSound'
  <1>1. CASE Check(b)
    <2>1. /\ Advance(b, "rest", "checked") /\ run = EmptyRun /\ disturbed' = FALSE
          /\ shared' = \E other \in Baselines \ {b} : base[other].step # "rest"
          /\ UNCHANGED <<data, lines, meta, run, package, stamp, evidence>>
      BY <1>1 DEF Check, At
    <2>2. /\ base' \in [Baselines -> BaseRecords] /\ base'[b].step = "checked"
          /\ \A c \in Baselines \ {b} : base'[c] = base[c]
      BY <2>1, Advancing DEF Steps
    <2>3. FilesTyped'
      BY <2>1, <2>2 DEF FilesSound, FilesTyped
    <2>4. StepsTaken'
      BY <2>1, <2>2 DEF FilesSound, StepsTaken, Trained
    <2>5. Single' /\ SinceBegin'
      BY <2>1, <2>2, EmptyFields DEF Single, SinceBegin
    <2>6. EvidenceSound'
      BY <2>1 DEF FilesSound, EvidenceSound
    <2> QED
      BY <2>3, <2>4, <2>5, <2>6 DEF FilesSound
  <1>2. CASE Verify(b)
    <2>1. /\ Advance(b, "checked", "verified") /\ lines # None /\ meta # None /\ lines.of = data
          /\ meta.of = lines.of /\ meta.split = lines.split
          /\ UNCHANGED <<data, lines, meta, run, package, stamp, disturbed, shared, evidence>>
      BY <1>2 DEF Verify, ManifestVerifies
    <2>2. /\ base' \in [Baselines -> BaseRecords] /\ base[b].step = "checked"
          /\ base'[b].step = "verified"
          /\ \A c \in Baselines \ {b} : base'[c] = base[c]
      BY <2>1, Advancing DEF Steps
    <2>3. FilesTyped'
      BY <2>1, <2>2 DEF FilesSound, FilesTyped
    <2>4. StepsTaken'
      BY <2>1, <2>2 DEF FilesSound, StepsTaken, Trained
    <2>5. ~shared => run = EmptyRun /\ \A c \in Baselines \ {b} : base[c].step = "rest"
      BY <2>2 DEF FilesSound, Single
    <2>6. Single'
      BY <2>1, <2>2, <2>5, EmptyFields DEF Single
    <2>7. data \in Nat
      BY BoundsAssumption DEF FilesSound, FilesTyped
    <2>8. SinceBegin'
      BY <2>1, <2>5, <2>7, EmptyFields DEF SinceBegin, Between
    <2>9. EvidenceSound'
      BY <2>1 DEF FilesSound, EvidenceSound
    <2> QED
      BY <2>3, <2>4, <2>6, <2>8, <2>9 DEF FilesSound
  <1> QED
    BY <1>1, <1>2

\* The first file of the run directory.
LEMMA StartStep ==
    ASSUME FilesSound, NEW b \in Baselines, Start(b)
    PROVE  FilesSound'
  <1> DEFINE r == [base[b] EXCEPT !.step = "started", !.entries = lines]
  <1>1. /\ base[b].step = "verified" /\ base' = [base EXCEPT ![b] = r]
        /\ run' = [run EXCEPT !.started = TRUE]
        /\ UNCHANGED <<data, lines, meta, package, stamp, disturbed, shared, evidence>>
    BY DEF Start, At
  <1>2. base \in [Baselines -> BaseRecords] /\ base[b] \in BaseRecords /\ lines \in ManifestFiles
    BY <1>1 DEF FilesSound, FilesTyped, StepsTaken
  <1>3. r \in BaseRecords /\ r.step = "started" /\ r.entries = lines
    BY <1>2 DEF BaseRecords, Steps
  <1> HIDE DEF r
  <1>4. /\ base' \in [Baselines -> BaseRecords] /\ base'[b].step = "started"
        /\ base'[b].entries = lines
        /\ \A c \in Baselines \ {b} : base'[c] = base[c]
    BY <1>1, <1>2, <1>3
  <1>5. /\ run' \in RunDirs /\ run'.started = TRUE /\ run'.model = run.model
        /\ run'.validation = run.validation /\ run'.thresholds = run.thresholds
        /\ run'.test = run.test /\ run'.evaluation = run.evaluation /\ run'.summary = run.summary
    BY <1>1 DEF FilesSound, FilesTyped, RunDirs
  <1>6. FilesTyped'
    BY <1>1, <1>4, <1>5 DEF FilesSound, FilesTyped
  <1>7. StepsTaken' /\ EvidenceSound'
    BY <1>1, <1>2, <1>4, <1>5 DEF FilesSound, StepsTaken, Trained, EvidenceSound
  <1>8. ~shared => run = EmptyRun /\ \A c \in Baselines \ {b} : base[c].step = "rest"
    BY <1>1 DEF FilesSound, Single
  <1>9. Single'
    BY <1>1, <1>4, <1>5, <1>8, EmptyFields DEF Single, OneModel, Trained
  <1>10. SinceBegin'
    BY <1>1, <1>4, <1>5, <1>8, EmptyFields DEF FilesSound, SinceBegin, Between
  <1> QED
    BY <1>6, <1>7, <1>9, <1>10 DEF FilesSound

\* The training, which reads the images once.
LEMMA FitStep ==
    ASSUME FilesSound, NEW b \in Baselines, Fit(b)
    PROVE  FilesSound'
  <1> DEFINE v == [data |-> data, split |-> base[b].entries.split, at |-> stamp']
  <1>1. /\ Advance(b, "started", "fitted") /\ stamp' = stamp + 1
        /\ stamp \in Nat /\ stamp' \in 1 .. MaxStamp
        /\ run' = [run EXCEPT !.model = v]
        /\ UNCHANGED <<data, lines, meta, package, disturbed, shared, evidence>>
    BY StampedNext DEF Fit, Made
  <1>2. /\ base[b].step = "started" /\ base' \in [Baselines -> BaseRecords]
        /\ base'[b].step = "fitted" /\ base[b].entries = base'[b].entries
        /\ base[b] \in BaseRecords
        /\ \A c \in Baselines \ {b} : base'[c] = base[c]
    BY <1>1, Advancing DEF Steps
  <1>3. base[b].entries \in ManifestFiles
    BY <1>2 DEF FilesSound, StepsTaken, BaseRecords
  <1>4. v \in Weights /\ v.data = data /\ v.split = base[b].entries.split
    BY <1>1, <1>3 DEF Weights, FilesSound, FilesTyped, ManifestFiles
  <1>5. v # None
    BY <1>4, ArtifactsExist
  <1> HIDE DEF v
  <1>6. /\ run' \in RunDirs /\ run'.started = run.started /\ run'.model = v
        /\ run'.validation = run.validation /\ run'.thresholds = run.thresholds
        /\ run'.test = run.test /\ run'.evaluation = run.evaluation /\ run'.summary = run.summary
    BY <1>1, <1>4 DEF FilesSound, FilesTyped, RunDirs
  <1>7. FilesTyped'
    BY <1>1, <1>2, <1>6, BoundsAssumption DEF FilesSound, FilesTyped
  <1>8. StepsTaken' /\ EvidenceSound'
    BY <1>1, <1>2, <1>6, ThresholdStamp DEF FilesSound, StepsTaken, Trained, EvidenceSound
  <1>9. ~shared => \A c \in Baselines \ {b} : base[c].step = "rest"
    BY <1>2 DEF FilesSound, Single
  <1>10. ~shared /\ run.started => run.model = None /\ OneModel
    BY <1>2 DEF FilesSound, Single, OneModel
  <1>11. Single'
    BY <1>1, <1>2, <1>5, <1>6, <1>9, <1>10 DEF Single, OneModel, Trained
  <1>12. SinceBegin'
    BY <1>1, <1>2, <1>4, <1>6, <1>9, <1>10 DEF FilesSound, SinceBegin, OneModel, Between
  <1> QED
    BY <1>7, <1>8, <1>11, <1>12 DEF FilesSound

\* The weights and the manifest are read again after the training.
LEMMA ReloadStep ==
    ASSUME FilesSound, NEW b \in Baselines, Reload(b)
    PROVE  FilesSound'
  <1> DEFINE r == [step |-> "loaded", weights |-> run.model, entries |-> lines]
  <1>1. /\ base[b].step = "fitted" /\ run.model # None /\ base' = [base EXCEPT ![b] = r]
        /\ UNCHANGED <<data, lines, meta, run, package, stamp, disturbed, shared, evidence>>
    BY DEF Reload, At
  <1>2. /\ base \in [Baselines -> BaseRecords] /\ lines \in ManifestFiles /\ lines # None
        /\ run.model \in Weights
    BY <1>1 DEF FilesSound, FilesTyped, StepsTaken, RunDirs
  <1>3. r \in BaseRecords /\ r.step = "loaded" /\ r.weights = run.model /\ r.entries = lines
    BY <1>2 DEF BaseRecords, Steps
  <1> HIDE DEF r
  <1>4. /\ base' \in [Baselines -> BaseRecords] /\ base'[b].step = "loaded"
        /\ base'[b].weights = run.model /\ base'[b].entries = lines
        /\ \A c \in Baselines \ {b} : base'[c] = base[c]
    BY <1>1, <1>2, <1>3
  <1>5. FilesTyped'
    BY <1>1, <1>4 DEF FilesSound, FilesTyped
  <1>6. StepsTaken' /\ EvidenceSound'
    BY <1>1, <1>2, <1>4 DEF FilesSound, StepsTaken, Trained, EvidenceSound
  <1>7. Single' /\ SinceBegin'
    BY <1>1, <1>4 DEF FilesSound, Single, OneModel, SinceBegin, Between
  <1> QED
    BY <1>5, <1>6, <1>7 DEF FilesSound

\* The two predictions, each with the weights loaded and the images of now.
LEMMA PredictStep ==
    ASSUME FilesSound, NEW b \in Baselines, PredictValidation(b) \/ PredictTest(b)
    PROVE  FilesSound'
  <1> DEFINE v == Predictions(b)
  <1>1. /\ stamp' = stamp + 1 /\ stamp \in Nat /\ stamp' \in 1 .. MaxStamp
        /\ UNCHANGED <<data, lines, meta, package, disturbed, shared, evidence>>
        /\ \/ Advance(b, "loaded", "validated") /\ run' = [run EXCEPT !.validation = v]
           \/ Advance(b, "calibrated", "tested") /\ run' = [run EXCEPT !.test = v]
    BY StampedNext DEF PredictValidation, PredictTest, Made
  <1>2. /\ base[b].step \in Trained /\ base'[b].step \in Trained \ {"packaged"}
        /\ base' \in [Baselines -> BaseRecords] /\ base[b] \in BaseRecords
        /\ base'[b].weights = base[b].weights /\ base'[b].entries = base[b].entries
        /\ \A c \in Baselines \ {b} : base'[c] = base[c]
    BY <1>1, Advancing DEF Steps, Trained
  <1>3. base[b].weights \in Weights /\ base[b].entries \in ManifestFiles
    BY <1>2 DEF FilesSound, StepsTaken, BaseRecords, Trained
  <1>4. v \in PredictionFiles /\ v.model = base[b].weights /\ v.data = data
    BY <1>1, <1>3 DEF Predictions, PredictionFiles, FilesSound, FilesTyped, ManifestFiles
  <1>5. v # None
    BY <1>4, ArtifactsExist
  <1> HIDE DEF v
  <1>6. /\ run' \in RunDirs /\ run'.started = run.started /\ run'.model = run.model
        /\ run'.thresholds = run.thresholds
        /\ run'.evaluation = run.evaluation /\ run'.summary = run.summary
        /\ \/ run'.validation = v /\ run'.test = run.test
           \/ run'.validation = run.validation /\ run'.test = v
    BY <1>1, <1>4 DEF FilesSound, FilesTyped, RunDirs
  <1>7. FilesTyped'
    BY <1>1, <1>2, <1>6, BoundsAssumption DEF FilesSound, FilesTyped
  <1>8. StepsTaken' /\ EvidenceSound'
    BY <1>1, <1>2, <1>6, ThresholdStamp DEF FilesSound, StepsTaken, Trained, EvidenceSound
  <1>9. base[b].step # "rest" /\ base[b].step \notin {"checked", "verified"}
        /\ base'[b].step \notin {"rest", "checked", "verified", "started"}
    BY <1>2 DEF Trained
  <1>10. ~shared /\ run.started => base[b].weights = run.model /\ run.model # None /\ OneModel
    BY <1>2, <1>3, ArtifactsExist DEF FilesSound, Single, OneModel
  <1>11. Single'
    <2>1. ASSUME ~shared, run.started
          PROVE  OneModel'
      BY <1>1, <1>2, <1>4, <1>6, <1>9, <1>10, <2>1 DEF OneModel
    <2>2. ASSUME ~shared, NEW c \in Baselines, base'[c].step \in {"checked", "verified"}
          PROVE  FALSE
      BY <1>2, <1>9, <2>2 DEF FilesSound, Single
    <2> QED
      BY <1>1, <1>2, <1>6, <1>9, <2>1, <2>2 DEF FilesSound, Single
  <1>12. SinceBegin'
    <2>1. data \in Nat
      BY BoundsAssumption DEF FilesSound, FilesTyped
    <2> QED
      BY <1>1, <1>2, <1>4, <1>6, <1>9, <2>1 DEF FilesSound, SinceBegin, Between
  <1> QED
    BY <1>7, <1>8, <1>11, <1>12 DEF FilesSound

\* A command writes thresholds or an evaluation, in a baseline or by itself,
\* which changes nothing that the weights or the data are traced by.
LEMMA ReportStep ==
    ASSUME FilesSound, FilesTyped', StepsTaken',
           UNCHANGED <<data, lines, meta, package, disturbed, shared, evidence>>,
           run'.started = run.started, run'.model = run.model, run'.validation = run.validation,
           run'.test = run.test, run'.summary = run.summary,
           run = EmptyRun => run' = EmptyRun,
           \/ base' = base
           \/ \E b \in Baselines, to \in {"calibrated", "evaluated"} :
                 Advance(b, "validated", to) \/ Advance(b, "tested", to)
    PROVE  FilesSound'
  <1>1. \A b \in Baselines :
           \/ base'[b] = base[b]
           \/ /\ base[b].step \in Trained /\ base'[b].step \in Trained \ {"packaged"}
              /\ base'[b].weights = base[b].weights /\ base'[b].entries = base[b].entries
    <2>1. CASE base' = base
      BY <2>1
    <2>2. ASSUME NEW b \in Baselines, NEW to \in {"calibrated", "evaluated"},
                 Advance(b, "validated", to) \/ Advance(b, "tested", to)
          PROVE  \A c \in Baselines :
                    \/ base'[c] = base[c]
                    \/ /\ base[c].step \in Trained /\ base'[c].step \in Trained \ {"packaged"}
                       /\ base'[c].weights = base[c].weights /\ base'[c].entries = base[c].entries
      BY <2>2, Advancing DEF Steps, Trained
    <2> QED
      BY <2>1, <2>2
  <1>2. \A b \in Baselines :
           /\ base'[b].step # "rest" <=> base[b].step # "rest"
           /\ base'[b].step \in {"checked", "verified", "started", "packaged"} => base'[b] = base[b]
           /\ base'[b].step \in Trained =>
                 base[b].step \in Trained /\ base'[b].weights = base[b].weights
    BY <1>1 DEF Trained
  <1>3. OneModel => OneModel'
    BY <1>2 DEF OneModel
  <1>4. Single'
    BY <1>2, <1>3 DEF FilesSound, Single
  <1>5. SinceBegin'
    BY <1>2 DEF FilesSound, SinceBegin, Between
  <1> QED
    BY <1>4, <1>5 DEF FilesSound, EvidenceSound

\* A calibration.
LEMMA CalibrateLemma ==
    ASSUME FilesSound, Recalibrate \/ \E b \in Baselines : CalibrateStep(b)
    PROVE  FilesSound'
  <1> DEFINE v == Thresholds
  <1>1. /\ stamp' = stamp + 1 /\ stamp \in Nat /\ stamp' \in 1 .. MaxStamp
        /\ run.validation # None
        /\ UNCHANGED <<data, lines, meta, package, disturbed, shared, evidence>>
        /\ run' = [run EXCEPT !.thresholds = v]
        /\ base' = base \/ \E b \in Baselines : Advance(b, "validated", "calibrated")
    BY StampedNext DEF CalibrateStep, Recalibrate, Made
  <1>2. run \in RunDirs /\ run.validation \in PredictionFiles
    BY <1>1 DEF FilesSound, FilesTyped, RunDirs
  <1>3. v \in ThresholdFiles /\ v.at = stamp'
    BY <1>1, <1>2 DEF Thresholds, ThresholdFiles
  <1> HIDE DEF v
  <1>4. /\ run' \in RunDirs /\ run'.started = run.started /\ run'.model = run.model
        /\ run'.validation = run.validation /\ run'.thresholds = v /\ run'.test = run.test
        /\ run'.evaluation = run.evaluation /\ run'.summary = run.summary
    BY <1>1, <1>2, <1>3 DEF RunDirs
  <1>5. run # EmptyRun
    BY <1>1, EmptyFields
  <1>6. /\ base' \in [Baselines -> BaseRecords]
        /\ \A c \in Baselines :
              \/ base'[c] = base[c]
              \/ /\ base[c].step = "validated" /\ base'[c].step = "calibrated"
                 /\ base'[c].weights = base[c].weights /\ base'[c].entries = base[c].entries
    <2>1. CASE base' = base
      BY <2>1 DEF FilesSound, FilesTyped
    <2>2. CASE \E b \in Baselines : Advance(b, "validated", "calibrated")
      BY <2>2, Advancing DEF Steps
    <2> QED
      BY <1>1, <2>1, <2>2
  <1>7. FilesTyped'
    BY <1>1, <1>4, <1>6, BoundsAssumption DEF FilesSound, FilesTyped
  <1>8. StepsTaken'
    BY <1>1, <1>3, <1>4, <1>6 DEF FilesSound, StepsTaken, Trained
  <1> QED
    BY <1>1, <1>4, <1>5, <1>7, <1>8, ReportStep

\* An evaluation.
LEMMA EvaluateLemma ==
    ASSUME FilesSound, Reevaluate \/ \E b \in Baselines : EvaluateStep(b)
    PROVE  FilesSound'
  <1> DEFINE v == Evaluation
  <1>1. /\ stamp' = stamp + 1 /\ stamp \in Nat /\ stamp' \in 1 .. MaxStamp /\ Covered
        /\ UNCHANGED <<data, lines, meta, package, disturbed, shared, evidence>>
        /\ run' = [run EXCEPT !.evaluation = v]
        /\ base' = base \/ \E b \in Baselines : Advance(b, "tested", "evaluated")
    BY StampedNext DEF EvaluateStep, Reevaluate, Made
  <1>2. /\ run \in RunDirs /\ run.test # None /\ run.test \in PredictionFiles
        /\ run.thresholds # None /\ run.thresholds \in ThresholdFiles
        /\ meta \in ManifestFiles
    BY <1>1 DEF Covered, FilesSound, FilesTyped, RunDirs
  <1>3. v \in EvaluationFiles /\ v.at = stamp' /\ v.thresholds = run.thresholds
    BY <1>1, <1>2 DEF Evaluation, EvaluationFiles
  <1> HIDE DEF v
  <1>4. /\ run' \in RunDirs /\ run'.started = run.started /\ run'.model = run.model
        /\ run'.validation = run.validation /\ run'.thresholds = run.thresholds
        /\ run'.test = run.test /\ run'.evaluation = v /\ run'.summary = run.summary
    BY <1>1, <1>2, <1>3 DEF RunDirs
  <1>5. run # EmptyRun
    BY <1>2, EmptyFields
  <1>6. /\ base' \in [Baselines -> BaseRecords]
        /\ \A c \in Baselines :
              \/ base'[c] = base[c]
              \/ /\ base[c].step = "tested" /\ base'[c].step = "evaluated"
                 /\ base'[c].weights = base[c].weights /\ base'[c].entries = base[c].entries
    <2>1. CASE base' = base
      BY <2>1 DEF FilesSound, FilesTyped
    <2>2. CASE \E b \in Baselines : Advance(b, "tested", "evaluated")
      BY <2>2, Advancing DEF Steps
    <2> QED
      BY <1>1, <2>1, <2>2
  <1>7. FilesTyped'
    BY <1>1, <1>4, <1>6, BoundsAssumption DEF FilesSound, FilesTyped
  <1>8. StepsTaken'
    BY <1>1, <1>2, <1>3, <1>4, <1>6, ThresholdStamp DEF FilesSound, StepsTaken, Trained
  <1> QED
    BY <1>1, <1>4, <1>5, <1>7, <1>8, ReportStep

\* The package is built from the run directory as it lies there.
LEMMA BuildStep ==
    ASSUME FilesSound, NEW b \in Baselines, BuildPackage(b)
    PROVE  FilesSound'
  <1>1. /\ stamp' = stamp + 1 /\ stamp \in Nat /\ stamp' \in 1 .. MaxStamp
        /\ Advance(b, "evaluated", "packaged")
        /\ run.model # None /\ run.thresholds # None /\ run.evaluation # None
        /\ package' = [model |-> run.model, thresholds |-> run.thresholds,
                       evaluation |-> run.evaluation, meta |-> meta, at |-> stamp']
        /\ UNCHANGED <<data, lines, meta, run, disturbed, shared, evidence>>
    BY StampedNext DEF BuildPackage
  <1>2. /\ base[b].step = "evaluated" /\ base' \in [Baselines -> BaseRecords]
        /\ base'[b].step = "packaged"
        /\ base'[b].weights = base[b].weights /\ base'[b].entries = base[b].entries
        /\ \A c \in Baselines \ {b} : base'[c] = base[c]
    BY <1>1, Advancing DEF Steps
  <1>3. /\ run.model \in Weights /\ run.thresholds \in ThresholdFiles
        /\ run.evaluation \in EvaluationFiles /\ meta \in ManifestFiles
    BY <1>1, <1>2 DEF FilesSound, StepsTaken, FilesTyped, RunDirs
  <1>4. package' \in PackageDirs /\ package'.model = run.model
    BY <1>1, <1>3 DEF PackageDirs
  <1>5. FilesTyped'
    BY <1>1, <1>2, <1>4, BoundsAssumption DEF FilesSound, FilesTyped
  <1>6. StepsTaken' /\ EvidenceSound'
    BY <1>1, <1>2, ThresholdStamp DEF FilesSound, StepsTaken, Trained, EvidenceSound
  <1>7. Single'
    BY <1>1, <1>2, <1>4 DEF FilesSound, Single, OneModel, Trained
  <1>8. SinceBegin'
    BY <1>1, <1>2 DEF FilesSound, SinceBegin, Between
  <1> QED
    BY <1>5, <1>6, <1>7, <1>8 DEF FilesSound

\* What is left of a baseline that has ended.
LEMMA EndStep ==
    ASSUME FilesSound, NEW b \in Baselines, base[b].step # "rest", Ended(b),
           FilesTyped', EvidenceSound',
           UNCHANGED <<data, lines, meta, package, stamp, disturbed, shared>>,
           run'.started = run.started, run'.model = run.model, run'.validation = run.validation,
           run'.test = run.test, run'.thresholds = run.thresholds,
           run'.evaluation = run.evaluation,
           ~shared /\ run.started /\ run'.summary # run.summary =>
              run.model # None /\ run'.summary.package.model = run.model
    PROVE  FilesSound'
  <1>1. base'[b].step = "rest" /\ \A c \in Baselines \ {b} : base'[c] = base[c]
    BY Ending
  <1>2. StepsTaken'
    BY <1>1 DEF FilesSound, StepsTaken, Trained
  <1>3. ~shared => \A c \in Baselines : base'[c].step = "rest"
    BY <1>1 DEF FilesSound, Single
  <1>4. Single'
    <2>1. ASSUME ~shared, run.started
          PROVE  OneModel'
      BY <1>3, <2>1 DEF FilesSound, Single, OneModel, Trained
    <2> QED
      BY <1>3, <2>1 DEF Single
  <1>5. SinceBegin'
    BY <1>1 DEF FilesSound, SinceBegin, Between
  <1> QED
    BY <1>2, <1>4, <1>5 DEF FilesSound

\* The summary names the package as it lies there.
LEMMA SummarizeStep ==
    ASSUME FilesSound, NEW b \in Baselines, Summarize(b)
    PROVE  FilesSound'
  <1> DEFINE v == [package |-> package, of |-> package.meta.of, at |-> package.at]
  <1>1. /\ base[b].step = "packaged" /\ Ended(b) /\ package # None
        /\ run' = [run EXCEPT !.summary = v]
        /\ UNCHANGED <<data, lines, meta, package, stamp, disturbed, shared, evidence>>
    BY DEF Summarize, At
  <1>2. package \in PackageDirs
    BY <1>1 DEF FilesSound, FilesTyped
  <1>3. v \in Summaries /\ v.package = package
    BY <1>2 DEF Summaries, PackageDirs, ManifestFiles
  <1> HIDE DEF v
  <1>4. /\ run' \in RunDirs /\ run'.started = run.started /\ run'.model = run.model
        /\ run'.validation = run.validation
        /\ run'.thresholds = run.thresholds /\ run'.test = run.test
        /\ run'.evaluation = run.evaluation /\ run'.summary = v
    BY <1>1, <1>3 DEF FilesSound, FilesTyped, RunDirs
  <1>5. FilesTyped' /\ EvidenceSound'
    BY <1>1, <1>4, Ending DEF FilesSound, FilesTyped, EvidenceSound
  <1>6. ~shared /\ run.started => package.model = run.model /\ run.model # None
    <2>1. ~shared /\ run.started => package.model = run.model
      BY <1>1 DEF FilesSound, Single, OneModel
    <2>2. package.model \in Weights
      BY <1>2 DEF PackageDirs
    <2> QED
      BY <2>1, <2>2, ArtifactsExist
  <1> QED
    BY <1>1, <1>3, <1>4, <1>5, <1>6, EndStep

\* What stops or is removed leaves nothing behind that could be mistaken.
LEMMA StopStep ==
    ASSUME FilesSound, Remove \/ \E b \in Baselines : Stop(b)
    PROVE  FilesSound'
  <1>1. ASSUME NEW b \in Baselines, Stop(b)
        PROVE  FilesSound'
    <2>1. /\ base[b].step # "rest" /\ Ended(b)
          /\ UNCHANGED <<data, lines, meta, run, package, stamp, disturbed, shared, evidence>>
      BY <1>1 DEF Stop, At
    <2>2. FilesTyped' /\ EvidenceSound'
      BY <2>1, Ending DEF FilesSound, FilesTyped, EvidenceSound
    <2> QED
      BY <2>1, <2>2, EndStep
  <1>2. CASE Remove
    <2>1. /\ UNCHANGED <<data, lines, meta, base, stamp, disturbed, shared, evidence>>
          /\ \/ run' = EmptyRun /\ package' = package
             \/ run' = run /\ package' = None
      BY <1>2 DEF Remove
    <2>2. FilesTyped'
      BY <2>1, EmptyFields DEF FilesSound, FilesTyped
    <2>3. StepsTaken' /\ EvidenceSound'
      BY <2>1, EmptyFields DEF FilesSound, StepsTaken, EvidenceSound
    <2>4. Single'
      BY <2>1, EmptyFields DEF FilesSound, Single, OneModel
    <2>5. SinceBegin'
      BY <2>1, EmptyFields DEF FilesSound, SinceBegin, Between
    <2> QED
      BY <2>2, <2>3, <2>4, <2>5 DEF FilesSound
  <1> QED
    BY <1>1, <1>2

\* The three ways to write a qualification package.
LEMMA QualifyStep ==
    ASSUME FilesSound, Qualify
    PROVE  FilesSound'
  <1> DEFINE Possible == Arguments(1 .. MaxStamp, 1 .. MaxData)
  <1>1. ASSUME NEW a \in Possible, Writes(a),
               a.source = "CUSTOMER_PILOT" => a.metrics = Absent
        PROVE  FilesSound'
    <2>1. PICK intact \in BOOLEAN : evidence' = [arguments |-> a, intact |-> intact, at |-> 1]
      BY <1>1 DEF Writes
    <2>2. UNCHANGED <<data, lines, meta, run, package, base, stamp, disturbed, shared>>
      BY <1>1 DEF Writes
    <2>3. EvidenceSound'
      BY <1>1, <2>1 DEF EvidenceSound
    <2> QED
      BY <2>2, <2>3 DEF FilesSound, FilesTyped, StepsTaken, Single, OneModel, SinceBegin,
         Between
  <1>2. CASE QualifyRun
    <2>1. /\ package \in PackageDirs /\ meta \in ManifestFiles
      BY <1>2 DEF QualifyRun, Accepted, ManifestVerifies, FilesSound, FilesTyped
    <2>2. package.at \in 1 .. MaxStamp /\ meta.of \in 1 .. MaxData
      BY <2>1 DEF PackageDirs, ManifestFiles
    <2>3. PICK results \in [Metrics -> {"MET", "MISSED"}] :
             Writes([source |-> "OFFICIAL_BENCHMARK", metrics |-> results, sha |-> package.at,
                     split |-> TRUE, files |-> TRUE, receipt |-> TRUE, dataset |-> meta.of,
                     consent |-> Absent])
      BY <1>2 DEF QualifyRun
    <2>4. [source |-> "OFFICIAL_BENCHMARK", metrics |-> results, sha |-> package.at,
           split |-> TRUE, files |-> TRUE, receipt |-> TRUE, dataset |-> meta.of,
           consent |-> Absent] \in Possible
      BY <2>2 DEF Arguments, Sources
    <2> QED
      BY <1>1, <2>3, <2>4
  <1>3. CASE QualifyDirectory
    <2>1. data \in 1 .. MaxData
      BY DEF FilesSound, FilesTyped
    <2>2. [source |-> "OFFICIAL_BENCHMARK", metrics |-> Absent, sha |-> Absent,
           split |-> TRUE, files |-> FALSE, receipt |-> TRUE, dataset |-> data,
           consent |-> Absent] \in Possible
      BY <2>1 DEF Arguments, Sources
    <2> QED
      BY <1>1, <1>3, <2>2 DEF QualifyDirectory
  <1>4. ASSUME NEW s \in Sources, NEW c \in {TRUE, FALSE, Absent}, QualifyBare(s, c)
        PROVE  FilesSound'
    <2>1. [source |-> s, metrics |-> Absent, sha |-> Absent, split |-> FALSE,
           files |-> FALSE, receipt |-> FALSE, dataset |-> Absent, consent |-> c] \in Possible
      BY DEF Arguments
    <2> QED
      BY <1>1, <1>4, <2>1 DEF QualifyBare
  <1> QED
    BY <1>2, <1>3, <1>4 DEF Qualify

\* Every command keeps the files coherent.
LEMMA PipelineStep ==
    ASSUME PipelineInvariant, [PipelineNext]_pipelineVars
    PROVE  PipelineInvariant'
  <1>1. FilesSound /\ outside \in 0 .. MaxOutside
    BY DEF PipelineInvariant, FilesSound
  <1>2. FilesSound'
    <2>1. CASE UNCHANGED pipelineVars
      BY <1>1, <2>1 DEF pipelineVars, FilesSound, FilesTyped, StepsTaken, Single, OneModel, SinceBegin,
                        Between, EvidenceSound
    <2>2. CASE BaselineNext
      BY <1>1, <2>2, BeginStep, StartStep, FitStep, ReloadStep, PredictStep, CalibrateLemma,
         EvaluateLemma, BuildStep, SummarizeStep, StopStep DEF BaselineNext
    <2>3. CASE WriteMeta \/ Qualify
      BY <1>1, <2>3, ManifestStep, QualifyStep
    <2>4. CASE Intervention
      BY <1>1, <2>4, ManifestStep, CalibrateLemma, EvaluateLemma, StopStep DEF Intervention
    <2> QED
      BY <2>1, <2>2, <2>3, <2>4 DEF PipelineNext
  <1>3. outside' \in 0 .. MaxOutside
    BY <1>1, BoundsAssumption DEF PipelineNext, pipelineVars
  <1> QED
    BY <1>2, <1>3 DEF PipelineInvariant, FilesSound

\* The inductive invariant of the pipeline's files, whatever other commands
\* run in between, other baselines on the same run directory among them.
THEOREM PipelineInvariantHolds == PipelineSpec => []PipelineInvariant
  <1> QED
    BY PipelineInitSound, PipelineStep, PTL DEF PipelineSpec

LEMMA PipelineIsTyped == PipelineInvariant => PipelineTypeOK
  <1> SUFFICES ASSUME PipelineInvariant PROVE PipelineTypeOK
    OBVIOUS
  <1>1. FilesTyped /\ outside \in 0 .. MaxOutside
    BY DEF PipelineInvariant
  <1>2. /\ run \in RunDirs /\ base \in [Baselines -> BaseRecords]
        /\ \A b \in Baselines : base[b] \in BaseRecords
    BY <1>1 DEF FilesTyped
  <1>3. \A m \in ({lines, meta} \cup {base[b].entries : b \in Baselines}) \ {None} :
          m \in [of : 1 .. MaxData, split : Splits, at : 1 .. MaxStamp]
    BY <1>1, <1>2 DEF FilesTyped, ManifestFiles, BaseRecords
  <1>4. DOMAIN run = DOMAIN EmptyRun
    BY <1>2 DEF RunDirs, EmptyRun
  <1>5. \A w \in ({run.model} \cup {base[b].weights : b \in Baselines}) \ {None} :
          w \in [data : 1 .. MaxData, split : Splits, at : 1 .. MaxStamp]
    BY <1>2 DEF RunDirs, Weights, BaseRecords
  <1>6. \A p \in {run.validation, run.test} \ {None} :
          /\ DOMAIN p = {"model", "split", "data", "at"}
          /\ p.split \in Splits /\ p.data \in 1 .. MaxData
    BY <1>2 DEF RunDirs, PredictionFiles
  <1>7. DOMAIN base = Baselines /\ \A b \in Baselines : base[b].step \in Steps
    BY <1>2 DEF BaseRecords
  <1>8. evidence = None \/ evidence.arguments \in Arguments(1 .. MaxStamp, 1 .. MaxData)
    BY DEF PipelineInvariant, EvidenceSound
  <1> QED
    BY <1>1, <1>3, <1>4, <1>5, <1>6, <1>7, <1>8 DEF PipelineTypeOK, FilesTyped

\* The files and the baselines of the pipeline keep their types.
THEOREM PipelineTypeHolds == PipelineSpec => []PipelineTypeOK
  BY PipelineInvariantHolds, PipelineIsTyped, PTL

LEMMA PipelineIsCoherent == PipelineInvariant => QualifiedIsCoherent
  <1> SUFFICES ASSUME PipelineInvariant, Accepted PROVE QualifiedIsCoherent
    BY DEF QualifiedIsCoherent
  <1>1. /\ run.started /\ run.summary # None /\ package # None
        /\ run.summary.package = package
        /\ run.validation # None /\ run.test # None /\ run.thresholds # None
        /\ run.evaluation # None /\ run.evaluation.thresholds = run.thresholds
        /\ lines # None /\ lines.of = data /\ meta.of = lines.of /\ meta.split = lines.split
    BY DEF Accepted, ManifestVerifies
  <1>2. run.thresholds.at < run.evaluation.at
    BY <1>1 DEF PipelineInvariant, StepsTaken
  <1>3. ASSUME ~shared
        PROVE  /\ run.model # None /\ package.model = run.model
               /\ run.validation.model = package.model /\ run.test.model = package.model
    BY <1>1, <1>3 DEF PipelineInvariant, Single, OneModel
  <1>4. ASSUME ~shared, ~disturbed
        PROVE  /\ package.model.data = meta.of /\ package.model.split = meta.split
               /\ run.validation.data = meta.of /\ run.test.data = meta.of
    <2>1. data \in Nat
      BY BoundsAssumption DEF PipelineInvariant, FilesTyped
    <2>2. run.model.data \in Nat /\ run.validation.data \in Nat /\ run.test.data \in Nat
      BY <1>1, <1>3, <1>4 DEF PipelineInvariant, FilesTyped, RunDirs, Weights, PredictionFiles
    <2> QED
      BY <1>1, <1>3, <1>4, <2>1, <2>2 DEF PipelineInvariant, SinceBegin, Between
  <1> QED
    BY <1>2, <1>3, <1>4 DEF QualifiedIsCoherent

\* A run that the qualification accepts is evaluated with its own thresholds,
\* scored and packaged with one model unless baselines shared its directory,
\* and then undisturbed it is one of the dataset of its manifest.
THEOREM QualifiedIsCoherentHolds == PipelineSpec => []QualifiedIsCoherent
  BY PipelineInvariantHolds, PipelineIsCoherent, PTL

(* The tool writes gates into every core.                                  *)
LEMMA CoresHaveGates ==
    ASSUME NEW a, a.source \in Sources
    PROVE  CoreGates(Core(a)) = Core(a).gates
  <1> DEFINE decision == GateDecision(a)
             report == ReportStatus(a.source, decision)
             gates == [decision |-> decision, checks |-> Checks(a), report |-> report]
  <1>1. Core(a).gates = gates
    BY DEF Core
  <1>2. decision \in Decisions
    BY DEF GateDecision, Decisions
  <1>3. report \in {ReportStatus(s, d) : s \in Sources, d \in Decisions}
    BY <1>2
  <1>4. Checks(a) \in [Metrics \cup Integrity ->
                        {"PASS", "FAIL", "NOT_APPLICABLE", "INSUFFICIENT_EVIDENCE"}]
    BY DEF Checks, Graded
  <1> HIDE DEF decision, report
  <1>5. gates # Absent
    BY <1>2, <1>3, <1>4, AbsentAssumption DEF Gates
  <1> QED
    BY <1>1, <1>5 DEF CoreGates

(* A package as it is written, whatever then happens to its files, is      *)
(* accepted by the tool exactly if it is intact, and by the backend if it  *)
(* also has the consent its source needs.                                  *)
LEMMA PackagesVerify ==
    ASSUME NEW a, a.source \in Sources, NEW intact \in BOOLEAN
    PROVE  LET p == [Package(a) EXCEPT !.intact = intact]
           IN  /\ VerifiedByTool(p, a.sha) = intact
               /\ VerifiedByBackend(p, a.sha) =
                    (intact /\ (a.source = "CUSTOMER_PILOT" => a.consent = TRUE))
  <1> DEFINE p == [Package(a) EXCEPT !.intact = intact]
             core == Core(a)
             decision == GateDecision(a)
             report == ReportStatus(a.source, decision)
             checks == Checks(a)
             approval == ApprovalStatus(a)
             shape == IF a.source = "DEMO_SYNTHETIC" THEN "DEMO_ONLY"
                      ELSE IF Blocked(a) THEN "BLOCKED" ELSE "COMPLETED"
  <1>1. core = [status |-> report,
                gates |-> [decision |-> decision, checks |-> checks, report |-> report],
                source |-> a.source, dataset |-> a.dataset, sha |-> a.sha, consent |-> a.consent,
                run |-> shape]
    BY DEF Core
  <1>2. p = [core |-> core, intact |-> intact,
             release |-> [decision |-> core.status, gate |-> decision, gates |-> core.gates,
                          approval |-> approval,
                          source |-> a.source, dataset |-> a.dataset, sha |-> a.sha,
                          digest |-> core]]
    BY DEF Package
  <1> HIDE DEF p, core, decision, report, checks, approval, shape
  <1>3. /\ core.status = report /\ core.gates.report = report /\ core.gates.decision = decision
        /\ core.source = a.source /\ core.dataset = a.dataset /\ core.sha = a.sha
        /\ core.consent = a.consent
    BY <1>1
  <1>9. CoreGates(core) = core.gates
    BY CoresHaveGates DEF core
  <1>4. /\ p.core = core /\ p.intact = intact /\ p.release.digest = core
        /\ p.release.decision = core.status /\ p.release.sha = a.sha
        /\ p.release.source = a.source /\ p.release.dataset = a.dataset
    BY <1>2
  <1>5. Consistent(p) <=> intact
    BY <1>3, <1>4 DEF Consistent
  <1>6. VerifiedByTool(p, a.sha) <=> intact
    BY <1>3, <1>4, <1>5, <1>9 DEF VerifiedByTool
  <1>7. VerifiedByBackend(p, a.sha) <=>
            (intact /\ (a.source = "CUSTOMER_PILOT" => a.consent = TRUE))
    BY <1>3, <1>4, <1>5, <1>9 DEF VerifiedByBackend
  <1>8. /\ VerifiedByTool(p, a.sha) \in BOOLEAN /\ VerifiedByBackend(p, a.sha) \in BOOLEAN
    BY DEF VerifiedByTool, VerifiedByBackend
  <1> QED
    BY <1>6, <1>7, <1>8, Zenon DEF p

(* Evidence without measurements is never put up for approval.             *)
LEMMA UnmeasuredIsDraft ==
    ASSUME NEW a, a.source = "CUSTOMER_PILOT" => a.metrics = Absent
    PROVE  ApprovalStatus(a) # "PENDING_APPROVAL"
  <1>1. CASE a.source = "CUSTOMER_PILOT"
    <2>1. GateDecision(a) = "INSUFFICIENT_EVIDENCE"
      BY <1>1 DEF GateDecision, Complete
    <2> QED
      BY <1>1, <2>1 DEF ApprovalStatus
  <1>2. CASE a.source # "CUSTOMER_PILOT"
    BY <1>2 DEF ApprovalStatus
  <1> QED
    BY <1>1, <1>2

LEMMA PipelineWritesVerified == PipelineInvariant => WrittenIsVerified
  <1> SUFFICES ASSUME PipelineInvariant, evidence # None PROVE WrittenIsVerified
    BY DEF WrittenIsVerified
  <1> DEFINE a == evidence.arguments
  <1>1. /\ a.source \in Sources /\ evidence.intact \in BOOLEAN
        /\ a.source = "CUSTOMER_PILOT" => a.metrics = Absent
    BY DEF PipelineInvariant, EvidenceSound, Arguments
  <1>2. ApprovalStatus(a) # "PENDING_APPROVAL"
    BY <1>1, UnmeasuredIsDraft
  <1>3. LET p == [Package(a) EXCEPT !.intact = evidence.intact]
        IN  /\ VerifiedByTool(p, a.sha) = evidence.intact
            /\ VerifiedByBackend(p, a.sha) =
                 (evidence.intact /\ (a.source = "CUSTOMER_PILOT" => a.consent = TRUE))
    BY <1>1, PackagesVerify
  <1> HIDE DEF a
  <1> QED
    BY <1>2, <1>3, Zenon DEF WrittenIsVerified, a

\* A written package verifies while it is intact, and is never up for approval.
THEOREM WrittenIsVerifiedHolds == PipelineSpec => []WrittenIsVerified
  BY PipelineInvariantHolds, PipelineWritesVerified, PTL

-----------------------------------------------------------------------------
(* The calibration. The candidates are the scores, their midpoints and the *)
(* ends of the scale.                                                      *)

\* A set of naturals that is not empty has a least element.
LEMMA LeastExists ==
    ASSUME NEW S \in SUBSET Nat, S # {}
    PROVE  \E x \in S : \A y \in S : x <= y
  <1> DEFINE R == OpToRel(<, Nat)
  <1>1. IsWellFoundedOn(R, Nat)
    BY NatLessThanWellFounded
  <1>2. R = {ss \in Nat \X Nat : ss[1] < ss[2]}
    BY DEF OpToRel
  <1> HIDE DEF R
  <1>3. PICK x \in S : \A y \in S : ~(<<y, x>> \in R)
    BY <1>1, WFMin
  <1>4. \A m, n \in Nat : m < n => <<m, n>> \in R
    BY <1>2
  <1>5. \A y \in S : y \in Nat
    OBVIOUS
  <1>6. ASSUME NEW y \in S PROVE x <= y
    <2>1. ~(y < x)
      BY <1>3, <1>4, <1>5
    <2> QED
      BY <2>1, <1>5
  <1> QED
    BY <1>6

\* A bounded one has a greatest, and Max and Min choose the two.
LEMMA GreatestOf ==
    ASSUME NEW S \in SUBSET Nat, S # {}, NEW b \in Nat, \A y \in S : y <= b
    PROVE  Max(S) \in S /\ \A y \in S : Max(S) >= y
  <1> DEFINE T == {b - y : y \in S}
  <1>1. T \in SUBSET Nat
    OBVIOUS
  <1>0. PICK s \in S : TRUE
    OBVIOUS
  <1>5. T # {}
    <2>1. b - s \in T
      OBVIOUS
    <2> QED
      BY <2>1
  <1>2. PICK m \in T : \A n \in T : m <= n
    BY <1>1, <1>5, LeastExists
  <1>3. PICK x \in S : m = b - x
    OBVIOUS
  <1>4. ASSUME NEW y \in S PROVE x >= y
    <2>1. b - y \in T
      OBVIOUS
    <2>2. m <= b - y
      BY <2>1, <1>2
    <2> QED
      BY <2>2, <1>3
  <1> QED
    BY <1>4 DEF Max

LEMMA LeastOf ==
    ASSUME NEW S \in SUBSET Nat, S # {}
    PROVE  Min(S) \in S /\ \A y \in S : Min(S) <= y
  BY LeastExists DEF Min

\* Multiplication by a natural number is monotonic.
LEMMA TimesIsMonotonic ==
    ASSUME NEW a \in Nat, NEW b \in Nat, NEW c \in Nat, a <= b
    PROVE  a * c <= b * c /\ a * c \in Nat
  OBVIOUS

\* The scores are finitely many multiples of four on the scale.
LEMMA ScoresAreFinite ==
    /\ IsFiniteSet(Scores)
    /\ \A x \in Scores : x \in Nat /\ x <= One /\ \E k \in 0 .. Grid : x = 4 * k
    /\ One \in Nat /\ One >= 4
  <1>1. One \in Nat /\ One >= 4
    BY GridAssumption DEF One
  <1>2. \A x \in Scores : x \in Nat /\ x <= One /\ \E k \in 0 .. Grid : x = 4 * k
    BY GridAssumption DEF Scores, One
  <1>3. Scores \in SUBSET Nat
    BY <1>2
  <1> QED
    BY <1>1, <1>2, <1>3, FS_BoundedSetOfNaturals

\* The scores and the settings of a sample.
LEMMA SampleFields ==
    ASSUME NEW s \in Samples
    PROVE  /\ s.bad \subseteq Scores \X {1, 2} /\ s.bad # {} /\ IsFiniteSet(s.bad)
           /\ \A b \in s.bad : b[1] \in Scores
           /\ s.good \subseteq Scores /\ AllScores(s) \subseteq Scores
           /\ s.limit[1] \in Nat /\ s.limit[2] \in Nat /\ s.limit[2] > 0
           /\ s.margin \in Nat
           /\ Cardinality(s.bad) \in Nat /\ Cardinality(s.bad) > 0
  <1>1. s.bad \subseteq Scores \X {1, 2} /\ s.bad # {} /\ s.good \subseteq Scores
    BY DEF Samples
  <1>2. IsFiniteSet({1, 2})
    <2>1. IsFiniteSet({1} \cup {2})
      BY FS_Singleton, FS_AddElement
    <2>2. {1} \cup {2} = {1, 2}
      OBVIOUS
    <2> QED
      BY <2>1, <2>2
  <1>3. IsFiniteSet(s.bad)
    BY <1>1, <1>2, ScoresAreFinite, FS_Product, FS_Subset
  <1>4. \A b \in s.bad : b[1] \in Scores
    BY <1>1
  <1>5. AllScores(s) \subseteq Scores
    BY <1>1, <1>4 DEF AllScores
  <1>6. s.limit \in Nat \X (Nat \ {0}) /\ s.margin \in Nat
    BY SettingsAssumption DEF Samples
  <1>7. Cardinality(s.bad) \in Nat /\ Cardinality(s.bad) > 0
    BY <1>1, <1>3, FS_CardinalityType, FS_EmptySet
  <1> QED
    BY <1>1, <1>3, <1>4, <1>5, <1>6, <1>7

\* A higher threshold has no fewer anomalies below it.
LEMMA BelowIsMonotonic ==
    ASSUME NEW s \in Samples, NEW t \in Nat, NEW u \in Nat, t <= u
    PROVE  /\ Below(s, t) \in Nat /\ Below(s, u) \in Nat
           /\ Below(s, t) <= Below(s, u) /\ Below(s, u) <= Cardinality(s.bad)
  <1> DEFINE T == {b \in s.bad : b[1] < t}
             U == {b \in s.bad : b[1] < u}
  <1>1. \A b \in s.bad : b[1] \in Nat
    BY SampleFields, ScoresAreFinite
  <1>2. T \in SUBSET U /\ U \in SUBSET s.bad
    BY <1>1
  <1>3. IsFiniteSet(U) /\ Cardinality(U) <= Cardinality(s.bad)
    BY <1>2, SampleFields, FS_Subset
  <1>4. IsFiniteSet(T) /\ Cardinality(T) <= Cardinality(U)
    BY <1>2, <1>3, FS_Subset
  <1>5. Cardinality(T) \in Nat /\ Cardinality(U) \in Nat
    BY <1>3, <1>4, FS_CardinalityType
  <1> QED
    BY <1>3, <1>4, <1>5 DEF Below

\* The candidates lie on the scale, and its two ends are among them.
LEMMA CandidatesOnScale ==
    ASSUME NEW s \in Samples
    PROVE  /\ Candidates(s) \subseteq 0 .. One /\ 0 \in Candidates(s) /\ One \in Candidates(s)
  <1>1. \A x \in AllScores(s) : x \in 0 .. One
    BY SampleFields, ScoresAreFinite
  <1>2. \A x, y \in 0 .. One : (x + y) \div 2 \in 0 .. One
    BY ScoresAreFinite
  <1>3. \A c \in Candidates(s) : c \in {0, One} \/ c \in AllScores(s)
            \/ \E x, y \in AllScores(s) : c = (x + y) \div 2
    BY DEF Candidates, Neighbours
  <1>4. 0 \in Candidates(s) /\ One \in Candidates(s)
    BY DEF Candidates
  <1>5. ASSUME NEW c \in Candidates(s) PROVE c \in 0 .. One
    BY <1>1, <1>2, <1>3, ScoresAreFinite
  <1> QED
    BY <1>4, <1>5

\* The review threshold before the margin is below the end of the scale, and
\* releases few enough.
LEMMA LegacyReviewIsAdmissible ==
    ASSUME NEW s \in Samples
    PROVE  /\ LegacyReview(s) \in Nat /\ LegacyReview(s) < One
           /\ AcceptsFew(s, LegacyReview(s))
           /\ \A c \in Candidates(s) : c < One /\ AcceptsFew(s, c) => c <= LegacyReview(s)
  <1> DEFINE C == {c \in Candidates(s) : c < One /\ AcceptsFew(s, c)} \cup {0}
  <1>1. C \in SUBSET Nat /\ C # {} /\ \A c \in C : c <= One
    BY CandidatesOnScale, ScoresAreFinite
  <1>2. Max(C) \in C /\ \A c \in C : Max(C) >= c
    BY <1>1, GreatestOf, ScoresAreFinite
  <1>3. LegacyReview(s) = Max(C)
    BY DEF LegacyReview
  <1>4. Below(s, 0) = 0
    <2>1. {b \in s.bad : b[1] < 0} = {}
      BY SampleFields, ScoresAreFinite
    <2> QED
      BY <2>1, FS_EmptySet DEF Below
  <1>5. AcceptsFew(s, 0)
    BY <1>4, SampleFields DEF AcceptsFew
  <1> HIDE DEF C
  <1>6. \A c \in C : c \in Nat /\ c < One /\ AcceptsFew(s, c)
    BY <1>1, <1>5, ScoresAreFinite DEF C
  <1>7. \A c \in Candidates(s) : c < One /\ AcceptsFew(s, c) => c \in C
    BY DEF C
  <1>8. \A c \in C : c <= Max(C)
    BY <1>1, <1>2
  <1> QED
    BY <1>2, <1>3, <1>6, <1>7, <1>8

\* The hold threshold before the margin is a candidate above the review threshold.
LEMMA LegacyHoldIsAbove ==
    ASSUME NEW s \in Samples
    PROVE  LegacyHold(s) \in Nat /\ LegacyHold(s) > LegacyReview(s)
  <1> DEFINE above == {c \in Candidates(s) : c > LegacyReview(s)}
             enough == {c \in above : HoldsEnough(s, c)}
  <1>1. above \in SUBSET Nat /\ One \in above /\ \A c \in above : c <= One
    BY CandidatesOnScale, LegacyReviewIsAdmissible, ScoresAreFinite
  <1>2. enough \in SUBSET Nat /\ \A c \in enough : c <= One
    BY <1>1
  <1>3. enough # {} => Max(enough) \in above
    BY <1>2, GreatestOf, ScoresAreFinite
  <1>4. Min(above) \in above
    BY <1>1, LeastOf
  <1>5. LegacyHold(s) \in above
    BY <1>3, <1>4 DEF LegacyHold
  <1> QED
    BY <1>1, <1>5

\* A lowered threshold is no higher than it was.
LEMMA LoweredIsLower ==
    ASSUME NEW t \in Nat, NEW margin \in Nat
    PROVE  Lowered(t, margin) \in Nat /\ Lowered(t, margin) <= t
  BY DEF Lowered

\* The margin lowers both thresholds and keeps their order.
LEMMA HoldIsAbove ==
    ASSUME NEW s \in Samples
    PROVE  /\ Review(s) \in Nat /\ Review(s) <= LegacyReview(s) /\ Hold(s) \in Nat
           /\ Review(s) < Hold(s) /\ Hold(s) <= LegacyHold(s)
  <1>1. Review(s) \in Nat /\ Review(s) <= LegacyReview(s) /\ Review(s) < One
    <2>1. LegacyReview(s) \in Nat /\ LegacyReview(s) < One
      BY LegacyReviewIsAdmissible
    <2>2. Review(s) \in Nat /\ Review(s) <= LegacyReview(s)
      BY <2>1, SampleFields, LoweredIsLower DEF Review
    <2> QED
      BY <2>1, <2>2, ScoresAreFinite
  <1> DEFINE low == Lowered(LegacyHold(s), s.margin)
  <1>2. low \in Nat /\ low <= LegacyHold(s)
    BY LegacyHoldIsAbove, SampleFields, LoweredIsLower
  <1>3. Min({One, Review(s) + 1}) = Review(s) + 1
    <2>1. {One, Review(s) + 1} \in SUBSET Nat
      BY <1>1, ScoresAreFinite
    <2> QED
      BY <2>1, <1>1, LeastOf, ScoresAreFinite
  <1>4. Hold(s) = IF low > Review(s) THEN low ELSE Review(s) + 1
    BY <1>3 DEF Hold
  <1> HIDE DEF low
  <1> QED
    BY <1>1, <1>2, <1>4, LegacyHoldIsAbove, LegacyReviewIsAdmissible

\* Fewer below a threshold are still few enough.
LEMMA FewerAreFew ==
    ASSUME NEW s \in Samples, NEW t \in Nat, NEW u \in Nat, Below(s, t) <= Below(s, u),
           AcceptsFew(s, u)
    PROVE  AcceptsFew(s, t)
  <1>1. Below(s, t) \in Nat /\ Below(s, u) \in Nat
    BY BelowIsMonotonic
  <1>2. Below(s, t) * s.limit[2] <= Below(s, u) * s.limit[2]
    BY <1>1, SampleFields, TimesIsMonotonic
  <1>3. /\ Below(s, t) * s.limit[2] \in Nat /\ Below(s, u) * s.limit[2] \in Nat
        /\ s.limit[1] * Cardinality(s.bad) \in Nat
    BY <1>1, SampleFields, TimesIsMonotonic
  <1> QED
    BY <1>2, <1>3 DEF AcceptsFew

\* The least score above x, and the midpoint between the two.
LEMMA NextCandidate ==
    ASSUME NEW s \in Samples, NEW x \in AllScores(s), NEW w \in AllScores(s), x < w
    PROVE  \E c \in Candidates(s) :
              x < c /\ c < One /\ \A z \in AllScores(s) : z < c => z <= x
  <1> DEFINE above == {z \in AllScores(s) : z > x}
  <1>0. \A z \in AllScores(s) : z \in Nat /\ z <= One /\ \E k \in 0 .. Grid : z = 4 * k
    BY SampleFields, ScoresAreFinite
  <1>1. above \in SUBSET Nat /\ above # {}
    BY <1>0
  <1> DEFINE y == Min(above)
  <1>2. y \in above /\ \A z \in above : y <= z
    BY <1>1, LeastOf
  <1> HIDE DEF y
  <1>3. y \in AllScores(s) /\ x < y /\ \A z \in AllScores(s) : z <= x \/ z >= y
    BY <1>0, <1>2
  <1>4. y >= x + 4
    <2>1. PICK k \in 0 .. Grid : x = 4 * k
      BY <1>0
    <2>2. PICK l \in 0 .. Grid : y = 4 * l
      BY <1>0, <1>3
    <2> QED
      BY <2>1, <2>2, <1>3
  <1> DEFINE c == (x + y) \div 2
  <1>5. c \in Candidates(s)
    <2>1. <<x, y>> \in Neighbours(s)
      BY <1>3 DEF Neighbours
    <2> QED
      BY <2>1 DEF Candidates
  <1>6. x < c /\ c < y
    BY <1>0, <1>3, <1>4
  <1>7. \A z \in AllScores(s) : z < c => z <= x
    <2>1. c \in Nat
      BY <1>0, <1>3
    <2> HIDE DEF c
    <2> QED
      BY <2>1, <1>0, <1>3, <1>6
  <1>8. c < One
    <2>1. c \in Nat /\ y \in Nat /\ y <= One
      BY <1>0, <1>3
    <2> HIDE DEF c
    <2> QED
      BY <2>1, <1>6, ScoresAreFinite
  <1> QED
    BY <1>5, <1>6, <1>7, <1>8

\* No admissible threshold releases an image that the review threshold before
\* the margin holds back.
LEMMA ReviewIsLargest ==
    ASSUME NEW s \in Samples, s.limit[1] < s.limit[2],
           NEW t \in 0 .. One - 1, AcceptsFew(s, t), NEW x \in AllScores(s), x < t
    PROVE  x < LegacyReview(s)
  <1>0. /\ \A z \in AllScores(s) : z \in Nat
        /\ \A b \in s.bad : b[1] \in AllScores(s)
        /\ t \in Nat
    <2>1. t \in Nat
      BY ScoresAreFinite
    <2> QED
      BY <2>1, SampleFields, ScoresAreFinite DEF AllScores
  <1>1. CASE \E w \in AllScores(s) : x < w
    <2>1. PICK c \in Candidates(s) :
             x < c /\ c < One /\ \A z \in AllScores(s) : z < c => z <= x
      BY <1>1, NextCandidate
    <2>2. c \in Nat
      BY CandidatesOnScale, ScoresAreFinite
    <2>3. Below(s, c) <= Below(s, t)
      <3> DEFINE C == {b \in s.bad : b[1] < c}
                 T == {b \in s.bad : b[1] < t}
      <3>1. C \in SUBSET T
        BY <2>1, <2>2, <1>0
      <3>2. IsFiniteSet(T)
        BY SampleFields, FS_Subset
      <3> QED
        BY <3>1, <3>2, FS_Subset DEF Below
    <2>4. AcceptsFew(s, c)
      BY <2>2, <2>3, <1>0, FewerAreFew
    <2> QED
      BY <2>1, <2>2, <2>4, <1>0, LegacyReviewIsAdmissible
  <1>2. CASE \A w \in AllScores(s) : ~(x < w)
    <2>1. {b \in s.bad : b[1] < t} = s.bad
      BY <1>0, <1>2
    <2>2. Cardinality(s.bad) * s.limit[2] <= s.limit[1] * Cardinality(s.bad)
      BY <2>1 DEF AcceptsFew, Below
    <2> QED
      BY <2>2, SampleFields
  <1> QED
    BY <1>1, <1>2

\* What validation promises of the thresholds, for any grid, sample and settings.
THEOREM ThresholdsAreSafe ==
    ASSUME sample \in Samples
    PROVE  CalibrationIsSafe
  <1>1. /\ Below(sample, Review(sample)) <= Below(sample, LegacyReview(sample))
        /\ Below(sample, Hold(sample)) <= Below(sample, LegacyHold(sample))
    BY HoldIsAbove, LegacyHoldIsAbove, LegacyReviewIsAdmissible, BelowIsMonotonic
  <1>2. AcceptsFew(sample, Review(sample))
    BY <1>1, HoldIsAbove, LegacyReviewIsAdmissible, FewerAreFew
  <1>3. sample.limit[1] < sample.limit[2] =>
          \A t \in 0 .. One - 1 :
              AcceptsFew(sample, t) =>
                  \A x \in AllScores(sample) : x < t => x < LegacyReview(sample)
    BY ReviewIsLargest
  <1> QED
    BY <1>1, <1>2, <1>3, HoldIsAbove DEF CalibrationIsSafe

-----------------------------------------------------------------------------
(* The three together: while one runs the others rest.                     *)
MlopsInvariant ==
    /\ RegistryInvariant /\ StaleBounded
    /\ PipelineInvariant
    /\ sample \in Samples

\* The inductive invariant of the three parts.
THEOREM MlopsInvariantHolds == Spec => []MlopsInvariant
  <1>1. Init => MlopsInvariant
    BY RegistryInitSound, BoundedInit, PipelineInitSound
       DEF Init, MlopsInvariant, CalibrationInit
  <1>2. MlopsInvariant /\ [Next]_<<registryVars, pipelineVars, sample>> => MlopsInvariant'
    <2> SUFFICES ASSUME MlopsInvariant, [Next]_<<registryVars, pipelineVars, sample>>
                 PROVE  MlopsInvariant'
      OBVIOUS
    <2>1. /\ [RegistryNext]_registryVars /\ [PipelineNext]_pipelineVars /\ sample' = sample
      BY DEF Next
    <2> QED
      BY <2>1, RegistryStep, BoundedStep, PipelineStep DEF MlopsInvariant
  <1> QED
    BY <1>1, <1>2, PTL DEF Spec

\* The files, the processes and the artifacts keep their types.
THEOREM MlopsTypeHolds == Spec => []MlopsTypeOK
  <1>1. MlopsInvariant => MlopsTypeOK
    BY RegistryIsTyped, PipelineIsTyped DEF MlopsInvariant, MlopsTypeOK
  <1> QED
    BY <1>1, MlopsInvariantHolds, PTL

\* A readable index kept the lifecycle, nothing is lost without an overlap, what
\* is qualified is coherent and verifies, and the thresholds are safe.
THEOREM MlopsIsSafe ==
    Spec => [](/\ ReadableIndexIsSound /\ LossNeedsOverlap
               /\ QualifiedIsCoherent /\ WrittenIsVerified
               /\ CalibrationIsSafe)
  <1>1. RegistryInvariant => ReadableIndexIsSound /\ LossNeedsOverlap
    BY DEF RegistryInvariant, IndexSound, EntrySound, ReadableIndexIsSound, Alone, LossNeedsOverlap
  <1>2. PipelineInvariant => QualifiedIsCoherent /\ WrittenIsVerified
    BY PipelineIsCoherent, PipelineWritesVerified
  <1>3. MlopsInvariant => /\ ReadableIndexIsSound /\ LossNeedsOverlap
                          /\ QualifiedIsCoherent /\ WrittenIsVerified
                          /\ CalibrationIsSafe
    BY <1>1, <1>2, ThresholdsAreSafe DEF MlopsInvariant
  <1> QED
    BY <1>3, MlopsInvariantHolds, PTL

=============================================================================
