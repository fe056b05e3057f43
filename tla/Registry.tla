------------------------------ MODULE Registry ------------------------------
(***************************************************************************)
(* The model registry of the ML package (registry.py): a JSON index that   *)
(* every run of the command line loads, changes in memory and writes back  *)
(* through one temporary file and a rename.  There is no lock, and the     *)
(* temporary file has the same name for every process.                     *)
(***************************************************************************)
EXTENDS Naturals, FiniteSets

CONSTANTS
    Models,     \* versions of one model id
    Attached,   \* those registered with an evidence package
    Actors,
    Processes,
    MaxOverlap, \* bound: no run starts once others completed that many during one
    Torn,       \* a file that is not JSON
    NoFile      \* a file that does not exist

ASSUME AttachedAssumption == Attached \subseteq Models

ASSUME ProcessesAssumption == IsFiniteSet(Processes) /\ MaxOverlap \in Nat

VARIABLES
    file,       \* what the index file holds
    partial,    \* what <index>.partial holds
    proc,       \* the processes
    overlapped, \* history: two processes ran at once
    lost        \* history: a rename threw away what another process had stored

registryVars == <<file, partial, proc, overlapped, lost>>

NoOne == "no one"
Anyone == "anyone"
Statuses == {"ABSENT", "DRAFT", "EVALUATED", "APPROVED", "ACTIVE", "RETIRED"}

(* An entry, with what later operations read of its transitions: who       *)
(* evaluated and approved it and, while it is EVALUATED, the last of them. *)
(* With no evidence attached nobody's name is compared.  "unguarded" is    *)
(* history: approve() had the wrong name, or a padded one, to compare.     *)
Unregistered == [status |-> "ABSENT", evaluator |-> NoOne, approver |-> NoOne,
                 last |-> NoOne, unguarded |-> FALSE]
EmptyIndex == [m \in Models |-> Unregistered]
Resting == [phase |-> "rest", index |-> EmptyIndex, inode |-> "none", stale |-> 0]

RegistryInit ==
    /\ file = EmptyIndex
    /\ partial = NoFile
    /\ proc = [p \in Processes |-> Resting]
    /\ overlapped = FALSE
    /\ lost = FALSE

-----------------------------------------------------------------------------
(* The operations, each on the index of the process that runs it.  Whether *)
(* attached evidence verifies, and as what, is the state of a directory    *)
(* that changes between operations: "go" is a verified decision GO,        *)
(* "pilot" that of a customer pilot that is pending approval.              *)

Moved(x, m, status) == [x EXCEPT ![m].status = status, ![m].last = NoOne]

Name(m, a) == IF m \in Attached THEN a ELSE Anyone

Drafted(x, m) == Moved(x, m, "DRAFT")

Evaluated(x, m, a) ==
    [Moved(x, m, "EVALUATED") EXCEPT ![m].evaluator = Name(m, a), ![m].last = Name(m, a)]

(* Evidence that is not GO adds a DRAFT -> DRAFT transition to an entry of *)
(* any status and leaves the status as it is.                              *)
Reevaluated(x, m, a) ==
    IF x[m].status # "EVALUATED" THEN x
    ELSE [x EXCEPT ![m].last = a, ![m].unguarded = TRUE]

(* The approver's name is compared as given and stored without its blanks. *)
Approved(x, m, a, padded) ==
    [Moved(x, m, "APPROVED") EXCEPT ![m].approver = Name(m, a), ![m].unguarded = @ \/ padded]

\* Variant: the version that was live is not retired.
ActivatedBeside(x, m) == [x EXCEPT ![m].status = "ACTIVE"]

(* Whatever is ACTIVE of the same model id is retired first.               *)
Activated(x, m) ==
    [n \in Models |->
        IF n = m THEN [x[m] EXCEPT !.status = "ACTIVE"]
        ELSE IF x[n].status = "ACTIVE" THEN [x[n] EXCEPT !.status = "RETIRED"] ELSE x[n]]

(* What one run of the command line can make of index x.                   *)
Results(x) ==
    LET In(statuses) == {m \in Models : x[m].status \in statuses}
        Activators(m) == Actors \ (IF m \in Attached THEN {x[m].evaluator, x[m].approver} ELSE {})
    IN
    {Drafted(x, m) : m \in In({"ABSENT"})}
    \cup {Evaluated(x, m, a) : m \in In({"DRAFT"}), a \in Actors}
    \cup {Reevaluated(x, m, a) : m \in Attached \ In({"ABSENT"}), a \in Actors}
    \cup (UNION {{Approved(x, m, a, padded) : padded \in {b \in BOOLEAN : a = x[m].last => b}} :
                    m \in In({"EVALUATED"}), a \in Actors})
    \cup {Activated(x, m) : m \in {n \in In({"APPROVED"}) : Activators(n) # {}}}
    \cup {Moved(x, m, "RETIRED") : m \in In({"APPROVED", "ACTIVE"})}
    \cup {Activated(x, m) : m \in In({"RETIRED", "APPROVED"})}

-----------------------------------------------------------------------------
(* A process loads the index and works on its copy.  An index that is not  *)
(* JSON ends the process at once.                                          *)
Load(p) ==
    /\ proc[p] = Resting
    /\ file # Torn
    /\ \A q \in Processes : proc[q].stale < MaxOverlap
    /\ proc' = [proc EXCEPT ![p] = [Resting EXCEPT !.phase = "loaded", !.index = file]]
    /\ overlapped' = (overlapped \/ \E q \in Processes \ {p} : proc[q] # Resting)
    /\ UNCHANGED <<file, partial, lost>>

\* Variant: write_json writes the index in place.
OpenIndex(p) ==
    /\ proc[p].phase = "loaded"
    /\ Results(proc[p].index) # {}
    /\ file' = Torn
    /\ proc' = [proc EXCEPT ![p].phase = "opened", ![p].inode = "index"]
    /\ UNCHANGED <<partial, overlapped, lost>>

(* write_json opens the temporary file: created, or truncated while        *)
(* another process has it open too.                                        *)
Open(p) ==
    /\ proc[p].phase = "loaded"
    /\ Results(proc[p].index) # {}
    /\ partial' = Torn
    /\ proc' = [proc EXCEPT ![p].phase = "opened", ![p].inode = "partial"]
    /\ UNCHANGED <<file, overlapped, lost>>

(* The bytes reach the file the process has open, by now perhaps the index *)
(* itself; over another process's bytes they may leave a mixture.  Which   *)
(* operation the process ran is chosen here, where it first shows.         *)
Flush(p) ==
    LET over == IF proc[p].inode = "partial" THEN partial ELSE file IN
    /\ proc[p].phase = "opened"
    /\ \E bytes \in Results(proc[p].index) \cup (IF over = Torn THEN {} ELSE {Torn}) :
          IF proc[p].inode = "partial" THEN partial' = bytes /\ UNCHANGED file
                                       ELSE file' = bytes /\ UNCHANGED partial
    /\ proc' = [proc EXCEPT ![p].phase = "written", ![p].index = EmptyIndex]
    /\ UNCHANGED <<overlapped, lost>>

(* The rename: whoever else has the temporary file open now has the index. *)
Replace(p) ==
    /\ proc[p].phase = "written"
    /\ partial # NoFile
    /\ file' = partial
    /\ partial' = NoFile
    /\ lost' = (lost \/ proc[p].stale > 0)
    /\ proc' = [q \in Processes |->
          IF q = p THEN Resting
          ELSE IF proc[q] = Resting THEN Resting
          ELSE [proc[q] EXCEPT !.stale = @ + 1,
                               !.inode = IF @ = "partial" THEN "index" ELSE @]]
    /\ UNCHANGED overlapped

(* The other process has renamed the file away: FileNotFoundError.         *)
ReplaceFails(p) ==
    /\ proc[p].phase = "written"
    /\ partial = NoFile
    /\ proc' = [proc EXCEPT ![p] = Resting]
    /\ UNCHANGED <<file, partial, overlapped, lost>>

(* What a process leaves in the temporary file is truncated before the     *)
(* file is renamed, unless another process is past its own truncation: its *)
(* content matters only then.                                              *)
Crash(p) ==
    /\ proc[p] # Resting
    /\ proc' = [proc EXCEPT ![p] = Resting]
    /\ partial' = IF partial = NoFile \/ \E q \in Processes \ {p} : proc[q].phase \in {"opened", "written"}
                  THEN partial ELSE Torn
    /\ UNCHANGED <<file, overlapped, lost>>

RegistryNext ==
    \E p \in Processes :
        Load(p) \/ Open(p) \/ Flush(p) \/ Replace(p) \/ ReplaceFails(p) \/ Crash(p)

RegistrySpec == RegistryInit /\ [][RegistryNext]_registryVars

-----------------------------------------------------------------------------
Names == Actors \cup {NoOne, Anyone}

Entries == [status : Statuses, evaluator : Names, approver : Names, last : Names,
            unguarded : BOOLEAN]
Indexes == [Models -> Entries]

ASSUME NamesAssumption == NoOne \notin Actors

ASSUME TornAssumption == Torn \notin Indexes

RegistryTypeOK ==
    /\ file \in Indexes \cup {Torn}
    /\ partial \in Indexes \cup {Torn, NoFile}
    /\ proc \in [Processes -> [phase : {"rest", "loaded", "opened", "written"}, index : Indexes,
                               inode : {"none", "partial", "index"}, stale : 0 .. MaxOverlap + Cardinality(Processes)]]
    /\ overlapped \in BOOLEAN /\ lost \in BOOLEAN

(* However the runs of the command line interleave or die, an index that   *)
(* can be read has at most one ACTIVE version of a model, and what is      *)
(* APPROVED or ACTIVE there was evaluated and approved; with evidence      *)
(* attached the two were different people, unless the evidence had been    *)
(* evaluated again in between or the approver's name came with blanks.     *)
ReadableIndexIsSound ==
    file # Torn =>
        /\ \A m, n \in Models : file[m].status = "ACTIVE" /\ file[n].status = "ACTIVE" => m = n
        /\ \A m \in Models : file[m].status \in {"APPROVED", "ACTIVE"} =>
              /\ file[m].evaluator # NoOne /\ file[m].approver # NoOne
              /\ m \in Attached /\ ~file[m].unguarded => file[m].approver # file[m].evaluator

(* A crash at any point, and what it leaves in the temporary file, costs   *)
(* nothing that was stored: only overlapping runs destroy the index or     *)
(* lose an update.                                                         *)
LossNeedsOverlap == ~overlapped => file # Torn /\ ~lost

=============================================================================
