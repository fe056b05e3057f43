------------------------------ MODULE Release ------------------------------
(***************************************************************************)
(* The release lifecycle of one tenant and one product in the backend:     *)
(* dataset registrations, model qualifications with their evidence on      *)
(* disk, deployment packs, and the bootstrap of the packs at startup       *)
(* (services.py, bootstrap.py, the unique indexes of models.py).           *)
(*                                                                         *)
(* A request on a qualification is not atomic: it fetches the row and      *)
(* checks it, reads everything else and decides, and commits after its     *)
(* answer was sent.  No row is locked or versioned; a commit writes the    *)
(* columns that differ from what was fetched, by primary key, and the only *)
(* thing that can stop it is a partial unique index on status = 'ACTIVE'.  *)
(***************************************************************************)
EXTENDS Evidence, Naturals

CONSTANTS
    Quals,      \* qualifications, by primary key: their order is that of the UPDATEs of a commit
    Datasets,   \* dataset fingerprints; the registration's primary key is derived from them
    Versions,   \* versions of deployment packs, unique within a tenant
    People,
    Calls,      \* requests in flight
    Offer,      \* what each qualification is created with: see OfferAssumption
    Manifests,  \* deployment manifests that people submit: version, model, package digest, pack key
    Images,     \* the manifest in each image of the API that may be started
    Packages,   \* Packages[q]: what may lie at the evidence path of q
    Sorts,      \* the sources and consents with which datasets are registered
    Production, \* settings.environment = "production"
    Roles       \* Roles[p]: the roles of p's token

Written == UNION {Packages[q] : q \in Quals}

ASSUME QualsAssumption == Quals \subseteq Nat

ASSUME OfferAssumption ==
    /\ DOMAIN Offer = Quals
    /\ \A q \in Quals : /\ DOMAIN Offer[q] = {"model", "sha", "key", "dataset", "core"}
                        /\ Offer[q].dataset \in Datasets \cup {Absent}

ASSUME SortsAssumption == Sorts \subseteq [source : Sources, consent : {TRUE, FALSE, Absent}]

ASSUME ProductionAssumption == Production \in BOOLEAN

ASSUME ManifestsAssumption == \A m \in Manifests \cup Images : m.version \in Versions

VARIABLES
    dataset,    \* dataset_registrations
    qual,       \* model_qualifications
    pack,       \* deployment_packs; system: approved_by is "system:bootstrap"
    call,       \* requests in flight
    up,         \* the API has started
    raced       \* history: qualifications that two requests held at once

vars == <<dataset, qual, pack, call, up, raced>>

Nobody == "nobody"

ASSUME PeopleAssumption == Nobody \notin People

DatasetStates == {"NONE", "DRAFT", "VALIDATED", "REVOKED"}
QualStates == {"NONE", "DRAFT", "EVALUATED", "APPROVED", "ACTIVE", "RETIRED"}
PackStates == {"NONE", "DRAFT", "ACTIVE", "RETIRED"}

EmptyQual == [status |-> "NONE", evaluatedBy |-> Nobody, approvedBy |-> Nobody,
              activatedBy |-> Nobody, decision |-> "INSUFFICIENT_EVIDENCE", gates |-> NoGates]
EmptyPack == [status |-> "NONE", manifest |-> Absent, system |-> FALSE]
Idle == [op |-> "idle"]

Init ==
    /\ dataset = [d \in Datasets |-> [status |-> "NONE", source |-> Absent, consent |-> Absent]]
    /\ qual = [q \in Quals |-> EmptyQual]
    /\ pack = [v \in Versions |-> EmptyPack]
    /\ call = [c \in Calls |-> Idle]
    /\ up = FALSE
    /\ raced = {}

May(p, roles) == up /\ Roles[p] \cap roles # {}

(* Where the row keeps nobody's name.                                      *)
SomeoneMay(roles) == {p \in People : May(p, roles)} # {}

-----------------------------------------------------------------------------
(* Datasets.  The registration's id is a digest of tenant and fingerprint  *)
(* and stays taken for ever: nothing is registered twice, a DRAFT one      *)
(* never becomes VALIDATED, a revoked one never returns.                   *)

Register(d, sort) ==
    /\ SomeoneMay({"ML_ENGINEER", "FDE", "QUALITY_MANAGER"})
    /\ sort.source # "DEMO_SYNTHETIC"
    /\ dataset[d].status = "NONE"
    /\ dataset' = [dataset EXCEPT ![d] =
          [status |-> IF sort.source = "CUSTOMER_PILOT" /\ sort.consent # TRUE
                      THEN "DRAFT" ELSE "VALIDATED",
           source |-> sort.source, consent |-> sort.consent]]
    /\ UNCHANGED <<qual, pack, call, up, raced>>

Revoke(d) ==
    /\ SomeoneMay({"ML_ENGINEER", "FDE", "QUALITY_MANAGER"})
    /\ dataset[d].status \in {"DRAFT", "VALIDATED"}
    /\ dataset' = [dataset EXCEPT ![d].status = "REVOKED"]
    /\ UNCHANGED <<qual, pack, call, up, raced>>

-----------------------------------------------------------------------------
(* Qualifications.  The row copies source and fingerprint from the dataset *)
(* it binds; both columns of a registration never change.                  *)

Source(q) == IF Offer[q].dataset = Absent THEN "DEMO_SYNTHETIC" ELSE dataset[Offer[q].dataset].source

Create(q) ==
    /\ SomeoneMay({"ML_ENGINEER", "FDE"})
    /\ qual[q].status = "NONE"
    /\ Offer[q].dataset # Absent => dataset[Offer[q].dataset].status \in {"DRAFT", "VALIDATED"}
    /\ \A o \in Quals : qual[o].status # "NONE" => Offer[o].model # Offer[q].model
    /\ qual' = [qual EXCEPT ![q].status = "DRAFT"]
    /\ UNCHANGED <<dataset, pack, call, up, raced>>

(* _verified_qualification_evidence, of what lies at the evidence path     *)
Verified(q, e) ==
    /\ VerifiedByBackend(e, Offer[q].sha)
    /\ e.core = Offer[q].core
    /\ e.core.source = Source(q)
    /\ Offer[q].dataset # Absent => e.core.dataset = Offer[q].dataset
    /\ e.core.source # "DEMO_SYNTHETIC" => Offer[q].dataset # Absent

(* require_approval: the release file again, since the digest omits it     *)
Approvable(q, e) ==
    /\ Verified(q, e)
    /\ GateDecisionOf(e) = "GO"
    /\ e.release.approval = "PENDING_APPROVAL"
    /\ e.core.source = "CUSTOMER_PILOT"

Consented(q) ==
    LET d == Offer[q].dataset IN
    /\ d # Absent
    /\ dataset[d].source = "CUSTOMER_PILOT" /\ dataset[d].consent = TRUE

(* _require_activation_dataset, and the same conditions in approve         *)
Authorized(q) == Consented(q) /\ dataset[Offer[q].dataset].status = "VALIDATED"

Passed(gates) == gates.decision = "GO" /\ \A g \in DOMAIN gates.checks : gates.checks[g] = "PASS"

ActivePacks == {v \in Versions : pack[v].status = "ACTIVE"}
ActiveQuals == {q \in Quals : qual[q].status = "ACTIVE"}

Serves(v, q) == pack[v].manifest.key = Offer[q].key /\ pack[v].manifest.sha = Offer[q].sha

Matches(m, q) == m.key = Offer[q].key /\ m.sha = Offer[q].sha /\ m.model = Offer[q].model

RolesFor ==
    [evaluate |-> {"ML_ENGINEER"}, approve |-> {"QUALITY_MANAGER"}, activate |-> {"ADMIN", "FDE"},
     rollback |-> {"ADMIN", "FDE"}, retire |-> {"ADMIN", "QUALITY_MANAGER"}]

\* Variant: an approval that does not ask for the gates of the evaluation.
AdmitsUngated(op, row, q, p) ==
    CASE op = "evaluate" -> row.status = "DRAFT"
      [] op = "approve" -> /\ row.status = "EVALUATED" /\ row.evaluatedBy # p
                           /\ Source(q) = "CUSTOMER_PILOT"
      [] op = "activate" -> row.status = "APPROVED" /\ p \notin {row.evaluatedBy, row.approvedBy}
      [] op = "rollback" -> row.status = "RETIRED" /\ p \notin {row.evaluatedBy, row.approvedBy}
      [] op = "retire" -> row.status \in {"APPROVED", "ACTIVE"}

\* Variant: a rollback by anybody who may roll back.
AdmitsAnyActor(op, row, q, p) ==
    CASE op = "evaluate" -> row.status = "DRAFT"
      [] op = "approve" -> /\ row.status = "EVALUATED" /\ row.evaluatedBy # p
                           /\ Passed(row.gates) /\ Source(q) = "CUSTOMER_PILOT"
      [] op = "activate" -> row.status = "APPROVED" /\ p \notin {row.evaluatedBy, row.approvedBy}
      [] op = "rollback" -> row.status = "RETIRED"
      [] op = "retire" -> row.status \in {"APPROVED", "ACTIVE"}

\* Variant: retirement of what was only evaluated.
AdmitsEarlyRetire(op, row, q, p) ==
    CASE op = "evaluate" -> row.status = "DRAFT"
      [] op = "approve" -> /\ row.status = "EVALUATED" /\ row.evaluatedBy # p
                           /\ Passed(row.gates) /\ Source(q) = "CUSTOMER_PILOT"
      [] op = "activate" -> row.status = "APPROVED" /\ p \notin {row.evaluatedBy, row.approvedBy}
      [] op = "rollback" -> row.status = "RETIRED" /\ p \notin {row.evaluatedBy, row.approvedBy}
      [] op = "retire" -> row.status \in {"EVALUATED", "APPROVED", "ACTIVE"}

(* The conditions on the fetched row.                                      *)
Admits(op, row, q, p) ==
    CASE op = "evaluate" -> row.status = "DRAFT"
      [] op = "approve" -> /\ row.status = "EVALUATED"
                           /\ row.evaluatedBy # p
                           /\ Passed(row.gates)
                           /\ Source(q) = "CUSTOMER_PILOT"
      [] op = "activate" -> row.status = "APPROVED" /\ p \notin {row.evaluatedBy, row.approvedBy}
      [] op = "rollback" -> row.status = "RETIRED" /\ p \notin {row.evaluatedBy, row.approvedBy}
      [] op = "retire" -> row.status \in {"APPROVED", "ACTIVE"}

(* The qualifications a request has in its hands.                          *)
Held(k) == IF k.op \in DOMAIN RolesFor THEN {k.on} \cup k.replaces ELSE {}

Race(calls) ==
    raced' = raced \cup {q \in Quals : \E c, d \in Calls :
                            c # d /\ q \in Held(calls[c]) \cap Held(calls[d])}

Request(c, op, q, p, next) ==
    /\ call[c] = Idle
    /\ May(p, RolesFor[op])
    /\ qual[q].status # "NONE" /\ Admits(op, qual[q], q, p)
    /\ call' = [call EXCEPT ![c] = [op |-> op, on |-> q, by |-> next.by, phase |-> next.phase,
                                    seen |-> qual[q], sets |-> next.sets, replaces |-> {}]]
    /\ Race(call')
    /\ UNCHANGED <<dataset, qual, pack, up>>

Fetch(c, op, q, p) ==
    Request(c, op, q, p, [by |-> p, phase |-> "fetched", sets |-> qual[q]])

(* A retirement depends on nothing but the row it fetched, and leaves no   *)
(* name in it.                                                             *)
Retire(c, q, p) ==
    Request(c, "retire", q, p, [by |-> Nobody, phase |-> "decided",
                                sets |-> [qual[q] EXCEPT !.status = "RETIRED"]])

(* The request reads what else it needs and prepares its row.  The         *)
(* evidence directory is a path that is written outside the backend: a     *)
(* request finds there any of the packages that may lie there.             *)
Prepare(c, row, replaced) ==
    /\ call' = [call EXCEPT ![c].phase = "decided", ![c].sets = row, ![c].replaces = replaced]
    /\ Race(call')
    /\ UNCHANGED <<dataset, qual, pack, up>>

Evaluate(c, p) ==
    LET k == call[c] IN
    /\ k.op = "evaluate" /\ k.phase = "fetched"
    /\ p \in Packages[k.on] /\ Verified(k.on, p)
    /\ Prepare(c, [k.seen EXCEPT
             !.status = IF GateDecisionOf(p) = "GO" /\ p.release.approval = "PENDING_APPROVAL"
                        THEN "EVALUATED" ELSE "DRAFT",
             !.decision = IF p.release.decision = Absent THEN "INSUFFICIENT_EVIDENCE"
                          ELSE p.release.decision,
             !.gates = GatesOf(p),
             !.evaluatedBy = k.by], {})

Approve(c, p) ==
    LET k == call[c] IN
    /\ k.op = "approve" /\ k.phase = "fetched"
    /\ Authorized(k.on)
    /\ p \in Packages[k.on] /\ Approvable(k.on, p)
    /\ Prepare(c, [k.seen EXCEPT !.status = "APPROVED", !.approvedBy = k.by], {})

(* Activation wants the model of the active pack, rollback only its key    *)
(* and package digest.  The row now ACTIVE is read, to be retired.         *)
Promote(c, p) ==
    LET k == call[c] IN
    /\ k.op \in {"activate", "rollback"} /\ k.phase = "fetched"
    /\ \E v \in ActivePacks : IF k.op = "activate" THEN Matches(pack[v].manifest, k.on)
                                                   ELSE Serves(v, k.on)
    /\ Authorized(k.on)
    /\ p \in Packages[k.on] /\ Approvable(k.on, p)
    /\ Prepare(c, [k.seen EXCEPT !.status = "ACTIVE", !.activatedBy = k.by],
                  ActiveQuals \ {k.on})

(* A check fails, the client is gone, or the database refuses.             *)
Abandon(c) ==
    /\ call[c] # Idle
    /\ call' = [call EXCEPT ![c] = Idle]
    /\ UNCHANGED <<dataset, qual, pack, up, raced>>

(* Only what differs from the fetched row is written.                      *)
Changed(row, k) ==
    [f \in DOMAIN row |-> IF k.sets[f] # k.seen[f] THEN k.sets[f] ELSE row[f]]

(* The UPDATEs go out in primary-key order and the index is checked at     *)
(* each: a row to be retired that comes after the row to be activated is   *)
(* still ACTIVE then, and the whole commit is rolled back.                 *)
Blocking(k) ==
    IF k.sets.status # "ACTIVE" THEN {}
    ELSE {q \in ActiveQuals \ {k.on} : q \in k.replaces => q > k.on}

\* Variant: the old qualification is retired in a transaction of its own first.
CommitInTwo(c) ==
    LET k == call[c] IN
    /\ k.op \in DOMAIN RolesFor /\ k.phase = "decided"
    /\ \/ /\ k.replaces # {}
          /\ qual' = [q \in Quals |-> IF q \in k.replaces THEN [qual[q] EXCEPT !.status = "RETIRED"]
                                      ELSE qual[q]]
          /\ call' = [call EXCEPT ![c].replaces = {}]
       \/ /\ k.replaces = {} /\ Blocking(k) = {}
          /\ qual' = [qual EXCEPT ![k.on] = Changed(@, k)]
          /\ call' = [call EXCEPT ![c] = Idle]
    /\ UNCHANGED <<dataset, pack, up, raced>>

Commit(c) ==
    LET k == call[c] IN
    /\ k.op \in DOMAIN RolesFor /\ k.phase = "decided"
    /\ Blocking(k) = {}
    /\ qual' = [q \in Quals |-> IF q = k.on THEN Changed(qual[q], k)
                                ELSE IF q \in k.replaces THEN [qual[q] EXCEPT !.status = "RETIRED"]
                                ELSE qual[q]]
    /\ call' = [call EXCEPT ![c] = Idle]
    /\ UNCHANGED <<dataset, pack, up, raced>>

-----------------------------------------------------------------------------
(* Deployment packs.                                                       *)

CreatePack(m) ==
    /\ SomeoneMay({"ADMIN", "FDE"})
    /\ pack[m.version].status = "NONE"
    /\ pack' = [pack EXCEPT ![m.version] = [status |-> "DRAFT", manifest |-> m, system |-> FALSE]]
    /\ UNCHANGED <<dataset, qual, call, up, raced>>

Qualifies(q, m) == qual[q].status = "ACTIVE" /\ Matches(m, q)

\* Variant: any live qualification will do, whatever model it is for.
DeployableUnmatched(v) ==
    Production => \E q \in Quals : qual[q].status = "ACTIVE" /\ qual[q].decision = "GO"

(* In production a pack needs an ACTIVE qualification whose recorded       *)
(* decision is the string "GO".                                            *)
Deployable(v) ==
    Production => \E q \in Quals : Qualifies(q, pack[v].manifest) /\ qual[q].decision = "GO"

(* Three reads with the health checks of storage, model and connectors     *)
(* between the second and the third: the pack with its status, the         *)
(* qualification, and the pack that is ACTIVE then and will be retired.    *)
Deploy(c, v) ==
    /\ call[c] = Idle
    /\ SomeoneMay({"QUALITY_MANAGER", "ADMIN", "FDE"})
    /\ pack[v].status # "NONE"
    /\ call' = [call EXCEPT ![c] = [op |-> "deploy", on |-> v, phase |-> "fetched",
                                    seen |-> pack[v].status, replaces |-> {}]]
    /\ UNCHANGED <<dataset, qual, pack, up, raced>>

FindQualification(c) ==
    /\ call[c].op = "deploy" /\ call[c].phase = "fetched"
    /\ Deployable(call[c].on)
    /\ call' = [call EXCEPT ![c].phase = "qualified"]
    /\ UNCHANGED <<dataset, qual, pack, up, raced>>

FindActive(c) ==
    /\ call[c].op = "deploy" /\ call[c].phase = "qualified"
    /\ call' = [call EXCEPT ![c].phase = "decided", ![c].replaces = ActivePacks \ {call[c].on}]
    /\ UNCHANGED <<dataset, qual, pack, up, raced>>

(* The replaced pack is flushed first, so the order of ids does not matter.*)
(* A pack that was ACTIVE when it was fetched and was retired meanwhile    *)
(* stays RETIRED: the tenant is then left without an ACTIVE pack.          *)
CommitDeploy(c) ==
    LET k == call[c]
        activates == k.seen # "ACTIVE"
    IN
    /\ k.op = "deploy" /\ k.phase = "decided"
    /\ activates => ActivePacks \subseteq k.replaces \cup {k.on}
    /\ pack' = [v \in Versions |->
          IF v = k.on THEN [pack[v] EXCEPT !.system = FALSE,
                                           !.status = IF activates THEN "ACTIVE" ELSE @]
          ELSE IF v \in k.replaces THEN [pack[v] EXCEPT !.status = "RETIRED"] ELSE pack[v]]
    /\ call' = [call EXCEPT ![c] = Idle]
    /\ UNCHANGED <<dataset, qual, up, raced>>

(* The API starts with manifest m in its image: requests in flight are     *)
(* lost, and bootstrap_defaults installs m where it may.                   *)
Install(m) == [status |-> "ACTIVE", manifest |-> m, system |-> TRUE]

Outdated(m) == {v \in ActivePacks : pack[v].system /\ pack[v].manifest # m}

Restart(m) ==
    /\ \/ /\ ActivePacks # {} /\ Outdated(m) = {}
          /\ pack' = pack
       \/ /\ m.version \in Outdated(m)
          /\ pack' = [pack EXCEPT ![m.version].manifest = m]
       \/ /\ ActivePacks = Outdated(m)
          /\ pack[m.version].status = "NONE"
          /\ pack' = [v \in Versions |->
                IF v = m.version THEN Install(m)
                ELSE IF v \in ActivePacks THEN [pack[v] EXCEPT !.status = "RETIRED"] ELSE pack[v]]
    /\ up' = TRUE
    /\ call' = [c \in Calls |-> Idle]
    /\ UNCHANGED <<dataset, qual, raced>>

(* The row m would need exists already: startup ends in IntegrityError.    *)
FailedRestart(m) ==
    /\ ActivePacks = Outdated(m)
    /\ pack[m.version].status # "NONE"
    /\ m.version \notin ActivePacks
    /\ up' = FALSE
    /\ call' = [c \in Calls |-> Idle]
    /\ UNCHANGED <<dataset, qual, pack, raced>>

-----------------------------------------------------------------------------
DatasetNext ==
    \E d \in Datasets :
        \/ \E sort \in Sorts : Register(d, sort)
        \/ Revoke(d)

QualNext ==
    \/ \E q \in Quals : Create(q)
    \/ \E c \in Calls, q \in Quals, p \in People :
          \/ \E op \in DOMAIN RolesFor \ {"retire"} : Fetch(c, op, q, p)
          \/ Retire(c, q, p)
    \/ \E c \in Calls :
          \/ \E p \in Written : Evaluate(c, p) \/ Approve(c, p) \/ Promote(c, p)
          \/ Abandon(c) \/ Commit(c)

PackNext ==
    \/ \E m \in Manifests : CreatePack(m)
    \/ \E c \in Calls, v \in Versions : Deploy(c, v)
    \/ \E c \in Calls : FindQualification(c) \/ FindActive(c) \/ CommitDeploy(c)
    \/ \E m \in Images : Restart(m) \/ FailedRestart(m)

Next == DatasetNext \/ QualNext \/ PackNext

Spec == Init /\ [][Next]_vars

-----------------------------------------------------------------------------
Rows == [status : QualStates, evaluatedBy : People \cup {Nobody}, approvedBy : People \cup {Nobody},
         activatedBy : People \cup {Nobody},
         decision : {e.release.decision : e \in Written} \cup {EmptyQual.decision},
         gates : {GatesOf(e) : e \in Written} \cup {NoGates}]

QualCalls == [op : DOMAIN RolesFor, on : Quals, by : People \cup {Nobody},
              phase : {"fetched", "decided"}, seen : Rows, sets : Rows, replaces : SUBSET Quals]
DeployCalls == [op : {"deploy"}, on : Versions, phase : {"fetched", "qualified", "decided"},
                seen : PackStates, replaces : SUBSET Versions]

(* The shape of every row and of every request in flight.                  *)
TypeOK ==
    /\ dataset \in [Datasets -> [status : DatasetStates, source : Sources \cup {Absent},
                                 consent : {TRUE, FALSE, Absent}]]
    /\ qual \in [Quals -> Rows]
    /\ pack \in [Versions -> [status : PackStates, manifest : Manifests \cup Images \cup {Absent},
                              system : BOOLEAN]]
    /\ call \in [Calls -> QualCalls \cup DeployCalls \cup {Idle}]
    /\ up \in BOOLEAN
    /\ raced \subseteq Quals

(* Evaluated and approved, on consented customer data.                     *)
Vetted(q) == qual[q].evaluatedBy # Nobody /\ qual[q].approvedBy # Nobody /\ Consented(q)

(* The registered core says what the gates are, or no two requests held    *)
(* the qualification at once.                                              *)
GatesSettled(q) == q \notin raced \/ Offer[q].core.gates # Absent

Earned(q) == Vetted(q) /\ (Passed(qual[q].gates) \/ ~GatesSettled(q))

(* A qualification that is approved or live was evaluated and approved on  *)
(* consented customer data, whatever requests overlap and whatever is done *)
(* to the evidence on disk; and every gate of it passed, by the registered *)
(* core.  Where that has no gates they are those of the release file at    *)
(* the evaluation, and passed unless another request held it meanwhile: an *)
(* evaluation of the edited file may write its gates under the approval.   *)
ActiveWasEarned ==
    \A q \in Quals : qual[q].status \in {"APPROVED", "ACTIVE"} => Earned(q)

(* "evaluation, approval, and activation require distinct actors"          *)
(* (services.py): true of every qualification that no two requests ever    *)
(* held at once; an evaluation fetched before an approval breaks it.       *)
SeparationUnlessRaced ==
    \A q \in Quals \ raced :
        /\ qual[q].approvedBy # Nobody => qual[q].approvedBy # qual[q].evaluatedBy
        /\ qual[q].activatedBy # Nobody =>
              qual[q].activatedBy \notin {qual[q].evaluatedBy, qual[q].approvedBy}

(* A pack that a person made live in production serves a model that was    *)
(* evaluated and approved with every gate passed, whatever happened to its *)
(* qualification since.  There are no exceptions: the decision GO that it  *)
(* asks for is only ever recorded of a core with gates.                    *)
PackWasQualified ==
    \A v \in ActivePacks :
        Production /\ ~pack[v].system =>
            \E q \in Quals :
                Matches(pack[v].manifest, q) /\ Vetted(q) /\ Passed(qual[q].gates)

Moves == {<<"NONE", "DRAFT">>, <<"DRAFT", "EVALUATED">>, <<"EVALUATED", "APPROVED">>,
          <<"APPROVED", "ACTIVE">>, <<"APPROVED", "RETIRED">>, <<"ACTIVE", "RETIRED">>,
          <<"RETIRED", "ACTIVE">>}

(* The lifecycle of docs/05-pilot-qualification.md: a qualification that   *)
(* no two requests held at once moves along it, also when it is retired by *)
(* another's activation; a rollback takes it back to ACTIVE.               *)
LifecycleUnlessRaced ==
    [][\A q \in Quals \ raced' :
          qual'[q].status # qual[q].status => <<qual[q].status, qual'[q].status>> \in Moves]_vars

(* The qualifications on which somebody's evaluation, approval or          *)
(* retirement is under way.                                                *)
Leaving == {call[c].on : c \in {d \in Calls : call[d].op \in {"evaluate", "approve", "retire"}}}

Promise == INSTANCE OneLive WITH
    Models <- Quals, live <- ActiveQuals, leaving <- Leaving,
    earned <- {q \in Quals : Earned(q)}

(* Also when requests overlap, at most one model is live, an earned one,   *)
(* and an activation or a rollback takes the old one down in the very step *)
(* that puts up its own: outside it, a live model ceases to be live only   *)
(* by a request on that model, its retirement or a stale evaluation or     *)
(* approval of it.                                                         *)
ReplacesInOneStep == Promise!Spec

(* A production pack is refused for want of "a matching ACTIVE model       *)
(* qualification" (services.py) only when there is none.                   *)
RefusalIsTrue ==
    \A v \in Versions :
        pack[v].status # "NONE" /\ ~Deployable(v) =>
            ~ \E q \in Quals : Qualifies(q, pack[v].manifest)

=============================================================================
