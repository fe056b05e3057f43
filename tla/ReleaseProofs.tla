--------------------------- MODULE ReleaseProofs ---------------------------
(***************************************************************************)
(* The release lifecycle for any qualifications, datasets, packs, people,  *)
(* requests in flight and evidence on disk.                                *)
(*                                                                         *)
(* A request works on a copy of its row that may be stale when it commits. *)
(* What makes that safe is that three things never go back: an evaluator,  *)
(* an approver, and the passing of gates that the registered core states.  *)
(* Who they are can change under a race, and so can gates that come from   *)
(* the release file; a row that no two requests held is the one that was   *)
(* fetched.                                                                *)
(***************************************************************************)
EXTENDS Release, TLAPS

HasGates(q) == Offer[q].core.gates # Absent

RowSound(row, q) ==
    /\ HasGates(q) => row.gates \in {NoGates, Offer[q].core.gates}
    /\ Passed(row.gates) => row.evaluatedBy # Nobody
    /\ row.approvedBy # Nobody =>
          row.evaluatedBy # Nobody /\ Consented(q) /\ (HasGates(q) => Passed(row.gates))
    /\ row.status \in {"APPROVED", "ACTIVE", "RETIRED"} => row.approvedBy # Nobody
    /\ row.decision = "GO" => HasGates(q)

(* What does not go back.                                                  *)
Beyond(new, old, q) ==
    /\ HasGates(q) /\ Passed(old.gates) => Passed(new.gates)
    /\ old.evaluatedBy # Nobody => new.evaluatedBy # Nobody
    /\ old.approvedBy # Nobody => new.approvedBy # Nobody

(* What a request still relies on of the row it was admitted for.          *)
Admitted(k) ==
    /\ k.by \in People
    /\ k.op = "evaluate" => k.seen.status = "DRAFT"
    /\ k.op = "approve" => k.seen.status = "EVALUATED" /\ k.seen.evaluatedBy # k.by
                           /\ Passed(k.seen.gates)
    /\ k.op = "activate" => k.seen.status = "APPROVED"
    /\ k.op = "rollback" => k.seen.status = "RETIRED"
    /\ k.op \in {"activate", "rollback"} => k.by \notin {k.seen.evaluatedBy, k.seen.approvedBy}

CallSound(k) ==
    /\ RowSound(k.seen, k.on) /\ RowSound(k.sets, k.on)
    /\ Beyond(k.sets, k.seen, k.on) /\ Beyond(qual[k.on], k.seen, k.on)
    /\ k.seen.status # "NONE"
    /\ k.phase = "fetched" => Admitted(k)
    /\ k.phase = "decided" =>
          IF k.op \in {"activate", "rollback"} THEN k.sets.status = "ACTIVE" /\ k.seen.status # "ACTIVE"
                                              ELSE k.sets.status # "ACTIVE"
    /\ \A q \in k.replaces : qual[q].approvedBy # Nobody
    /\ k.sets.status # "ACTIVE" => k.replaces = {}
    /\ k.sets.approvedBy # k.seen.approvedBy =>
          k.sets.status = "APPROVED" /\ k.seen.status = "EVALUATED"

IsQualCall(k) == k.op \in DOMAIN RolesFor

DatasetsSound == \A d \in Datasets : dataset[d].status = "NONE" => dataset[d].source = Absent

QualsSound ==
    /\ \A q \in Quals : RowSound(qual[q], q)
    /\ \A c \in Calls : IsQualCall(call[c]) => CallSound(call[c])

OneActive == \A q, r \in ActiveQuals : q = r

Backed(v) ==
    Production =>
        \E q \in Quals : Matches(pack[v].manifest, q) /\ HasGates(q) /\ qual[q].approvedBy # Nobody

PacksSound ==
    /\ \A v \in ActivePacks : ~pack[v].system => Backed(v)
    /\ \A c \in Calls : call[c].op = "deploy" =>
          /\ pack[call[c].on].status # "NONE"
          /\ call[c].phase # "fetched" => Backed(call[c].on)

(* A row that no two requests held: who acted on it, and what the requests *)
(* know of it.                                                             *)
RowClean(row) ==
    /\ row.status \in {"NONE", "DRAFT", "EVALUATED"} =>
          row.approvedBy = Nobody /\ row.activatedBy = Nobody
    /\ row.approvedBy # Nobody => row.approvedBy # row.evaluatedBy /\ Passed(row.gates)
    /\ row.activatedBy # Nobody => row.activatedBy \notin {row.evaluatedBy, row.approvedBy}

CallClean(k) ==
    /\ k.on \notin raced =>
          /\ k.seen = qual[k.on]
          /\ RowClean(k.sets)
          /\ k.sets.status # k.seen.status => <<k.seen.status, k.sets.status>> \in Moves
    /\ \A q \in k.replaces \ raced : qual[q].status = "ACTIVE"

UnracedClean ==
    /\ \A q \in Quals \ raced : RowClean(qual[q])
    /\ \A c \in Calls : IsQualCall(call[c]) => CallClean(call[c])
    /\ \A c, d \in Calls : c # d => Held(call[c]) \cap Held(call[d]) \subseteq raced

ReleaseInvariant ==
    TypeOK /\ DatasetsSound /\ QualsSound /\ OneActive /\ PacksSound /\ UnracedClean

-----------------------------------------------------------------------------
\* The operations that hold a qualification.
LEMMA Operations ==
    /\ DOMAIN RolesFor = {"evaluate", "approve", "activate", "rollback", "retire"}
    /\ ~IsQualCall(Idle)
    /\ \A k \in QualCalls : IsQualCall(k) /\ k # Idle
    /\ \A k \in DeployCalls : ~IsQualCall(k) /\ k # Idle /\ k.op = "deploy"
  BY DEF RolesFor, IsQualCall, Idle, QualCalls, DeployCalls

\* What TypeOK says of a request in flight.
LEMMA CallRecord ==
    ASSUME TypeOK, NEW c \in Calls
    PROVE  /\ IsQualCall(call[c]) => call[c] \in QualCalls
           /\ call[c].op = "deploy" => call[c] \in DeployCalls
           /\ call[c] = Idle => ~IsQualCall(call[c]) /\ call[c].op # "deploy" /\ Held(call[c]) = {}
  <1>1. call[c] \in QualCalls \cup DeployCalls \cup {Idle}
    BY DEF TypeOK
  <1>2. Idle.op = "idle" /\ Idle.op \notin DOMAIN RolesFor
    BY Operations DEF Idle, IsQualCall
  <1>3. call[c] \in QualCalls => call[c].op # "deploy"
    BY Operations DEF QualCalls
  <1> QED
    BY <1>1, <1>2, <1>3, Operations DEF IsQualCall, Held

\* A request holds qualifications.
LEMMA HeldQuals == \A k \in QualCalls \cup DeployCalls \cup {Idle} : Held(k) \subseteq Quals
  <1>1. \A k \in QualCalls : Held(k) \subseteq Quals
    BY DEF Held, QualCalls
  <1>2. \A k \in DeployCalls \cup {Idle} : Held(k) = {}
    BY Operations DEF Held, IsQualCall
  <1> QED
    BY <1>1, <1>2

\* Nothing passed where nobody says what the gates are.
LEMMA NoGatesFail == ~Passed(NoGates)
  BY AbsentAssumption DEF Passed, NoGates, Decisions

\* The initial states satisfy the invariant.
LEMMA InitInvariant == Init => ReleaseInvariant
  <1> SUFFICES ASSUME Init PROVE ReleaseInvariant
    OBVIOUS
  <1> USE DEF Init
  <1>1. EmptyQual \in Rows
    BY DEF EmptyQual, Rows, QualStates
  <1>2. TypeOK
    BY <1>1 DEF TypeOK, DatasetStates, EmptyPack, PackStates
  <1>3. ~Passed(NoGates)
    BY NoGatesFail
  <1>4. QualsSound /\ OneActive /\ PacksSound /\ UnracedClean
    BY <1>3, CallRecord, <1>2 DEF QualsSound, RowSound, EmptyQual, OneActive, ActiveQuals, PacksSound,
       ActivePacks, EmptyPack, UnracedClean, RowClean
  <1> QED
    BY <1>2, <1>4 DEF ReleaseInvariant, DatasetsSound

\* What moving a row to another status leaves alone.
LEMMA StatusSet ==
    ASSUME NEW row \in Rows, NEW s \in QualStates
    PROVE  LET new == [row EXCEPT !.status = s] IN
           /\ new \in Rows /\ new.status = s
           /\ new.gates = row.gates /\ new.decision = row.decision
           /\ new.evaluatedBy = row.evaluatedBy
           /\ new.approvedBy = row.approvedBy /\ new.activatedBy = row.activatedBy
  BY DEF Rows

\* What writing only the changed columns of a row amounts to.
LEMMA ChangedFields ==
    ASSUME NEW row \in Rows, NEW k \in QualCalls
    PROVE  LET new == Changed(row, k) IN
           /\ new \in Rows
           /\ new.status = IF k.sets.status # k.seen.status THEN k.sets.status ELSE row.status
           /\ new.evaluatedBy = IF k.sets.evaluatedBy # k.seen.evaluatedBy
                                THEN k.sets.evaluatedBy ELSE row.evaluatedBy
           /\ new.approvedBy = IF k.sets.approvedBy # k.seen.approvedBy
                               THEN k.sets.approvedBy ELSE row.approvedBy
           /\ new.gates = IF k.sets.gates # k.seen.gates THEN k.sets.gates ELSE row.gates
           /\ new.decision = IF k.sets.decision # k.seen.decision THEN k.sets.decision
                             ELSE row.decision
           /\ row = k.seen => new = k.sets
  <1>1. /\ k.seen \in Rows /\ k.sets \in Rows
        /\ DOMAIN row = {"status", "evaluatedBy", "approvedBy", "activatedBy", "decision", "gates"}
    BY DEF Rows, QualCalls
  <1>2. Changed(row, k) = [status |-> IF k.sets.status # k.seen.status THEN k.sets.status ELSE row.status,
           evaluatedBy |-> IF k.sets.evaluatedBy # k.seen.evaluatedBy
                           THEN k.sets.evaluatedBy ELSE row.evaluatedBy,
           approvedBy |-> IF k.sets.approvedBy # k.seen.approvedBy
                          THEN k.sets.approvedBy ELSE row.approvedBy,
           activatedBy |-> IF k.sets.activatedBy # k.seen.activatedBy
                           THEN k.sets.activatedBy ELSE row.activatedBy,
           decision |-> IF k.sets.decision # k.seen.decision THEN k.sets.decision ELSE row.decision,
           gates |-> IF k.sets.gates # k.seen.gates THEN k.sets.gates ELSE row.gates]
    BY <1>1 DEF Changed
  <1>3. Changed(row, k) \in Rows
    BY <1>1, <1>2 DEF Rows
  <1>4. row = k.seen => Changed(row, k) = k.sets
    BY <1>1, <1>2 DEF Rows
  <1> QED
    BY <1>2, <1>3, <1>4

\* A commit over a row that moved on since it was fetched: what was passed,
\* evaluated or approved stays so, and the row stays sound.
LEMMA ChangedSound ==
    ASSUME TypeOK, NEW k \in QualCalls, CallSound(k), RowSound(qual[k.on], k.on)
    PROVE  LET new == Changed(qual[k.on], k) IN
           /\ RowSound(new, k.on)
           /\ Beyond(new, qual[k.on], k.on)
  <1> DEFINE row == qual[k.on]
             new == Changed(row, k)
  <1>1. k.on \in Quals /\ row \in Rows /\ k.seen \in Rows /\ k.sets \in Rows
    BY DEF QualCalls, TypeOK
  <1>2. /\ new.status = IF k.sets.status # k.seen.status THEN k.sets.status ELSE row.status
        /\ new.evaluatedBy = IF k.sets.evaluatedBy # k.seen.evaluatedBy
                             THEN k.sets.evaluatedBy ELSE row.evaluatedBy
        /\ new.approvedBy = IF k.sets.approvedBy # k.seen.approvedBy
                            THEN k.sets.approvedBy ELSE row.approvedBy
        /\ new.gates = IF k.sets.gates # k.seen.gates THEN k.sets.gates ELSE row.gates
        /\ new.decision \in {k.sets.decision, row.decision}
    BY <1>1, ChangedFields
  <1>3. ~Passed(NoGates)
    BY NoGatesFail
  <1> HIDE DEF row, new
  <1>4. RowSound(row, k.on) /\ RowSound(k.seen, k.on) /\ RowSound(k.sets, k.on)
        /\ Beyond(k.sets, k.seen, k.on) /\ Beyond(row, k.seen, k.on)
    BY DEF CallSound, row
  <1>5. Beyond(new, row, k.on) /\ Beyond(new, k.sets, k.on)
    BY <1>2, <1>3, <1>4 DEF Beyond, RowSound
  <1>6. RowSound(new, k.on)
    BY <1>2, <1>4, <1>5 DEF RowSound, Beyond
  <1> QED
    BY <1>5, <1>6 DEF row, new

-----------------------------------------------------------------------------
\* A step that leaves the qualifications alone and starts no request on one
\* keeps what is known of them, as long as no customer's consent is lost.
LEMMA QualsFrame ==
    ASSUME QualsSound, OneActive, qual' = qual, \A q \in Quals : Consented(q) => Consented(q)',
           TypeOK, TypeOK',
           \A c \in Calls : IsQualCall(call'[c]) => call'[c] = call[c]
    PROVE  QualsSound' /\ OneActive'
  <1>1. \A row, q : q \in Quals /\ RowSound(row, q) => RowSound(row, q)'
    BY DEF RowSound
  <1>2. ASSUME NEW c \in Calls, IsQualCall(call'[c])
        PROVE  CallSound(call[c])'
    <2>1. call'[c] = call[c] /\ IsQualCall(call[c]) /\ call[c].on \in Quals
      BY <1>2, CallRecord DEF QualCalls
    <2>2. CallSound(call[c])
      BY <2>1 DEF QualsSound
    <2> QED
      BY <2>1, <2>2, <1>1 DEF CallSound
  <1> QED
    BY <1>1, <1>2 DEF QualsSound, OneActive, ActiveQuals

\* Likewise for what is known of rows that no two requests held.
LEMMA UnracedFrame ==
    ASSUME UnracedClean, qual' = qual, raced' = raced,
           \A c \in Calls : call'[c] = call[c] \/ ~IsQualCall(call'[c])
    PROVE  UnracedClean'
  <1>1. \A c \in Calls : Held(call[c])' \subseteq Held(call[c])
    BY DEF Held, IsQualCall
  <1>2. ASSUME NEW c \in Calls, IsQualCall(call'[c])
        PROVE  CallClean(call[c])'
    BY <1>2 DEF UnracedClean, CallClean
  <1> QED
    BY <1>1, <1>2 DEF UnracedClean

\* A step that leaves the packs alone keeps them backed, as long as nobody's
\* approval is lost.
LEMMA PacksFrame ==
    ASSUME PacksSound, pack' = pack,
           \A q \in Quals : qual[q].approvedBy # Nobody => qual'[q].approvedBy # Nobody,
           \A c \in Calls : call'[c].op = "deploy" => call'[c] = call[c]
    PROVE  PacksSound'
  <1>1. \A v : Backed(v) => Backed(v)'
    BY DEF Backed
  <1> QED
    BY <1>1 DEF PacksSound, ActivePacks

\* Datasets: a registration is made once and its consent never changes.
LEMMA DatasetStep ==
    ASSUME ReleaseInvariant, NEW d \in Datasets,
           (\E sort \in Sorts : Register(d, sort)) \/ Revoke(d)
    PROVE  ReleaseInvariant'
  <1> USE DEF ReleaseInvariant
  <1>1. /\ UNCHANGED <<qual, pack, call, up, raced>>
        /\ \A e \in Datasets : dataset'[e] # dataset[e] =>
              \/ dataset[e].status = "NONE"
              \/ dataset'[e].source = dataset[e].source /\ dataset'[e].consent = dataset[e].consent
    <2>1. CASE Revoke(d)
      <3>1. dataset[d] \in [status : DatasetStates, source : Sources \cup {Absent},
                            consent : {TRUE, FALSE, Absent}]
        BY DEF TypeOK
      <3> DEFINE row == [dataset[d] EXCEPT !.status = "REVOKED"]
      <3>2. row.source = dataset[d].source /\ row.consent = dataset[d].consent
        BY <3>1
      <3>3. dataset' = [dataset EXCEPT ![d] = row]
        BY <2>1 DEF Revoke
      <3> HIDE DEF row
      <3> QED
        BY <2>1, <3>2, <3>3 DEF Revoke, TypeOK
    <2>2. CASE \E sort \in Sorts : Register(d, sort)
      BY <2>2 DEF Register, TypeOK
    <2> QED
      BY <2>1, <2>2
  <1>2. TypeOK' /\ DatasetsSound'
    <2>1. dataset[d] \in [status : DatasetStates, source : Sources \cup {Absent},
                          consent : {TRUE, FALSE, Absent}]
      BY DEF TypeOK
    <2>2. CASE Revoke(d)
      <3>1. [dataset[d] EXCEPT !.status = "REVOKED"] \in
               [status : DatasetStates, source : Sources \cup {Absent}, consent : {TRUE, FALSE, Absent}]
        BY <2>1 DEF DatasetStates
      <3>2. [dataset[d] EXCEPT !.status = "REVOKED"].status = "REVOKED"
        BY <2>1
      <3> DEFINE row == [dataset[d] EXCEPT !.status = "REVOKED"]
      <3>3. dataset' = [dataset EXCEPT ![d] = row]
        BY <2>2 DEF Revoke
      <3> HIDE DEF row
      <3> QED
        BY <3>1, <3>2, <3>3, <1>1 DEF TypeOK, DatasetsSound, row
    <2>3. ASSUME NEW sort \in Sorts, Register(d, sort)
          PROVE  TypeOK' /\ DatasetsSound'
      <3>1. sort.source \in Sources /\ sort.consent \in {TRUE, FALSE, Absent}
        BY SortsAssumption
      <3> QED
        BY <2>3, <3>1 DEF Register, TypeOK, DatasetStates, DatasetsSound
    <2> QED
      BY <2>2, <2>3
  <1>3. \A q \in Quals : Consented(q) => Consented(q)'
    BY <1>1, OfferAssumption, AbsentAssumption DEF Consented, DatasetsSound, Sources
  <1> QED
    BY <1>1, <1>2, <1>3, QualsFrame, UnracedFrame, PacksFrame

\* A new qualification is a DRAFT that no request holds.
LEMMA CreateStep ==
    ASSUME ReleaseInvariant, NEW q \in Quals, Create(q)
    PROVE  ReleaseInvariant'
  <1> DEFINE row == [qual[q] EXCEPT !.status = "DRAFT"]
  <1> USE DEF ReleaseInvariant
  <1>0. /\ qual \in [Quals -> Rows] /\ qual[q].status = "NONE"
        /\ qual' = [qual EXCEPT ![q] = row]
        /\ UNCHANGED <<dataset, pack, call, up, raced>>
    BY DEF TypeOK, Create
  <1>1. /\ row \in Rows /\ row.status = "DRAFT" /\ row.decision = qual[q].decision
        /\ row.gates = qual[q].gates /\ row.evaluatedBy = qual[q].evaluatedBy
        /\ row.approvedBy = qual[q].approvedBy /\ row.activatedBy = qual[q].activatedBy
    BY <1>0, StatusSet DEF QualStates
  <1> HIDE DEF row
  <1>2. TypeOK' /\ DatasetsSound'
    BY <1>0, <1>1 DEF TypeOK, DatasetsSound
  <1>3. /\ \A r \in Quals \ {q} : qual'[r] = qual[r]
        /\ qual'[q].status = "DRAFT" /\ qual[q].status = "NONE"
        /\ \A r \in Quals : /\ qual'[r].gates = qual[r].gates
                            /\ qual'[r].decision = qual[r].decision
                            /\ qual'[r].evaluatedBy = qual[r].evaluatedBy
                            /\ qual'[r].approvedBy = qual[r].approvedBy
                            /\ qual'[r].activatedBy = qual[r].activatedBy
    BY <1>0, <1>1
  <1>4. \A r \in Quals : Consented(r)' <=> Consented(r)
    BY <1>0 DEF Consented
  <1>5. QualsSound'
    <2>1. \A w, r : r \in Quals /\ RowSound(w, r) => RowSound(w, r)'
      BY <1>4 DEF RowSound
    <2>2. \A r \in Quals : RowSound(qual[r], r)'
      BY <1>3, <1>4 DEF QualsSound, RowSound
    <2>3. ASSUME NEW c \in Calls, IsQualCall(call[c])
          PROVE  CallSound(call[c])'
      <3>1. CallSound(call[c]) /\ call[c].on \in Quals /\ call[c].replaces \subseteq Quals
        BY <2>3, CallRecord DEF QualsSound, QualCalls
      <3> QED
        BY <1>0, <3>1, <2>1, <1>3 DEF CallSound, Beyond
    <2> QED
      BY <1>0, <2>2, <2>3 DEF QualsSound
  <1>6. OneActive'
    BY <1>3 DEF OneActive, ActiveQuals
  <1>7. PacksSound'
    BY <1>0, <1>3, PacksFrame
  <1>8. UnracedClean'
    <2>1. \A r \in Quals \ raced : RowClean(qual[r])'
      BY <1>0, <1>3 DEF UnracedClean, RowClean
    <2>2. ASSUME NEW c \in Calls, IsQualCall(call[c])
          PROVE  CallClean(call[c])'
      <3>1. CallSound(call[c]) /\ CallClean(call[c]) /\ call[c].on \in Quals
            /\ call[c].replaces \subseteq Quals
        BY <2>2, CallRecord DEF QualsSound, UnracedClean, QualCalls
      <3> QED
        BY <1>0, <3>1, <1>3 DEF CallSound, CallClean
    <2> QED
      BY <1>0, <2>1, <2>2 DEF UnracedClean, Held
  <1> QED
    BY <1>2, <1>5, <1>6, <1>7, <1>8

-----------------------------------------------------------------------------
\* A request begins or decides: its record is sound, and what it holds
\* together with another request is on record as raced.
LEMMA CallStep ==
    ASSUME ReleaseInvariant, NEW c \in Calls, NEW k \in QualCalls,
           call' = [call EXCEPT ![c] = k], Race(call'),
           UNCHANGED <<dataset, qual, pack, up>>,
           CallSound(k),
           k.on \notin raced' => CallClean(k),
           \A q \in k.replaces : qual[q].status = "ACTIVE"
    PROVE  ReleaseInvariant'
  <1> USE DEF ReleaseInvariant
  <1>1. /\ call'[c] = k /\ \A d \in Calls \ {c} : call'[d] = call[d]
        /\ IsQualCall(k) /\ k.op # "deploy"
    BY Operations DEF TypeOK, QualCalls, IsQualCall
  <1>2. raced \subseteq raced' /\ raced' \subseteq Quals
    BY DEF Race, TypeOK
  <1>3. TypeOK' /\ DatasetsSound' /\ OneActive'
    BY <1>2 DEF TypeOK, DatasetsSound, OneActive, ActiveQuals
  <1>4. \A q \in Quals : Consented(q)' <=> Consented(q)
    BY DEF Consented
  <1>5. QualsSound'
    <2>1. \A row, q : q \in Quals => (RowSound(row, q)' <=> RowSound(row, q))
      BY <1>4 DEF RowSound
    <2>2. \A j \in QualCalls : CallSound(j) => CallSound(j)'
      BY <2>1 DEF CallSound, QualCalls
    <2>3. \A d \in Calls : IsQualCall(call'[d]) => CallSound(call[d])'
      <3> TAKE d \in Calls
      <3>1. CASE d = c
        BY <3>1, <1>1, <2>2
      <3>2. CASE d # c
        BY <3>2, <1>1, <2>2, CallRecord DEF QualsSound
      <3> QED
        BY <3>1, <3>2
    <2> QED
      BY <2>1, <2>3 DEF QualsSound
  <1>6. PacksSound'
    BY <1>1, PacksFrame
  <1>7. UnracedClean'
    <2>1. \A j \in QualCalls : CallClean(j) => CallClean(j)'
      BY <1>2 DEF CallClean
    <2>2. CallClean(k)'
      BY <1>2 DEF CallClean
    <2>3. \A d \in Calls : IsQualCall(call'[d]) => CallClean(call[d])'
      <3> TAKE d \in Calls
      <3>1. CASE d = c
        BY <3>1, <1>1, <2>2
      <3>2. CASE d # c
        BY <3>2, <1>1, <2>1, CallRecord DEF UnracedClean
      <3> QED
        BY <3>1, <3>2
    <2>4. ASSUME NEW d \in Calls, NEW e \in Calls, d # e
          PROVE  Held(call'[d]) \cap Held(call'[e]) \subseteq raced'
      <3>1. Held(call'[d]) \subseteq Quals
        BY <1>3, HeldQuals DEF TypeOK
      <3> QED
        BY <2>4, <3>1 DEF Race
    <2>5. \A q \in Quals \ raced' : RowClean(qual[q])'
      BY <1>2 DEF UnracedClean, RowClean
    <2> QED
      BY <2>3, <2>4, <2>5 DEF UnracedClean, Held
  <1> QED
    BY <1>3, <1>5, <1>6, <1>7

\* A request ends without effect.
LEMMA AbandonStep ==
    ASSUME ReleaseInvariant, NEW c \in Calls, Abandon(c)
    PROVE  ReleaseInvariant'
  <1> USE DEF ReleaseInvariant, Abandon
  <1>1. /\ \A d \in Calls : call'[d] = call[d] \/ call'[d] = Idle
        /\ UNCHANGED <<dataset, qual, pack, up, raced>>
    BY DEF TypeOK
  <1>2. TypeOK' /\ DatasetsSound'
    BY DEF TypeOK, DatasetsSound
  <1>3. \A d \in Calls : IsQualCall(call'[d]) \/ call'[d].op = "deploy" => call'[d] = call[d]
    BY <1>1, Operations DEF Idle
  <1>4. \A q \in Quals : Consented(q)' <=> Consented(q)
    BY DEF Consented
  <1> QED
    BY <1>1, <1>2, <1>3, <1>4, QualsFrame, UnracedFrame, PacksFrame

\* A request is admitted for the row it fetches.
LEMMA RequestStep ==
    ASSUME ReleaseInvariant, NEW c \in Calls, NEW q \in Quals, NEW p \in People,
           (\E op \in DOMAIN RolesFor \ {"retire"} : Fetch(c, op, q, p)) \/ Retire(c, q, p)
    PROVE  ReleaseInvariant'
  <1> USE DEF ReleaseInvariant
  <1>1. qual[q] \in Rows /\ RowSound(qual[q], q)
    BY DEF TypeOK, QualsSound
  <1>2. ASSUME NEW op \in DOMAIN RolesFor \ {"retire"}, Fetch(c, op, q, p)
        PROVE  ReleaseInvariant'
    <2> DEFINE k == [op |-> op, on |-> q, by |-> p, phase |-> "fetched",
                     seen |-> qual[q], sets |-> qual[q], replaces |-> {}]
    <2>1. /\ call' = [call EXCEPT ![c] = k] /\ Race(call') /\ UNCHANGED <<dataset, qual, pack, up>>
          /\ qual[q].status # "NONE" /\ Admits(op, qual[q], q, p)
      BY <1>2 DEF Fetch, Request
    <2>2. k \in QualCalls
      BY <1>1 DEF QualCalls
    <2>3. Admitted(k)
      BY <2>1, Operations DEF Admitted, Admits
    <2>4. CallSound(k)
      BY <1>1, <2>1, <2>3 DEF CallSound, Beyond
    <2>5. k.on \notin raced' => CallClean(k)
      BY <2>1 DEF CallClean, UnracedClean, Race
    <2> HIDE DEF k
    <2> QED
      BY <2>1, <2>2, <2>4, <2>5, CallStep DEF k
  <1>3. CASE Retire(c, q, p)
    <2> DEFINE row == [qual[q] EXCEPT !.status = "RETIRED"]
               k == [op |-> "retire", on |-> q, by |-> Nobody, phase |-> "decided",
                     seen |-> qual[q], sets |-> row, replaces |-> {}]
    <2>1. /\ call' = [call EXCEPT ![c] = k] /\ Race(call') /\ UNCHANGED <<dataset, qual, pack, up>>
          /\ qual[q].status \in {"APPROVED", "ACTIVE"}
      BY <1>3, Operations DEF Retire, Request, Admits
    <2>2. /\ row \in Rows /\ row.status = "RETIRED" /\ row.decision = qual[q].decision
          /\ row.gates = qual[q].gates /\ row.evaluatedBy = qual[q].evaluatedBy
          /\ row.approvedBy = qual[q].approvedBy /\ row.activatedBy = qual[q].activatedBy
      BY <1>1, StatusSet DEF QualStates
    <2> HIDE DEF row
    <2>3. k \in QualCalls
      BY <1>1, <2>2, Operations DEF QualCalls
    <2>4. CallSound(k)
      BY <1>1, <2>1, <2>2 DEF CallSound, Beyond, RowSound
    <2>5. k.on \notin raced' => CallClean(k)
      <3>1. q \notin raced' => RowClean(qual[q])
        BY <2>1 DEF UnracedClean, Race
      <3>2. RowClean(qual[q]) => RowClean(row)
        BY <2>1, <2>2 DEF RowClean
      <3>3. <<qual[q].status, row.status>> \in Moves
        BY <2>1, <2>2 DEF Moves
      <3> QED
        BY <3>1, <3>2, <3>3 DEF CallClean
    <2> HIDE DEF k
    <2> QED
      BY <2>1, <2>3, <2>4, <2>5, CallStep DEF k, row
  <1> QED
    BY <1>2, <1>3

\* A request decides: what is known of its record when it is written with
\* the row it prepares.
LEMMA PrepareStep ==
    ASSUME ReleaseInvariant, NEW c \in Calls, NEW row \in Rows, NEW replaced \in SUBSET Quals,
           IsQualCall(call[c]), call[c].phase = "fetched",
           Prepare(c, row, replaced),
           RowSound(row, call[c].on), Beyond(row, call[c].seen, call[c].on),
           RowClean(call[c].seen) => RowClean(row),
           <<call[c].seen.status, row.status>> \in Moves \/ row.status = call[c].seen.status,
           \A q \in replaced : qual[q].status = "ACTIVE",
           row.status # "ACTIVE" => replaced = {},
           IF call[c].op \in {"activate", "rollback"}
           THEN row.status = "ACTIVE" /\ call[c].seen.status # "ACTIVE" ELSE row.status # "ACTIVE",
           row.approvedBy # call[c].seen.approvedBy =>
              row.status = "APPROVED" /\ call[c].seen.status = "EVALUATED"
    PROVE  ReleaseInvariant'
  <1> USE DEF ReleaseInvariant
  <1> DEFINE old == call[c]
             k == [old EXCEPT !.phase = "decided", !.sets = row, !.replaces = replaced]
  <1>1. old \in QualCalls /\ CallSound(old) /\ CallClean(old)
    BY CallRecord DEF QualsSound, UnracedClean
  <1>2. call' = [call EXCEPT ![c] = k] /\ Race(call') /\ UNCHANGED <<dataset, qual, pack, up>>
    BY DEF Prepare, TypeOK
  <1>3. /\ k \in QualCalls /\ k.phase = "decided" /\ k.on = old.on /\ k.seen = old.seen
        /\ k.sets = row /\ k.replaces = replaced /\ k.op = old.op
    BY <1>1 DEF QualCalls
  <1> HIDE DEF k
  <1>4. CallSound(k)
    <2>1. \A q \in replaced : qual[q].approvedBy # Nobody
      BY DEF QualsSound, RowSound
    <2> QED
      BY <1>1, <1>3, <2>1 DEF CallSound
  <1>5. k.on \notin raced' => CallClean(k)
    <2>1. raced \subseteq raced'
      BY <1>2 DEF Race
    <2>2. old.on \notin raced => old.seen = qual[old.on] /\ RowClean(qual[old.on])
      BY <1>1 DEF CallClean, UnracedClean, QualCalls
    <2> QED
      BY <1>1, <1>3, <2>1, <2>2 DEF CallClean
  <1> HIDE DEF old
  <1> QED
    BY <1>2, <1>3, <1>4, <1>5, CallStep

\* The three decisions.  Where the registered core has gates the evaluation
\* records these, whatever lies on disk; where it has none, no decision GO.
LEMMA DecideStep ==
    ASSUME ReleaseInvariant, NEW c \in Calls, NEW e \in Written,
           Evaluate(c, e) \/ Approve(c, e) \/ Promote(c, e)
    PROVE  ReleaseInvariant'
  <1> USE DEF ReleaseInvariant
  <1> DEFINE k == call[c]
  <1>1. IsQualCall(k) /\ k.phase = "fetched"
    BY Operations DEF Evaluate, Approve, Promote, IsQualCall
  <1>2. k \in QualCalls /\ CallSound(k) /\ Admitted(k)
    BY <1>1, CallRecord DEF QualsSound, CallSound
  <1>3. /\ k.seen \in Rows /\ k.on \in Quals /\ RowSound(k.seen, k.on) /\ k.by \in People
        /\ k.by # Nobody
    BY <1>2, PeopleAssumption DEF QualCalls, CallSound, Admitted
  <1>4. CASE Evaluate(c, e)
    <2> DEFINE status == IF GateDecisionOf(e) = "GO" /\ e.release.approval = "PENDING_APPROVAL"
                         THEN "EVALUATED" ELSE "DRAFT"
               decision == IF e.release.decision = Absent THEN EmptyQual.decision
                           ELSE e.release.decision
               row == [k.seen EXCEPT !.status = status, !.decision = decision,
                                     !.gates = GatesOf(e), !.evaluatedBy = k.by]
    <2>1. /\ Prepare(c, row, {}) /\ k.op = "evaluate" /\ k.seen.status = "DRAFT"
          /\ e.core = Offer[k.on].core
          /\ e.release.decision \in {CoreGates(e.core).decision, CoreGates(e.core).report}
      BY <1>4, <1>2 DEF Evaluate, Admitted, Verified, VerifiedByBackend, EmptyQual
    <2>2. /\ HasGates(k.on) => GatesOf(e) = Offer[k.on].core.gates
          /\ ~HasGates(k.on) => decision = "INSUFFICIENT_EVIDENCE"
      BY <2>1 DEF HasGates, GatesOf, CoreGates, NoGates, EmptyQual
    <2>3. status \in QualStates /\ status \in {"DRAFT", "EVALUATED"}
      BY DEF QualStates
    <2>4. decision \in {f.release.decision : f \in Written} \cup {EmptyQual.decision} /\
          GatesOf(e) \in {GatesOf(f) : f \in Written}
      OBVIOUS
    <2> HIDE DEF decision, status
    <2>5. /\ row \in Rows /\ row.status = status /\ row.gates = GatesOf(e) /\ row.evaluatedBy = k.by
          /\ row.decision = decision
          /\ row.approvedBy = k.seen.approvedBy /\ row.activatedBy = k.seen.activatedBy
      BY <1>3, <2>3, <2>4 DEF Rows
    <2> HIDE DEF row
    <2>6. ~Passed(NoGates)
      BY NoGatesFail
    <2>7. RowSound(row, k.on) /\ Beyond(row, k.seen, k.on)
      BY <1>3, <2>2, <2>3, <2>5, <2>6 DEF RowSound, Beyond
    <2>8. RowClean(k.seen) => RowClean(row)
      BY <2>1, <2>3, <2>5 DEF RowClean
    <2>9. <<k.seen.status, row.status>> \in Moves \/ row.status = k.seen.status
      BY <2>1, <2>3, <2>5 DEF Moves
    <2> QED
      BY <1>1, <2>1, <2>3, <2>5, <2>7, <2>8, <2>9, PrepareStep
  <1>5. CASE Approve(c, e)
    <2> DEFINE row == [k.seen EXCEPT !.status = "APPROVED", !.approvedBy = k.by]
    <2>1. /\ Prepare(c, row, {}) /\ Consented(k.on)
          /\ k.op = "approve" /\ k.seen.status = "EVALUATED" /\ k.seen.evaluatedBy # k.by
          /\ Passed(k.seen.gates)
      BY <1>5, <1>2 DEF Approve, Admitted, Authorized
    <2>2. /\ row \in Rows /\ row.status = "APPROVED" /\ row.gates = k.seen.gates
          /\ row.evaluatedBy = k.seen.evaluatedBy /\ row.approvedBy = k.by
          /\ row.decision = k.seen.decision
          /\ row.activatedBy = k.seen.activatedBy
      BY <1>3 DEF Rows, QualStates
    <2> HIDE DEF row
    <2>3. RowSound(row, k.on) /\ Beyond(row, k.seen, k.on)
      BY <1>3, <2>1, <2>2 DEF RowSound, Beyond
    <2>4. RowClean(k.seen) => RowClean(row)
      BY <2>1, <2>2 DEF RowClean
    <2>5. <<k.seen.status, row.status>> \in Moves
      BY <2>1, <2>2 DEF Moves
    <2> QED
      BY <1>1, <2>1, <2>2, <2>3, <2>4, <2>5, PrepareStep
  <1>6. CASE Promote(c, e)
    <2> DEFINE row == [k.seen EXCEPT !.status = "ACTIVE", !.activatedBy = k.by]
               replaced == ActiveQuals \ {k.on}
    <2>1. /\ Prepare(c, row, replaced)
          /\ k.op \in {"activate", "rollback"} /\ k.seen.status \in {"APPROVED", "RETIRED"}
          /\ k.by \notin {k.seen.evaluatedBy, k.seen.approvedBy}
      BY <1>6, <1>2 DEF Promote, Admitted
    <2>2. /\ row \in Rows /\ row.status = "ACTIVE" /\ row.gates = k.seen.gates
          /\ row.evaluatedBy = k.seen.evaluatedBy /\ row.approvedBy = k.seen.approvedBy
          /\ row.decision = k.seen.decision
          /\ row.activatedBy = k.by
      BY <1>3 DEF Rows, QualStates
    <2> HIDE DEF row
    <2>3. RowSound(row, k.on) /\ Beyond(row, k.seen, k.on)
      BY <1>3, <2>1, <2>2 DEF RowSound, Beyond
    <2>4. RowClean(k.seen) => RowClean(row)
      BY <2>1, <2>2 DEF RowClean
    <2>5. <<k.seen.status, row.status>> \in Moves
      BY <2>1, <2>2 DEF Moves
    <2>6. replaced \in SUBSET Quals /\ \A q \in replaced : qual[q].status = "ACTIVE"
      BY DEF ActiveQuals
    <2> HIDE DEF replaced
    <2> QED
      BY <1>1, <2>1, <2>2, <2>3, <2>4, <2>5, <2>6, PrepareStep
  <1> QED
    BY <1>4, <1>5, <1>6

\* What a commit does to every row.
LEMMA CommitRows ==
    ASSUME ReleaseInvariant, NEW c \in Calls, Commit(c)
    PROVE  LET k == call[c] IN
           /\ IsQualCall(k) /\ k \in QualCalls /\ CallSound(k) /\ CallClean(k)
           /\ qual'[k.on] = Changed(qual[k.on], k)
           /\ \A q \in Quals \ {k.on} :
                 /\ q \in k.replaces => qual'[q] = [qual[q] EXCEPT !.status = "RETIRED"]
                 /\ q \notin k.replaces => qual'[q] = qual[q]
           /\ \A q \in Quals : qual'[q] \in Rows /\ Beyond(qual'[q], qual[q], q)
           /\ \A q \in Quals \ {k.on} : qual'[q].approvedBy = qual[q].approvedBy
           /\ \A q \in Quals : RowSound(qual'[q], q)
           /\ qual' \in [Quals -> Rows]
  <1> USE DEF ReleaseInvariant
  <1> DEFINE k == call[c]
  <1>1. IsQualCall(k) /\ k \in QualCalls /\ CallSound(k) /\ CallClean(k)
    BY CallRecord DEF Commit, IsQualCall, QualsSound, UnracedClean
  <1>2. k.on \in Quals /\ k.replaces \subseteq Quals
    BY <1>1 DEF QualCalls
  <1>3. /\ qual'[k.on] = Changed(qual[k.on], k)
        /\ \A q \in Quals \ {k.on} :
              /\ q \in k.replaces => qual'[q] = [qual[q] EXCEPT !.status = "RETIRED"]
              /\ q \notin k.replaces => qual'[q] = qual[q]
        /\ qual' = [q \in Quals |-> qual'[q]]
    BY <1>2 DEF Commit
  <1> HIDE DEF k
  <1>4. /\ qual'[k.on] \in Rows /\ RowSound(qual'[k.on], k.on) /\ Beyond(qual'[k.on], qual[k.on], k.on)
    <2>1. qual[k.on] \in Rows /\ RowSound(qual[k.on], k.on)
      BY <1>2 DEF TypeOK, QualsSound
    <2>2. Changed(qual[k.on], k) \in Rows
      BY <1>1, <2>1, ChangedFields
    <2>3. RowSound(Changed(qual[k.on], k), k.on) /\ Beyond(Changed(qual[k.on], k), qual[k.on], k.on)
      BY <1>1, <2>1, ChangedSound
    <2> QED
      BY <1>3, <2>2, <2>3
  <1>5. ASSUME NEW q \in Quals \ {k.on}
        PROVE  /\ qual'[q] \in Rows /\ RowSound(qual'[q], q) /\ Beyond(qual'[q], qual[q], q)
               /\ qual'[q].approvedBy = qual[q].approvedBy
    <2>1. qual[q] \in Rows /\ RowSound(qual[q], q)
      BY DEF TypeOK, QualsSound
    <2>2. CASE q \notin k.replaces
      BY <2>1, <2>2, <1>3 DEF Beyond
    <2>3. CASE q \in k.replaces
      <3>1. qual[q].approvedBy # Nobody
        BY <2>3, <1>1 DEF CallSound
      <3> DEFINE row == [qual[q] EXCEPT !.status = "RETIRED"]
      <3>2. /\ row \in Rows /\ row.gates = qual[q].gates /\ row.decision = qual[q].decision
            /\ row.evaluatedBy = qual[q].evaluatedBy
            /\ row.approvedBy = qual[q].approvedBy
        BY <2>1, StatusSet DEF QualStates
      <3>3. qual'[q] = row
        BY <2>3, <1>3
      <3> HIDE DEF row
      <3> QED
        BY <2>1, <3>1, <3>2, <3>3 DEF RowSound, Beyond
    <2> QED
      BY <2>2, <2>3
  <1>6. qual' \in [Quals -> Rows]
    BY <1>3, <1>4, <1>5
  <1> QED
    BY <1>1, <1>3, <1>4, <1>5, <1>6 DEF k

\* After a commit at most one row is ACTIVE: the one that was activated, or
\* the one that was before.
LEMMA CommitLive ==
    ASSUME ReleaseInvariant, NEW c \in Calls, Commit(c)
    PROVE  LET k == call[c] IN
           /\ k.sets.status = "ACTIVE" => ActiveQuals' \subseteq {k.on}
           /\ k.sets.status # "ACTIVE" => ActiveQuals' = ActiveQuals \/ ActiveQuals' = ActiveQuals \ {k.on}
  <1> USE DEF ReleaseInvariant
  <1> DEFINE k == call[c]
  <1>1. /\ IsQualCall(k) /\ k \in QualCalls /\ CallSound(k)
        /\ qual'[k.on] = Changed(qual[k.on], k)
        /\ \A q \in Quals \ {k.on} :
              /\ q \in k.replaces => qual'[q] = [qual[q] EXCEPT !.status = "RETIRED"]
              /\ q \notin k.replaces => qual'[q] = qual[q]
    BY CommitRows
  <1>2. k.on \in Quals /\ qual[k.on] \in Rows /\ k.replaces \subseteq Quals
    BY <1>1 DEF QualCalls, TypeOK
  <1>3. CASE k.sets.status = "ACTIVE"
    <2>1. {q \in ActiveQuals \ {k.on} : q \in k.replaces => q > k.on} = {}
      BY <1>3 DEF Commit, Blocking
    <2>2. ASSUME NEW q \in Quals \ {k.on}
          PROVE  qual'[q].status # "ACTIVE"
      <3>1. CASE q \in k.replaces
        <4>1. qual[q] \in Rows
          BY DEF TypeOK
        <4>2. [qual[q] EXCEPT !.status = "RETIRED"].status = "RETIRED"
          BY <4>1, StatusSet DEF QualStates
        <4> QED
          BY <3>1, <1>1, <4>2
      <3>2. CASE q \notin k.replaces
        BY <3>2, <2>1, <1>1 DEF ActiveQuals
      <3> QED
        BY <3>1, <3>2
    <2> QED
      BY <1>3, <2>2 DEF ActiveQuals
  <1>4. CASE k.sets.status # "ACTIVE"
    <2>1. k.replaces = {}
      BY <1>1, <1>4 DEF CallSound
    <2>2. \A q \in Quals \ {k.on} : qual'[q] = qual[q]
      BY <1>1, <2>1
    <2>3. qual'[k.on].status = "ACTIVE" => qual[k.on].status = "ACTIVE"
      BY <1>1, <1>2, <1>4, ChangedFields
    <2> QED
      BY <1>4, <2>2, <2>3 DEF ActiveQuals
  <1> QED
    BY <1>3, <1>4

\* A commit: the row may have moved on, other requests may hold the rows.
LEMMA CommitStep ==
    ASSUME ReleaseInvariant, NEW c \in Calls, Commit(c)
    PROVE  ReleaseInvariant'
  <1> USE DEF ReleaseInvariant
  <1> DEFINE k == call[c]
  <1>1. /\ IsQualCall(k) /\ k \in QualCalls /\ CallSound(k) /\ CallClean(k)
        /\ qual'[k.on] = Changed(qual[k.on], k)
        /\ \A q \in Quals \ {k.on} :
              /\ q \in k.replaces => qual'[q] = [qual[q] EXCEPT !.status = "RETIRED"]
              /\ q \notin k.replaces => qual'[q] = qual[q]
        /\ \A q \in Quals : qual'[q] \in Rows /\ Beyond(qual'[q], qual[q], q) /\ RowSound(qual'[q], q)
        /\ qual' \in [Quals -> Rows]
    BY CommitRows
  <1>2. k.on \in Quals /\ k.seen \in Rows /\ k.sets \in Rows /\ k.replaces \subseteq Quals
    BY <1>1 DEF QualCalls
  <1>3. /\ call'[c] = Idle /\ \A d \in Calls \ {c} : call'[d] = call[d]
        /\ call' = [call EXCEPT ![c] = Idle]
        /\ UNCHANGED <<dataset, pack, up, raced>>
    BY DEF Commit, TypeOK
  <1>4. TypeOK' /\ DatasetsSound'
    BY <1>1, <1>3 DEF TypeOK, DatasetsSound
  <1>5. \A q \in Quals : Consented(q)' <=> Consented(q)
    BY <1>3 DEF Consented
  <1>6. QualsSound'
    <2>1. \A row, q : q \in Quals => (RowSound(row, q)' <=> RowSound(row, q))
      BY <1>5 DEF RowSound
    <2>2. ASSUME NEW q \in Quals
          PROVE  RowSound(qual[q], q)'
      <3>1. RowSound(qual'[q], q)
        BY <1>1
      <3> QED
        BY <3>1, <1>5 DEF RowSound
    <2>3. ASSUME NEW d \in Calls, IsQualCall(call'[d])
          PROVE  CallSound(call[d])'
      <3>1. d # c /\ call'[d] = call[d] /\ IsQualCall(call[d])
        BY <2>3, <1>3, Operations
      <3>2. CallSound(call[d]) /\ call[d].on \in Quals /\ call[d].replaces \subseteq Quals
        BY <3>1, CallRecord DEF QualsSound, QualCalls
      <3>3. Beyond(qual'[call[d].on], call[d].seen, call[d].on)
        BY <3>2, <1>1 DEF CallSound, Beyond
      <3>4. \A q \in call[d].replaces : qual'[q].approvedBy # Nobody
        BY <3>2, <1>1 DEF CallSound, Beyond
      <3> QED
        BY <3>1, <3>2, <3>3, <3>4, <2>1 DEF CallSound
    <2> QED
      BY <2>2, <2>3 DEF QualsSound
  <1>7. OneActive'
    BY CommitLive DEF OneActive
  <1>8. PacksSound'
    <2>1. \A q \in Quals : qual[q].approvedBy # Nobody => qual'[q].approvedBy # Nobody
      BY <1>1 DEF Beyond
    <2>2. \A d \in Calls : call'[d].op = "deploy" => call'[d] = call[d]
      BY <1>3 DEF Idle
    <2> QED
      BY <1>3, <2>1, <2>2, PacksFrame
  <1>9. UnracedClean'
    <2>1. \A d \in Calls : Held(call'[d]) \subseteq Held(call[d])
      BY <1>3, CallRecord, Operations DEF Held, IsQualCall
    <2>2. k.on \notin raced => qual'[k.on] = k.sets /\ RowClean(k.sets)
      <3>1. qual[k.on] \in Rows
        BY <1>2 DEF TypeOK
      <3> QED
        BY <1>1, <3>1, ChangedFields DEF CallClean
    <2>3. ASSUME NEW q \in Quals \ raced
          PROVE  RowClean(qual'[q])
      <3>1. CASE q = k.on
        BY <3>1, <2>2
      <3>2. CASE q # k.on /\ q \notin k.replaces
        BY <3>2, <1>1 DEF UnracedClean
      <3>3. CASE q # k.on /\ q \in k.replaces
        <4>1. qual[q].status = "ACTIVE" /\ RowClean(qual[q]) /\ qual[q] \in Rows
          BY <3>3, <1>1 DEF CallClean, UnracedClean, TypeOK
        <4> DEFINE row == [qual[q] EXCEPT !.status = "RETIRED"]
        <4>2. /\ row.status = "RETIRED" /\ row.evaluatedBy = qual[q].evaluatedBy
              /\ row.gates = qual[q].gates
              /\ row.approvedBy = qual[q].approvedBy /\ row.activatedBy = qual[q].activatedBy
          BY <4>1, StatusSet DEF QualStates
        <4>3. qual'[q] = row
          BY <3>3, <1>1
        <4> HIDE DEF row
        <4> QED
          BY <4>1, <4>2, <4>3 DEF RowClean
      <3> QED
        BY <3>1, <3>2, <3>3
    <2>4. ASSUME NEW d \in Calls, IsQualCall(call'[d])
          PROVE  CallClean(call[d])'
      <3>1. d # c /\ call'[d] = call[d] /\ IsQualCall(call[d])
        BY <2>4, <1>3, Operations
      <3>2. CallClean(call[d]) /\ call[d] \in QualCalls
        BY <3>1, CallRecord DEF UnracedClean
      <3>3. \A q \in Held(call[d]) \ raced : q # k.on /\ q \notin k.replaces
        BY <3>1, <1>1 DEF UnracedClean, Held, IsQualCall
      <3>4. \A q \in Held(call[d]) \ raced : qual'[q] = qual[q]
        BY <3>2, <3>3, <1>1, HeldQuals
      <3>5. Held(call[d]) = {call[d].on} \cup call[d].replaces
        BY <3>1 DEF Held, IsQualCall
      <3> QED
        BY <3>1, <3>2, <3>4, <3>5, <1>3 DEF CallClean
    <2>5. \A q \in Quals \ raced' : RowClean(qual[q])'
      BY <2>3, <1>3 DEF RowClean
    <2> QED
      BY <2>1, <2>4, <2>5, <1>3 DEF UnracedClean
  <1> QED
    BY <1>4, <1>6, <1>7, <1>8, <1>9

-----------------------------------------------------------------------------
\* Packs: what a person makes live stays backed by the qualification that
\* was found for it.
LEMMA PackStep ==
    ASSUME ReleaseInvariant,
           \/ \E m \in Manifests : CreatePack(m)
           \/ \E c \in Calls, v \in Versions : Deploy(c, v)
           \/ \E c \in Calls : FindQualification(c) \/ FindActive(c) \/ CommitDeploy(c)
    PROVE  ReleaseInvariant'
  <1> USE DEF ReleaseInvariant
  <1>1. UNCHANGED <<dataset, qual, up, raced>>
    BY DEF CreatePack, Deploy, FindQualification, FindActive, CommitDeploy
  <1>2. (\A q \in Quals : Consented(q)' <=> Consented(q)) /\ DatasetsSound'
    BY <1>1 DEF Consented, DatasetsSound
  <1>3. \A q \in Quals : qual'[q].approvedBy = qual[q].approvedBy
    BY <1>1
  <1>4. ASSUME NEW m \in Manifests, CreatePack(m)
        PROVE  ReleaseInvariant'
    <2>1. /\ m.version \in Versions /\ call' = call /\ pack[m.version].status = "NONE"
          /\ pack' = [pack EXCEPT ![m.version] = [status |-> "DRAFT", manifest |-> m, system |-> FALSE]]
      BY <1>4, ManifestsAssumption DEF CreatePack
    <2>2. TypeOK'
      BY <1>1, <2>1 DEF TypeOK, PackStates
    <2>3. PacksSound'
      <3>1. \A v \in Versions \ {m.version} : pack'[v] = pack[v]
        BY <2>1 DEF TypeOK
      <3>2. \A v \in Versions \ {m.version} : Backed(v) => Backed(v)'
        BY <1>1, <3>1 DEF Backed
      <3>3. pack'[m.version].status = "DRAFT"
        BY <2>1 DEF TypeOK
      <3>4. \A c \in Calls : call[c].op = "deploy" => call[c].on \in Versions \ {m.version}
        BY <2>1, CallRecord DEF PacksSound, DeployCalls
      <3> QED
        BY <2>1, <3>1, <3>2, <3>3, <3>4 DEF PacksSound, ActivePacks
    <2> QED
      BY <1>1, <1>2, <2>1, <2>2, <2>3, QualsFrame, UnracedFrame
  <1>5. ASSUME NEW c \in Calls, NEW k \in DeployCalls,
               call' = [call EXCEPT ![c] = k], pack' = pack,
               pack[k.on].status # "NONE", k.phase # "fetched" => Backed(k.on)
        PROVE  ReleaseInvariant'
    <2>1. TypeOK'
      BY <1>1, <1>5 DEF TypeOK
    <2>2. \A d \in Calls : call'[d] = IF d = c THEN k ELSE call[d]
      BY <1>5 DEF TypeOK
    <2>3. \A w : Backed(w) => Backed(w)'
      BY <1>1, <1>5 DEF Backed
    <2>4. PacksSound'
      BY <1>5, <2>2, <2>3 DEF PacksSound, ActivePacks
    <2>5. \A d \in Calls : IsQualCall(call'[d]) => call'[d] = call[d]
      BY <2>2, Operations
    <2> QED
      BY <1>1, <1>2, <1>5, <2>1, <2>4, <2>5, QualsFrame, UnracedFrame
  <1>6. ASSUME NEW c \in Calls, NEW v \in Versions, Deploy(c, v)
        PROVE  ReleaseInvariant'
    <2> DEFINE k == [op |-> "deploy", on |-> v, phase |-> "fetched", seen |-> pack[v].status,
                     replaces |-> {}]
    <2>1. call' = [call EXCEPT ![c] = k] /\ pack' = pack /\ pack[v].status # "NONE"
      BY <1>6 DEF Deploy
    <2>2. k \in DeployCalls /\ k.on = v /\ k.phase = "fetched"
      BY DEF DeployCalls, TypeOK
    <2> HIDE DEF k
    <2> QED
      BY <1>5, <2>1, <2>2
  <1>7. ASSUME NEW c \in Calls, FindQualification(c)
        PROVE  ReleaseInvariant'
    <2> DEFINE k == [call[c] EXCEPT !.phase = "qualified"]
    <2>1. /\ call[c] \in DeployCalls /\ call[c].op = "deploy"
          /\ call' = [call EXCEPT ![c] = k] /\ pack' = pack /\ Deployable(call[c].on)
      BY <1>7, CallRecord DEF FindQualification, TypeOK
    <2>2. k \in DeployCalls /\ k.on = call[c].on
      BY <2>1 DEF DeployCalls
    <2> HIDE DEF k
    <2>3. Backed(call[c].on)
      <3>1. \A q \in Quals : qual[q].status = "ACTIVE" /\ qual[q].decision = "GO" =>
               HasGates(q) /\ qual[q].approvedBy # Nobody
        BY DEF QualsSound, RowSound
      <3> QED
        BY <2>1, <3>1 DEF Deployable, Qualifies, Backed
    <2> QED
      BY <1>5, <2>1, <2>2, <2>3 DEF PacksSound
  <1>8. ASSUME NEW c \in Calls, FindActive(c)
        PROVE  ReleaseInvariant'
    <2> DEFINE k == [call[c] EXCEPT !.phase = "decided", !.replaces = ActivePacks \ {call[c].on}]
    <2>1. /\ call[c] \in DeployCalls /\ call[c].op = "deploy" /\ call[c].phase = "qualified"
          /\ call' = [call EXCEPT ![c] = k] /\ pack' = pack
      BY <1>8, CallRecord DEF FindActive, TypeOK
    <2>2. k \in DeployCalls /\ k.on = call[c].on
      BY <2>1 DEF DeployCalls, ActivePacks
    <2> HIDE DEF k
    <2> QED
      BY <1>5, <2>1, <2>2 DEF PacksSound
  <1>9. ASSUME NEW c \in Calls, CommitDeploy(c)
        PROVE  ReleaseInvariant'
    <2> DEFINE k == call[c]
    <2>1. /\ k \in DeployCalls /\ k.on \in Versions /\ Backed(k.on)
          /\ pack[k.on].status # "NONE"
      BY <1>9, CallRecord DEF CommitDeploy, DeployCalls, PacksSound
    <2>2. /\ call' = [call EXCEPT ![c] = Idle]
          /\ \A d \in Calls : call'[d] = IF d = c THEN Idle ELSE call[d]
      BY <1>9 DEF CommitDeploy, TypeOK
    <2>3. ASSUME NEW v \in Versions
          PROVE  /\ pack'[v] \in [status : PackStates, manifest : Manifests \cup Images \cup {Absent}, system : BOOLEAN]
                 /\ pack'[v].manifest = pack[v].manifest
                 /\ v # k.on /\ pack'[v].status = "ACTIVE" =>
                       pack[v].status = "ACTIVE" /\ pack'[v].system = pack[v].system
                 /\ pack[v].status # "NONE" => pack'[v].status # "NONE"
      <3>1. pack[v] \in [status : PackStates, manifest : Manifests \cup Images \cup {Absent}, system : BOOLEAN]
        BY DEF TypeOK
      <3>2. \/ v = k.on /\ \E s \in {"ACTIVE", pack[v].status} :
                              pack'[v] = [pack[v] EXCEPT !.system = FALSE, !.status = s]
            \/ v # k.on /\ pack'[v] = [pack[v] EXCEPT !.status = "RETIRED"]
            \/ v # k.on /\ pack'[v] = pack[v]
        BY <1>9 DEF CommitDeploy
      <3> QED
        BY <3>1, <3>2 DEF PackStates
    <2>4. pack' = [v \in Versions |-> pack'[v]]
      BY <1>9 DEF CommitDeploy
    <2>5. TypeOK'
      <3>1. pack' \in [Versions -> [status : PackStates, manifest : Manifests \cup Images \cup {Absent},
                                    system : BOOLEAN]]
        BY <2>3, <2>4
      <3> QED
        BY <1>1, <2>2, <3>1 DEF TypeOK
    <2>6. \A v \in Versions : Backed(v) => Backed(v)'
      BY <1>1, <2>3 DEF Backed
    <2>7. PacksSound'
      <3>1. \A v \in Versions : pack'[v].status = "ACTIVE" /\ ~pack'[v].system => Backed(v)'
        BY <2>1, <2>3, <2>6 DEF PacksSound, ActivePacks
      <3>2. ASSUME NEW d \in Calls, call'[d].op = "deploy"
            PROVE  /\ pack'[call'[d].on].status # "NONE"
                   /\ call'[d].phase # "fetched" => Backed(call[d].on)'
        <4>1. call'[d] = call[d] /\ call[d] \in DeployCalls
          BY <3>2, <2>2, CallRecord DEF Idle
        <4>2. /\ call[d].on \in Versions /\ pack[call[d].on].status # "NONE"
              /\ call[d].phase # "fetched" => Backed(call[d].on)
          BY <4>1, <3>2 DEF PacksSound, DeployCalls
        <4>3. Backed(call[d].on)' <=> \E v \in Versions : v = call[d].on /\ Backed(v)'
          BY <4>1, <4>2 DEF Backed
        <4> QED
          BY <4>1, <4>2, <4>3, <2>3, <2>6
      <3> QED
        BY <3>1, <3>2 DEF PacksSound, ActivePacks
    <2>8. \A d \in Calls : call'[d] = call[d] \/ ~IsQualCall(call'[d])
      BY <2>2, Operations
    <2> QED
      BY <1>1, <1>2, <2>5, <2>7, <2>8, QualsFrame, UnracedFrame
  <1> QED
    BY <1>4, <1>6, <1>7, <1>8, <1>9

\* A restart drops the requests in flight; only packs that the system
\* installed change.
LEMMA RestartStep ==
    ASSUME ReleaseInvariant, NEW m \in Images, Restart(m) \/ FailedRestart(m)
    PROVE  ReleaseInvariant'
  <1> USE DEF ReleaseInvariant
  <1>1. /\ UNCHANGED <<dataset, qual, raced>> /\ up' \in BOOLEAN
        /\ call' = [c \in Calls |-> Idle]
        /\ \A c \in Calls : call'[c] = Idle /\ call'[c].op = "idle"
    <2>1. /\ UNCHANGED <<dataset, qual, raced>> /\ up' \in BOOLEAN
          /\ call' = [c \in Calls |-> Idle]
      BY DEF Restart, FailedRestart
    <2>2. Idle.op = "idle"
      BY DEF Idle
    <2> QED
      BY <2>1, <2>2
  <1>2. (\A q \in Quals : Consented(q)' <=> Consented(q)) /\ DatasetsSound'
    BY <1>1 DEF Consented, DatasetsSound
  <1>3. ASSUME NEW v \in Versions
        PROVE  /\ pack'[v] \in [status : PackStates, manifest : Manifests \cup Images \cup {Absent}, system : BOOLEAN]
               /\ pack'[v].status = "ACTIVE" /\ ~pack'[v].system =>
                     pack[v].status = "ACTIVE" /\ ~pack[v].system /\ pack'[v].manifest = pack[v].manifest
    <2>1. pack[v] \in [status : PackStates, manifest : Manifests \cup Images \cup {Absent}, system : BOOLEAN]
      BY DEF TypeOK
    <2>2. \/ pack'[v] = pack[v]
          \/ v = m.version /\ pack[v].system /\ pack'[v] = [pack[v] EXCEPT !.manifest = m]
          \/ pack'[v] = [status |-> "ACTIVE", manifest |-> m, system |-> TRUE]
          \/ pack'[v] = [pack[v] EXCEPT !.status = "RETIRED"]
      <3>1. CASE pack' = pack
        BY <3>1
      <3>2. CASE m.version \in Outdated(m) /\ pack' = [pack EXCEPT ![m.version].manifest = m]
        BY <2>1, <3>2 DEF Outdated, TypeOK
      <3>3. CASE pack' = [w \in Versions |->
                   IF w = m.version THEN Install(m)
                   ELSE IF w \in ActivePacks THEN [pack[w] EXCEPT !.status = "RETIRED"] ELSE pack[w]]
        BY <3>3 DEF Install
      <3> QED
        BY <3>1, <3>2, <3>3 DEF Restart, FailedRestart
    <2>3. CASE v = m.version /\ pack[v].system /\ pack'[v] = [pack[v] EXCEPT !.manifest = m]
      <3> DEFINE row == [pack[v] EXCEPT !.manifest = m]
      <3>1. /\ row \in [status : PackStates, manifest : Manifests \cup Images \cup {Absent}, system : BOOLEAN]
            /\ row.system = pack[v].system
        BY <2>1
      <3> HIDE DEF row
      <3> QED
        BY <2>3, <3>1 DEF row
    <2>4. CASE pack'[v] = [status |-> "ACTIVE", manifest |-> m, system |-> TRUE]
      BY <2>4 DEF PackStates
    <2>5. CASE pack'[v] = [pack[v] EXCEPT !.status = "RETIRED"]
      <3> DEFINE row == [pack[v] EXCEPT !.status = "RETIRED"]
      <3>1. /\ row \in [status : PackStates, manifest : Manifests \cup Images \cup {Absent}, system : BOOLEAN]
            /\ row.status = "RETIRED"
        BY <2>1 DEF PackStates
      <3> HIDE DEF row
      <3> QED
        BY <2>5, <3>1 DEF row
    <2> QED
      BY <2>1, <2>2, <2>3, <2>4, <2>5
  <1>4. pack' \in [Versions -> [status : PackStates, manifest : Manifests \cup Images \cup {Absent},
                                system : BOOLEAN]]
    <2>1. pack' = [v \in Versions |-> pack'[v]]
      BY ManifestsAssumption DEF Restart, FailedRestart, TypeOK
    <2> QED
      BY <1>3, <2>1
  <1>5. TypeOK'
    BY <1>1, <1>4 DEF TypeOK
  <1>6. PacksSound'
    <2>1. ASSUME NEW v \in Versions, pack'[v].status = "ACTIVE", ~pack'[v].system
          PROVE  Backed(v)'
      <3>1. Backed(v)
        BY <2>1, <1>3 DEF PacksSound, ActivePacks
      <3> QED
        BY <3>1, <2>1, <1>1, <1>3 DEF Backed
    <2> QED
      BY <1>1, <2>1 DEF PacksSound, ActivePacks
  <1>7. \A c \in Calls : ~IsQualCall(call'[c])
    BY <1>1, Operations
  <1> QED
    BY <1>1, <1>2, <1>5, <1>6, <1>7, QualsFrame, UnracedFrame

-----------------------------------------------------------------------------
\* Every step of the release lifecycle keeps the invariant.
LEMMA NextInvariant == ReleaseInvariant /\ [Next]_vars => ReleaseInvariant'
  <1> SUFFICES ASSUME ReleaseInvariant, [Next]_vars PROVE ReleaseInvariant'
    OBVIOUS
  <1>1. CASE DatasetNext
    BY <1>1, DatasetStep DEF DatasetNext
  <1>2. CASE QualNext
    BY <1>2, CreateStep, RequestStep, DecideStep, AbandonStep, CommitStep DEF QualNext
  <1>3. CASE PackNext
    BY <1>3, PackStep, RestartStep DEF PackNext
  <1>4. CASE UNCHANGED vars
    <2> USE <1>4 DEF vars, ReleaseInvariant
    <2>1. TypeOK' /\ DatasetsSound'
      BY DEF TypeOK, DatasetsSound
    <2>2. \A q \in Quals : Consented(q)' <=> Consented(q)
      BY DEF Consented
    <2> QED
      BY <2>1, <2>2, QualsFrame, UnracedFrame, PacksFrame
  <1> QED
    BY <1>1, <1>2, <1>3, <1>4 DEF Next

\* The invariant of the release lifecycle holds in every reachable state.
THEOREM ReleaseInvariantHolds == Spec => []ReleaseInvariant
  <1> QED
    BY InitInvariant, NextInvariant, PTL DEF Spec

\* Type correctness of the registrations, qualifications, packs and requests.
THEOREM ReleaseTypeOK == Spec => []TypeOK
  <1>1. ReleaseInvariant => TypeOK
    BY DEF ReleaseInvariant
  <1> QED
    BY <1>1, ReleaseInvariantHolds, PTL

\* A row has earned its release exactly when it names an approver.
LEMMA EarnedIsApproved ==
    ReleaseInvariant => \A q \in Quals : Earned(q) <=> qual[q].approvedBy # Nobody
  BY DEF ReleaseInvariant, QualsSound, RowSound, UnracedClean, RowClean, HasGates,
     Earned, Vetted, GatesSettled

\* The same after a step.
LEMMA EarnedIsApprovedNext ==
    ReleaseInvariant' => \A q \in Quals : Earned(q)' <=> qual'[q].approvedBy # Nobody
  BY DEF ReleaseInvariant, QualsSound, RowSound, UnracedClean, RowClean, HasGates,
     Earned, Vetted, GatesSettled

\* No interleaving of requests, no loss of a request and no change of the
\* evidence on disk gets a model approved or live without an evaluator, an
\* approver and the customer's consent, nor with a gate failed, unless its
\* registered core has no gates and two requests held it at once.
THEOREM NothingUnearnedIsLive == Spec => []ActiveWasEarned
  <1>1. ReleaseInvariant => ActiveWasEarned
    BY EarnedIsApproved DEF ReleaseInvariant, QualsSound, RowSound, ActiveWasEarned
  <1> QED
    BY <1>1, ReleaseInvariantHolds, PTL

\* Evaluation, approval and activation of a qualification are the work of
\* different people unless two requests held it at once.
THEOREM DistinctActors == Spec => []SeparationUnlessRaced
  <1>1. ReleaseInvariant => SeparationUnlessRaced
    BY DEF ReleaseInvariant, UnracedClean, RowClean, SeparationUnlessRaced
  <1> QED
    BY <1>1, ReleaseInvariantHolds, PTL

\* A pack that a person made live in production has a model behind it that
\* was evaluated and approved with every gate passed.
THEOREM LivePackIsBacked == Spec => []PackWasQualified
  <1>1. ReleaseInvariant => PackWasQualified
    BY DEF ReleaseInvariant, PacksSound, Backed, QualsSound, RowSound, PackWasQualified, Vetted
  <1> QED
    BY <1>1, ReleaseInvariantHolds, PTL

\* Until a request commits, no row of a qualification changes.
LEMMA DecisionsWriteNothing ==
    ASSUME NEW c \in Calls,
           (\E e \in Written : Evaluate(c, e) \/ Approve(c, e) \/ Promote(c, e)) \/ Abandon(c)
    PROVE  UNCHANGED qual
  <1>1. \A row, replaced : Prepare(c, row, replaced) => UNCHANGED qual
    BY DEF Prepare
  <1> HIDE DEF Prepare
  <1>2. ASSUME NEW e \in Written, Evaluate(c, e) PROVE UNCHANGED qual
    BY <1>1, <1>2 DEF Evaluate
  <1>3. ASSUME NEW e \in Written, Approve(c, e) PROVE UNCHANGED qual
    BY <1>1, <1>3 DEF Approve
  <1>4. ASSUME NEW e \in Written, Promote(c, e) PROVE UNCHANGED qual
    BY <1>1, <1>4 DEF Promote
  <1>5. CASE Abandon(c)
    BY <1>5 DEF Abandon
  <1> QED
    BY <1>2, <1>3, <1>4, <1>5

-----------------------------------------------------------------------------
\* A qualification that no two requests held moves along the lifecycle.
LEMMA MovesAreLegal ==
    ASSUME ReleaseInvariant, [Next]_vars, NEW q \in Quals \ raced',
           qual'[q].status # qual[q].status
    PROVE  <<qual[q].status, qual'[q].status>> \in Moves
  <1> USE DEF ReleaseInvariant
  <1>1. CASE \E r \in Quals : Create(r)
    <2>1. PICK r \in Quals : /\ qual[r].status = "NONE"
                             /\ qual' = [qual EXCEPT ![r].status = "DRAFT"]
      BY <1>1 DEF Create
    <2>2. q = r
      BY <2>1 DEF TypeOK
    <2>3. qual[q] \in Rows
      BY DEF TypeOK
    <2>4. [qual[q] EXCEPT !.status = "DRAFT"].status = "DRAFT"
      BY <2>3, StatusSet DEF QualStates
    <2>5. qual'[q].status = "DRAFT"
      BY <2>1, <2>2, <2>4 DEF TypeOK
    <2> QED
      BY <2>1, <2>2, <2>5 DEF Moves
  <1>2. ASSUME NEW c \in Calls, Commit(c)
        PROVE  <<qual[q].status, qual'[q].status>> \in Moves
    <2> DEFINE k == call[c]
    <2>1. /\ k \in QualCalls /\ CallClean(k) /\ raced' = raced
          /\ qual'[k.on] = Changed(qual[k.on], k)
          /\ q # k.on /\ q \in k.replaces => qual'[q] = [qual[q] EXCEPT !.status = "RETIRED"]
          /\ q # k.on /\ q \notin k.replaces => qual'[q] = qual[q]
      BY <1>2, CommitRows DEF Commit
    <2>2. qual[q] \in Rows
      BY DEF TypeOK
    <2>3. CASE q = k.on
      <3>1. qual[q] = k.seen /\ qual'[q] = k.sets
        BY <2>1, <2>2, <2>3, ChangedFields DEF CallClean
      <3> QED
        BY <2>1, <2>3, <3>1 DEF CallClean
    <2>4. CASE q # k.on
      <3>1. q \in k.replaces
        BY <2>1, <2>4
      <3>2. qual[q].status = "ACTIVE"
        BY <2>1, <3>1 DEF CallClean
      <3>3. [qual[q] EXCEPT !.status = "RETIRED"].status = "RETIRED"
        BY <2>2, StatusSet DEF QualStates
      <3> QED
        BY <2>1, <2>4, <3>1, <3>2, <3>3 DEF Moves
    <2> QED
      BY <2>3, <2>4
  <1>3. CASE UNCHANGED qual
    BY <1>3
  <1>4. CASE DatasetNext
    BY <1>3, <1>4 DEF DatasetNext, Register, Revoke
  <1>5. CASE QualNext
    <2>1. CASE \E c \in Calls, r \in Quals, p \in People :
                  (\E op \in DOMAIN RolesFor \ {"retire"} : Fetch(c, op, r, p)) \/ Retire(c, r, p)
      BY <1>3, <2>1 DEF Fetch, Retire, Request
    <2>2. CASE \E c \in Calls : (\E e \in Written : Evaluate(c, e) \/ Approve(c, e) \/ Promote(c, e))
                               \/ Abandon(c)
      BY <1>3, <2>2, DecisionsWriteNothing
    <2> QED
      BY <1>1, <1>2, <1>5, <2>1, <2>2 DEF QualNext
  <1>6. CASE PackNext
    BY <1>3, <1>6 DEF PackNext, CreatePack, Deploy, FindQualification, FindActive, CommitDeploy,
       Restart, FailedRestart
  <1> QED
    BY <1>3, <1>4, <1>5, <1>6 DEF Next, vars

\* A step of a qualification that no two requests held is one of the lifecycle.
THEOREM LifecycleHolds == Spec => LifecycleUnlessRaced
  <1>1. ReleaseInvariant /\ [Next]_vars =>
           [\A q \in Quals \ raced' : qual'[q].status # qual[q].status =>
                <<qual[q].status, qual'[q].status>> \in Moves]_vars
    BY MovesAreLegal
  <1> QED
    BY <1>1, ReleaseInvariantHolds, PTL DEF Spec, LifecycleUnlessRaced

-----------------------------------------------------------------------------
\* What is live and what is earned changes only when a request commits.
LEMMA LiveFrame ==
    ASSUME ReleaseInvariant, ReleaseInvariant', [Next]_vars, \A c \in Calls : ~Commit(c)
    PROVE  /\ ActiveQuals' = ActiveQuals
           /\ {q \in Quals : Earned(q)}' = {q \in Quals : Earned(q)}
  <1> USE DEF ReleaseInvariant
  <1>1. \A q \in Quals : /\ qual'[q].status = "ACTIVE" <=> qual[q].status = "ACTIVE"
                         /\ qual'[q].approvedBy = qual[q].approvedBy
    <2>1. CASE \E r \in Quals : Create(r)
      <3>1. PICK r \in Quals : /\ qual[r].status = "NONE"
                               /\ qual' = [qual EXCEPT ![r].status = "DRAFT"]
        BY <2>1 DEF Create
      <3>2. qual[r] \in Rows /\ "DRAFT" \in QualStates
        BY DEF TypeOK, QualStates
      <3> DEFINE row == [qual[r] EXCEPT !.status = "DRAFT"]
      <3>3. row.status = "DRAFT" /\ row.approvedBy = qual[r].approvedBy
        BY <3>2, StatusSet
      <3>4. qual' = [qual EXCEPT ![r] = row]
        BY <3>1
      <3> HIDE DEF row
      <3> QED
        BY <3>1, <3>3, <3>4 DEF TypeOK
    <2>2. CASE UNCHANGED qual
      BY <2>2
    <2>3. CASE DatasetNext
      BY <2>2, <2>3 DEF DatasetNext, Register, Revoke
    <2>4. CASE QualNext
      <3>1. CASE \E c \in Calls, r \in Quals, p \in People :
                    (\E op \in DOMAIN RolesFor \ {"retire"} : Fetch(c, op, r, p)) \/ Retire(c, r, p)
        BY <2>2, <3>1 DEF Fetch, Retire, Request
      <3>2. CASE \E c \in Calls : (\E e \in Written : Evaluate(c, e) \/ Approve(c, e) \/ Promote(c, e))
                                 \/ Abandon(c)
        BY <2>2, <3>2, DecisionsWriteNothing
      <3> QED
        BY <2>1, <2>4, <3>1, <3>2 DEF QualNext
    <2>5. CASE PackNext
      BY <2>2, <2>5 DEF PackNext, CreatePack, Deploy, FindQualification, FindActive, CommitDeploy,
       Restart, FailedRestart
    <2> QED
      BY <2>2, <2>3, <2>4, <2>5 DEF Next, vars
  <1>2. \A q \in Quals : Earned(q) <=> qual[q].approvedBy # Nobody
    BY EarnedIsApproved
  <1>3. \A q \in Quals : Earned(q)' <=> qual'[q].approvedBy # Nobody
    BY EarnedIsApprovedNext
  <1> QED
    BY <1>1, <1>2, <1>3 DEF ActiveQuals

\* What a request that commits means to do with its qualification.
LEMMA CommitLeaves ==
    ASSUME ReleaseInvariant, NEW c \in Calls, Commit(c)
    PROVE  LET k == call[c] IN
           /\ k.op \in {"activate", "rollback"} =>
                 k.sets.status = "ACTIVE" /\ ActiveQuals' = {k.on} /\ Leaving' = Leaving
           /\ k.op \notin {"activate", "rollback"} =>
                 /\ ActiveQuals' = ActiveQuals \/ ActiveQuals' = ActiveQuals \ {k.on}
                 /\ k.on \in Leaving /\ Leaving' \subseteq Leaving
  <1> USE DEF ReleaseInvariant
  <1> DEFINE k == call[c]
  <1>1. /\ IsQualCall(k) /\ k \in QualCalls /\ CallSound(k) /\ k.phase = "decided"
        /\ qual'[k.on] = Changed(qual[k.on], k)
        /\ k.on \in Quals /\ qual[k.on] \in Rows
    BY CommitRows DEF Commit, QualCalls, TypeOK
  <1>2. \A d \in Calls : call'[d] = IF d = c THEN Idle ELSE call[d]
    BY DEF Commit, TypeOK
  <1>3. Idle.op = "idle"
    BY DEF Idle
  <1>4. CASE k.op \in {"activate", "rollback"}
    <2>1. k.sets.status = "ACTIVE" /\ k.seen.status # "ACTIVE"
      BY <1>1, <1>4 DEF CallSound
    <2>2. qual'[k.on].status = "ACTIVE"
      BY <1>1, <2>1, ChangedFields
    <2>3. ActiveQuals' = {k.on}
      BY <1>1, <2>1, <2>2, CommitLive DEF ActiveQuals
    <2>4. Leaving' = Leaving
      BY <1>2, <1>3, <1>4 DEF Leaving
    <2> QED
      BY <1>4, <2>1, <2>3, <2>4
  <1>5. CASE k.op \notin {"activate", "rollback"}
    <2>1. k.sets.status # "ACTIVE"
      BY <1>1, <1>5 DEF CallSound
    <2>2. ActiveQuals' = ActiveQuals \/ ActiveQuals' = ActiveQuals \ {k.on}
      BY <2>1, CommitLive
    <2>3. k.on \in Leaving
      BY <1>1, <1>5, Operations DEF Leaving, IsQualCall
    <2>4. Leaving' \subseteq Leaving
      BY <1>2, <1>3 DEF Leaving
    <2> QED
      BY <1>5, <2>2, <2>3, <2>4
  <1> QED
    BY <1>4, <1>5

\* A commit earns a release, makes an earned model live in place of the old
\* one, or withdraws the model that its request names.
LEMMA CommitPromise ==
    ASSUME ReleaseInvariant, ReleaseInvariant', NEW c \in Calls, Commit(c)
    PROVE  [Promise!Next]_(Promise!vars)
  <1> USE DEF ReleaseInvariant
  <1> DEFINE k == call[c]
             earned == {q \in Quals : Earned(q)}
  <1>1. /\ k \in QualCalls /\ CallSound(k) /\ k.on \in Quals
        /\ qual'[k.on] = Changed(qual[k.on], k)
        /\ Beyond(qual'[k.on], qual[k.on], k.on)
        /\ \A q \in Quals \ {k.on} : qual'[q].approvedBy = qual[q].approvedBy
    BY CommitRows DEF QualCalls
  <1>2. earned = {q \in Quals : qual[q].approvedBy # Nobody}
    BY EarnedIsApproved
  <1>3. earned' = {q \in Quals : qual'[q].approvedBy # Nobody}
    <2>1. \A q \in Quals : Earned(q)' <=> qual'[q].approvedBy # Nobody
      BY EarnedIsApprovedNext
    <2> QED
      BY <2>1
  <1>4. earned' = earned \/ earned' = earned \cup {k.on}
    BY <1>1, <1>2, <1>3 DEF Beyond
  <1>5. \A q \in ActiveQuals' : q \in earned'
    BY <1>3 DEF ActiveQuals, QualsSound, RowSound
  <1>6. Leaving' \subseteq Quals
    BY CallRecord, Operations DEF Leaving, QualCalls, IsQualCall, TypeOK
  <1>7. CASE k.op \in {"activate", "rollback"}
    <2>1. ActiveQuals' = {k.on} /\ Leaving' = Leaving /\ k.sets.status = "ACTIVE"
      BY <1>7, CommitLeaves
    <2>2. k.sets.approvedBy = k.seen.approvedBy
      BY <1>1, <2>1 DEF CallSound
    <2>3. qual[k.on] \in Rows
      BY <1>1 DEF TypeOK
    <2>4. qual'[k.on].approvedBy = qual[k.on].approvedBy
      BY <1>1, <2>2, <2>3, ChangedFields
    <2>5. earned' = earned
      BY <1>1, <1>2, <1>3, <2>4
    <2> QED
      BY <1>1, <1>5, <2>1, <2>5 DEF Promise!Next, Promise!GoLive
  <1>8. CASE k.op \notin {"activate", "rollback"}
    <2>1. /\ ActiveQuals' = ActiveQuals \/ ActiveQuals' = ActiveQuals \ {k.on}
          /\ k.on \in Leaving /\ Leaving' \subseteq Leaving
      BY <1>8, CommitLeaves
    <2>2. CASE earned' = earned
      <3>1. k.on \in ActiveQuals => ActiveQuals = {k.on}
        BY DEF OneActive
      <3>2. ActiveQuals' = ActiveQuals \/ (ActiveQuals = {k.on} /\ ActiveQuals' = {})
        BY <2>1, <3>1
      <3>3. CASE ActiveQuals' = ActiveQuals
        BY <1>6, <2>2, <3>3 DEF Promise!Next, Promise!Ask
      <3>4. CASE ActiveQuals = {k.on} /\ ActiveQuals' = {}
        BY <1>1, <2>1, <2>2, <3>4 DEF Promise!Next, Promise!Withdraw
      <3> QED
        BY <3>2, <3>3, <3>4
    <2>3. CASE k.on \notin earned /\ k.on \in earned'
      <3>1. k.on \notin ActiveQuals
        BY <1>1, <1>2, <2>3 DEF ActiveQuals, QualsSound, RowSound
      <3>2. ActiveQuals' = ActiveQuals
        BY <2>1, <3>1
      <3> QED
        BY <1>1, <1>4, <2>1, <2>3, <3>2 DEF Promise!Next, Promise!Earn
    <2> QED
      BY <1>4, <2>2, <2>3
  <1> QED
    BY <1>7, <1>8

\* The release lifecycle keeps the promise of OneLive: one model is live at
\* most, an earned one; it makes way for its successor in the step that puts
\* that up, and otherwise ceases to be live only by a request that names it.
THEOREM ReleaseKeepsPromise == Spec => ReplacesInOneStep
  <1>1. Init => Promise!Init
    <2> SUFFICES ASSUME Init PROVE Promise!Init
      OBVIOUS
    <2>1. \A q \in Quals : qual[q].status = "NONE" /\ qual[q].approvedBy = Nobody
      BY DEF Init, EmptyQual
    <2>2. \A c \in Calls : call[c].op = "idle"
      BY DEF Init, Idle
    <2> QED
      BY <2>1, <2>2 DEF Promise!Init, ActiveQuals, Earned, Vetted, Leaving
  <1>2. ReleaseInvariant /\ ReleaseInvariant' /\ [Next]_vars => [Promise!Next]_(Promise!vars)
    <2> SUFFICES ASSUME ReleaseInvariant, ReleaseInvariant', [Next]_vars
                 PROVE  [Promise!Next]_(Promise!vars)
      OBVIOUS
    <2>1. CASE \E c \in Calls : Commit(c)
      BY <2>1, CommitPromise
    <2>2. CASE \A c \in Calls : ~Commit(c)
      <3>1. Leaving' \subseteq Quals
        BY CallRecord, Operations DEF ReleaseInvariant, Leaving, QualCalls, IsQualCall, TypeOK
      <3> QED
        BY <2>2, <3>1, LiveFrame DEF Promise!Next, Promise!Ask
    <2> QED
      BY <2>1, <2>2
  <1> QED
    BY <1>1, <1>2, ReleaseInvariantHolds, PTL DEF Spec, Promise!Spec, ReplacesInOneStep

=============================================================================
