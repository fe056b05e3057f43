----------------------------- MODULE IntakeProofs -----------------------------
(***************************************************************************)
(* The invariant of Intake for any number of requests, keys and images.     *)
(***************************************************************************)
EXTENDS Intake, TLAPS

\* A request that was sent is a record with a key, a fingerprint and a process.
LEMMA SentRecord ==
    ASSUME IntakeTypeOK, NEW r \in Requests, request[r].at # "unsent"
    PROVE  /\ request[r] \in SentRequest
           /\ request[r] # Unsent
           /\ request[r].home \in Processes
  BY DEF IntakeTypeOK, Unsent, Stage, SentRequest

\* The initial states satisfy the invariant.
LEMMA InitInvariant == IntakeInit => IntakeInvariant
  BY IntakeAssumption
  DEF IntakeInit, IntakeInvariant, IntakeTypeOK, RowsHaveWriters, WritersAreAlone,
      AnswersAreFinal, OneInspectionPerKey, AnswerFitsRequest, ConflictIsFounded,
      Unsent, Silence, AnswerKind, Inspection

\* A client's request does not disturb the others.
LEMMA SendInvariant ==
    ASSUME IntakeInvariant, NEW r \in Requests, NEW k \in Keys, NEW p \in Prints, Send(r, k, p)
    PROVE  IntakeInvariant'
  <1> USE DEF IntakeInvariant, Send
  <1>0. PICK h \in Processes :
            request' = [request EXCEPT ![r] = [at |-> "sent", key |-> k, print |-> p, home |-> h]]
    OBVIOUS
  <1>1. IntakeTypeOK'
    BY <1>0 DEF IntakeTypeOK, Stage, SentRequest
  <1>2. \A x \in Requests \ {r} : request'[x] = request[x]
    BY <1>0 DEF IntakeTypeOK
  <1>3. request'[r] = [at |-> "sent", key |-> k, print |-> p, home |-> h] /\ request[r].at = "unsent"
    BY <1>0 DEF IntakeTypeOK, Unsent
  <1>4. RowsHaveWriters' /\ OneInspectionPerKey'
    BY <1>2, <1>3 DEF RowsHaveWriters, OneInspectionPerKey, IntakeTypeOK, Inspection
  <1>5. WritersAreAlone'
    BY <1>2, <1>3 DEF WritersAreAlone, Writers, Stored
  <1>6. AnswersAreFinal' /\ ConflictIsFounded'
    BY <1>2, <1>3 DEF AnswersAreFinal, ConflictIsFounded, Silence
  <1>7. AnswerFitsRequest'
    BY <1>2, <1>3 DEF AnswerFitsRequest, AnswersAreFinal, Silence
  <1> QED
    BY <1>1, <1>4, <1>5, <1>6, <1>7

\* A stage before the answer moves one request on, to "missed" or, alone under a
\* key without a row, to "inserted".
LEMMA ReachInvariant ==
    ASSUME IntakeInvariant, NEW r \in Requests, NEW to \in {"missed", "inserted"},
           request[r].at \in {"sent", "missed"},
           to = "inserted" => ~Stored(r) /\ Writers(request[r].key) = {},
           Reach(r, to)
    PROVE  IntakeInvariant'
  <1> USE DEF IntakeInvariant, Reach
  <1>1. /\ request[r] \in SentRequest /\ request[r].home \in Processes
        /\ request'[r] = [at |-> to, key |-> request[r].key, print |-> request[r].print,
                          home |-> request[r].home]
    BY SentRecord DEF IntakeTypeOK, SentRequest
  <1>2. \A x \in Requests \ {r} : request'[x] = request[x]
    BY DEF IntakeTypeOK
  <1>3. IntakeTypeOK'
    BY <1>1 DEF IntakeTypeOK, Stage, SentRequest
  <1>4. RowsHaveWriters' /\ OneInspectionPerKey'
    BY <1>1, <1>2 DEF RowsHaveWriters, OneInspectionPerKey, IntakeTypeOK, Inspection
  <1>5. WritersAreAlone'
    BY <1>1, <1>2 DEF WritersAreAlone, Writers, Stored
  <1>6. AnswersAreFinal' /\ ConflictIsFounded'
    BY <1>1, <1>2 DEF AnswersAreFinal, ConflictIsFounded, Silence
  <1>7. AnswerFitsRequest'
    BY <1>1, <1>2 DEF AnswerFitsRequest
  <1> QED
    BY <1>3, <1>4, <1>5, <1>6, <1>7

\* A request ends without having written: its answer fits if it names a row of the
\* same key and fingerprint, or is a founded conflict.
LEMMA FinishInvariant ==
    ASSUME IntakeInvariant, NEW r \in Requests, NEW kind \in AnswerKind,
           NEW id \in Requests \cup {None},
           request[r].at \in {"sent", "missed", "inserted"},
           kind \in {"created", "replay"} =>
               \E i \in inspections :
                   i.id = id /\ i.key = request[r].key /\ i.print = request[r].print,
           kind = "conflict" =>
               \E i \in inspections : i.key = request[r].key /\ i.print # request[r].print,
           Finish(r, kind, id), aborts' \in 0..MaxAborts
    PROVE  IntakeInvariant'
  <1> USE DEF IntakeInvariant, Finish
  <1>1. /\ request[r] \in SentRequest /\ request[r].home \in Processes
        /\ request'[r] = [at |-> "done", key |-> request[r].key, print |-> request[r].print,
                          home |-> request[r].home]
        /\ answer'[r] = [kind |-> kind, id |-> id]
    BY SentRecord DEF IntakeTypeOK, SentRequest
  <1>2. \A x \in Requests \ {r} : request'[x] = request[x] /\ answer'[x] = answer[x]
    BY DEF IntakeTypeOK
  <1>3. IntakeTypeOK'
    BY <1>1 DEF IntakeTypeOK, Stage, SentRequest
  <1>4. RowsHaveWriters' /\ OneInspectionPerKey'
    BY <1>1, <1>2 DEF RowsHaveWriters, OneInspectionPerKey, IntakeTypeOK, Inspection
  <1>5. WritersAreAlone'
    BY <1>1, <1>2 DEF WritersAreAlone, Writers, Stored
  <1>6. AnswersAreFinal' /\ ConflictIsFounded'
    BY <1>1, <1>2 DEF AnswersAreFinal, ConflictIsFounded, Silence
  <1>7. AnswerFitsRequest'
    <2>1. \A i \in inspections :
             /\ i.id \in Requests
             /\ request[i.id].at = "done"
             /\ request[i.id].key = i.key
             /\ request[i.id].print = i.print
      BY DEF RowsHaveWriters, IntakeTypeOK, Inspection
    <2>2. \A w \in Requests : /\ request'[w].key = request[w].key
                              /\ request'[w].print = request[w].print
                              /\ request[w].at \in {"acked", "done"} =>
                                    request'[w].at \in {"acked", "done"}
      BY <1>1, <1>2
    <2> QED
      BY <1>1, <1>2, <2>1, <2>2 DEF AnswerFitsRequest
  <1> QED
    BY <1>3, <1>4, <1>5, <1>6, <1>7

\* Replay answers from a stored row.
LEMMA ReplayInvariant ==
    ASSUME IntakeInvariant, NEW r \in Requests, request[r].at \in {"sent", "missed"}, Replay(r)
    PROVE  IntakeInvariant'
  <1>1. PICK i \in inspections :
            /\ i.key = request[r].key
            /\ IF i.print = request[r].print
               THEN Finish(r, "replay", i.id)
               ELSE Finish(r, "conflict", None)
            /\ UNCHANGED aborts
    BY DEF Replay
  <1>2. i.id \in Requests /\ aborts \in 0..MaxAborts
    BY DEF IntakeInvariant, IntakeTypeOK, Inspection
  <1>3. CASE i.print = request[r].print
    BY <1>1, <1>2, <1>3, FinishInvariant DEF AnswerKind
  <1>4. CASE i.print # request[r].print
    BY <1>1, <1>2, <1>4, FinishInvariant DEF AnswerKind
  <1> QED
    BY <1>3, <1>4

\* The acknowledgement names the request's own row.
LEMMA AcknowledgeInvariant ==
    ASSUME IntakeInvariant, NEW r \in Requests, Acknowledge(r)
    PROVE  IntakeInvariant'
  <1> USE DEF IntakeInvariant, Acknowledge
  <1>1. /\ request[r] \in SentRequest /\ request[r].home \in Processes
        /\ request'[r] = [at |-> "acked", key |-> request[r].key, print |-> request[r].print,
                          home |-> request[r].home]
        /\ answer'[r] = [kind |-> "created", id |-> r]
    BY SentRecord DEF IntakeTypeOK, SentRequest
  <1>2. \A x \in Requests \ {r} : request'[x] = request[x] /\ answer'[x] = answer[x]
    BY DEF IntakeTypeOK
  <1>3. IntakeTypeOK'
    BY <1>1 DEF IntakeTypeOK, Stage, SentRequest, AnswerKind
  <1>4. RowsHaveWriters' /\ OneInspectionPerKey'
    BY <1>1, <1>2 DEF RowsHaveWriters, OneInspectionPerKey, IntakeTypeOK, Inspection
  <1>5. WritersAreAlone'
    BY <1>1, <1>2 DEF WritersAreAlone, Writers, Stored
  <1>6. AnswersAreFinal' /\ ConflictIsFounded'
    BY <1>1, <1>2 DEF AnswersAreFinal, ConflictIsFounded, Silence
  <1>7. AnswerFitsRequest'
    BY <1>1, <1>2 DEF AnswerFitsRequest
  <1> QED
    BY <1>3, <1>4, <1>5, <1>6, <1>7

\* The commit adds the first row under its key.
LEMMA CommitInvariant ==
    ASSUME IntakeInvariant, NEW r \in Requests, Commit(r)
    PROVE  IntakeInvariant'
  <1> USE DEF IntakeInvariant, Commit
  <1> DEFINE row == [id |-> r, key |-> request[r].key, print |-> request[r].print]
  <1>1. /\ request[r] \in SentRequest /\ request[r].home \in Processes
        /\ request'[r] = [at |-> "done", key |-> request[r].key, print |-> request[r].print,
                          home |-> request[r].home]
    BY SentRecord DEF IntakeTypeOK, SentRequest
  <1>2. \A x \in Requests \ {r} : request'[x] = request[x]
    BY DEF IntakeTypeOK
  <1>3. inspections' = inspections \cup {row} /\ row \in Inspection
    BY <1>1 DEF Inspection, SentRequest
  <1>4. IntakeTypeOK'
    BY <1>1, <1>3 DEF IntakeTypeOK, Stage, SentRequest
  <1>5. RowsHaveWriters'
    <2>1. \A i \in inspections : i.id # r /\ request'[i.id] = request[i.id]
      BY <1>2 DEF RowsHaveWriters, IntakeTypeOK, Inspection
    <2> QED
      BY <1>1, <1>3, <2>1 DEF RowsHaveWriters
  <1>6. \A i \in inspections : i.key # row.key
    BY DEF WritersAreAlone, Stored
  <1>7. OneInspectionPerKey'
    BY <1>3, <1>6 DEF OneInspectionPerKey
  <1>8. WritersAreAlone'
    <2> SUFFICES ASSUME NEW x \in Requests, request'[x].at \in {"inserted", "acked"}
                 PROVE  ~Stored(x)' /\ \A w \in Writers(request[x].key)' : w = x
      BY DEF WritersAreAlone
    <2>1. x # r /\ request'[x] = request[x]
      BY <1>1, <1>2
    <2>2. r \in Writers(request[r].key) /\ x \in Writers(request[x].key)
      BY <2>1 DEF Writers
    <2>3. request[x].key # request[r].key
      BY <2>1, <2>2 DEF WritersAreAlone
    <2>4. ~Stored(x)'
      BY <1>3, <2>1, <2>3 DEF WritersAreAlone, Stored
    <2>5. \A w \in Writers(request[x].key)' : w \in Writers(request[x].key)
      BY <1>1, <1>2, <2>1 DEF Writers
    <2> QED
      BY <2>1, <2>4, <2>5 DEF WritersAreAlone
  <1>9. AnswersAreFinal' /\ ConflictIsFounded'
    BY <1>1, <1>2, <1>3 DEF AnswersAreFinal, ConflictIsFounded, Silence
  <1>10. AnswerFitsRequest'
    BY <1>1, <1>2 DEF AnswerFitsRequest
  <1> QED
    BY <1>4, <1>5, <1>7, <1>8, <1>9, <1>10

\* Requests end without a row and without an answer that was not given before: what
\* they had written is withdrawn, what they had answered is not.
LEMMA EndInvariant ==
    ASSUME IntakeInvariant, NEW S \in SUBSET Requests, \A r \in S : request[r].at # "unsent",
           request' = [r \in Requests |->
                          IF r \in S THEN [request[r] EXCEPT !.at = "done"] ELSE request[r]],
           loop' \in [Processes -> Requests \cup {None}],
           UNCHANGED <<inspections, answer>>, aborts' \in 0..MaxAborts
    PROVE  IntakeInvariant'
  <1> USE DEF IntakeInvariant
  <1>1. \A r \in S : request[r] \in SentRequest /\ request'[r] =
            [at |-> "done", key |-> request[r].key, print |-> request[r].print,
             home |-> request[r].home]
    BY SentRecord DEF SentRequest
  <1>2. \A x \in Requests \ S : request'[x] = request[x]
    OBVIOUS
  <1>3. IntakeTypeOK'
    <2>1. request' \in [Requests -> {Unsent} \cup SentRequest]
      <3>1. ASSUME NEW r \in S PROVE request'[r] \in SentRequest
        <4>1. /\ request[r].key \in Keys /\ request[r].print \in Prints
              /\ request[r].home \in Processes /\ "done" \in Stage
          BY <1>1 DEF SentRequest, Stage
        <4> QED
          BY <1>1, <4>1 DEF SentRequest
      <3>2. \A r \in Requests : request'[r] \in {Unsent} \cup SentRequest
        BY <1>2, <3>1 DEF IntakeTypeOK
      <3> QED
        BY <3>2
    <2> QED
      BY <2>1 DEF IntakeTypeOK
  <1>4. RowsHaveWriters' /\ OneInspectionPerKey'
    BY <1>1, <1>2 DEF RowsHaveWriters, OneInspectionPerKey, IntakeTypeOK, Inspection
  <1>5. WritersAreAlone'
    <2>1. \A k : Writers(k)' \subseteq Writers(k)
      BY <1>1, <1>2 DEF Writers
    <2>2. \A r \in Requests : request[r].at # "unsent" => request'[r].key = request[r].key
      BY <1>1, <1>2
    <2> QED
      BY <1>1, <1>2, <2>1, <2>2 DEF WritersAreAlone, Writers, Stored
  <1>6. AnswersAreFinal'
    BY <1>1, <1>2 DEF AnswersAreFinal, Silence
  <1>7. ConflictIsFounded'
    BY <1>1, <1>2 DEF ConflictIsFounded
  <1>8. AnswerFitsRequest'
    BY <1>1, <1>2 DEF AnswerFitsRequest
  <1> QED
    BY <1>3, <1>4, <1>5, <1>6, <1>7, <1>8

\* A failed commit leaves the answer that was sent.
LEMMA CommitFailsInvariant ==
    ASSUME IntakeInvariant, NEW r \in Requests, CommitFails(r)
    PROVE  IntakeInvariant'
  <1>1. request' = [x \in Requests |->
                       IF x \in {r} THEN [request[x] EXCEPT !.at = "done"] ELSE request[x]]
    BY DEF CommitFails, IntakeInvariant, IntakeTypeOK
  <1>2. loop' \in [Processes -> Requests \cup {None}] /\ aborts' \in 0..MaxAborts
    BY IntakeAssumption DEF CommitFails, Mishap, IntakeInvariant, IntakeTypeOK
  <1> QED
    BY <1>1, <1>2, EndInvariant DEF CommitFails

\* A dead process takes its open transactions with it.
LEMMA DieInvariant ==
    ASSUME IntakeInvariant, NEW h \in Processes, Die(h)
    PROVE  IntakeInvariant'
  <1>1. loop' \in [Processes -> Requests \cup {None}] /\ aborts' \in 0..MaxAborts
    BY IntakeAssumption DEF Die, Mishap, IntakeInvariant, IntakeTypeOK
  <1>2. Open(h) \in SUBSET Requests /\ \A r \in Open(h) : request[r].at # "unsent"
    BY DEF Open, IntakeInvariant, IntakeTypeOK, SentRequest, Stage
  <1> QED
    BY <1>1, <1>2, EndInvariant DEF Die

\* Every step of the backend on a request preserves the invariant.
LEMMA ServeInvariant ==
    ASSUME IntakeInvariant, NEW r \in Requests, Serve(r)
    PROVE  IntakeInvariant'
  <1>1. CASE Lookup(r)
    <2>1. CASE Stored(r)
      BY <1>1, <2>1, ReplayInvariant DEF Lookup
    <2>2. CASE ~Stored(r)
      BY <1>1, <2>2, ReachInvariant DEF Lookup
    <2> QED
      BY <2>1, <2>2
  <1>2. CASE Refuse(r)
    BY <1>2, FinishInvariant DEF Refuse, AnswerKind, IntakeInvariant, IntakeTypeOK
  <1>3. CASE Insert(r)
    <2>1. CASE Stored(r)
      BY <1>3, <2>1, ReplayInvariant DEF Insert
    <2>2. CASE ~Stored(r)
      BY <1>3, <2>2, ReachInvariant DEF Insert
    <2> QED
      BY <2>1, <2>2
  <1>4. CASE Raise(r)
    <2>1. aborts' \in 0..MaxAborts
      BY <1>4, IntakeAssumption DEF Raise, Mishap, IntakeInvariant, IntakeTypeOK
    <2> QED
      BY <1>4, <2>1, FinishInvariant DEF Raise, AnswerKind
  <1> QED
    BY <1>1, <1>2, <1>3, <1>4, AcknowledgeInvariant, CommitInvariant, CommitFailsInvariant
    DEF Serve

\* A step that changes nothing keeps the invariant.
LEMMA StutterInvariant ==
    ASSUME IntakeInvariant, UNCHANGED intakeVars
    PROVE  IntakeInvariant'
  BY DEF intakeVars, IntakeInvariant, IntakeTypeOK, RowsHaveWriters, WritersAreAlone, Writers,
         Stored, AnswersAreFinal, OneInspectionPerKey, AnswerFitsRequest, ConflictIsFounded

\* The invariant of the intake, for any requests, keys, fingerprints and processes and
\* whether or not a commit may fail after the response.
THEOREM IntakeInvariantHolds == IntakeSpec => []IntakeInvariant
  <1>1. IntakeInvariant /\ [IntakeNext]_intakeVars => IntakeInvariant'
    BY SendInvariant, ServeInvariant, DieInvariant, StutterInvariant DEF IntakeNext
  <1> QED
    BY <1>1, InitInvariant, PTL DEF IntakeSpec

\* One inspection per idempotency key, although Lookup and Insert are two steps.
THEOREM OneInspectionPerKeyHolds == IntakeSpec => []OneInspectionPerKey
  BY IntakeInvariantHolds, PTL DEF IntakeInvariant

\* A client is answered with an inspection of its own image and context.
THEOREM AnswerFitsRequestHolds == IntakeSpec => []AnswerFitsRequest
  BY IntakeInvariantHolds, PTL DEF IntakeInvariant

\* A 409 is founded on a stored row.
THEOREM ConflictIsFoundedHolds == IntakeSpec => []ConflictIsFounded
  BY IntakeInvariantHolds, PTL DEF IntakeInvariant

-----------------------------------------------------------------------------
(***************************************************************************)
(* What a client can rely on when no commit fails after its answer.  An     *)
(* inspection is secure once it was acknowledged.                           *)
(***************************************************************************)
Secure(w) == request[w].at = "acked" \/ \E i \in inspections : i.id = w

AnswersAreSecure ==
    \A r \in Requests :
        answer[r].kind \in {"created", "replay"} => answer[r].id \in Requests /\ Secure(answer[r].id)

\* What was sent keeps its key, its fingerprint and its stage or a later one.
LEMMA RequestsStay ==
    ASSUME IntakeTypeOK, IntakeNext, NEW w \in Requests, request[w].at # "unsent"
    PROVE  request'[w].at # "unsent" /\ request'[w].key = request[w].key
  <1>1. request[w] \in SentRequest /\ request[w] # Unsent
    BY SentRecord
  <1>2. CASE \E r \in Requests, k \in Keys, p \in Prints : Send(r, k, p)
    BY <1>1, <1>2 DEF Send, IntakeTypeOK
  <1>3. ASSUME NEW r \in Requests, NEW to \in Stage,
               request' = [request EXCEPT ![r].at = to]
        PROVE  request'[w].at # "unsent" /\ request'[w].key = request[w].key
    BY <1>1, <1>3 DEF IntakeTypeOK, SentRequest, Stage
  <1>4. ASSUME NEW r \in Requests, Serve(r)
        PROVE  \/ UNCHANGED request
               \/ \E to \in Stage : request' = [request EXCEPT ![r].at = to]
    BY <1>4 DEF Serve, Lookup, Refuse, Insert, Acknowledge, Commit, Raise, CommitFails, Replay,
                Reach, Finish, Stage
  <1>5. CASE \E r \in Requests : Serve(r)
    BY <1>3, <1>4, <1>5
  <1>6. CASE \E h \in Processes : Die(h)
    BY <1>1, <1>6 DEF Die, SentRequest, IntakeTypeOK
  <1> QED
    BY <1>2, <1>5, <1>6 DEF IntakeNext

\* Only a client sends.
LEMMA UnsentStays ==
    ASSUME IntakeTypeOK, NEW w \in Requests, request[w].at = "unsent",
           (\E r \in Requests : Serve(r)) \/ (\E h \in Processes : Die(h))
    PROVE  request'[w].at = "unsent"
  <1>1. CASE \E r \in Requests : Serve(r)
    <2>1. PICK r \in Requests : Serve(r)
      BY <1>1
    <2>2. request[r].at \in {"sent", "missed", "inserted", "acked"}
      BY <2>1 DEF Serve, Lookup, Refuse, Insert, Acknowledge, Commit, Raise, CommitFails
    <2>3. UNCHANGED request \/ \E to \in Stage : request' = [request EXCEPT ![r].at = to]
      BY <2>1 DEF Serve, Lookup, Refuse, Insert, Acknowledge, Commit, Raise, CommitFails, Replay,
                  Reach, Finish, Stage
    <2> QED
      BY <2>2, <2>3 DEF IntakeTypeOK
  <1>2. CASE \E h \in Processes : Die(h)
    BY <1>2 DEF Die, Open, IntakeTypeOK, SentRequest, Stage, Unsent
  <1> QED
    BY <1>1, <1>2

\* The steps of the backend by what they make secure: nothing, the request that
\* they acknowledge, or by a row what was acknowledged before.
LEMMA SecureSteps ==
    ASSUME IntakeInvariant, ~AckedMayAbort, IntakeNext
    PROVE  \/ \A w \in Requests : Secure(w)' <=> Secure(w)
           \/ \E r \in Requests :
                 /\ Acknowledge(r)
                 /\ \A w \in Requests : Secure(w)' <=> (Secure(w) \/ w = r)
  <1> USE DEF IntakeInvariant
  <1> DEFINE Same == \A w \in Requests : Secure(w)' <=> Secure(w)
  <1>1. CASE \E r \in Requests, k \in Keys, p \in Prints : Send(r, k, p)
    <2>1. Same
      BY <1>1 DEF Send, Secure, IntakeTypeOK, Unsent
    <2> QED
      BY <2>1
  <1>2. CASE \E h \in Processes : Die(h)
    <2>1. PICK h \in Processes : Die(h)
      BY <1>2
    <2>2. \A w \in Requests : request'[w].at = "acked" <=> request[w].at = "acked"
      BY <2>1, SentRecord DEF Die, Open, SentRequest, IntakeTypeOK
    <2>3. Same
      BY <2>1, <2>2 DEF Die, Secure
    <2> QED
      BY <2>3
  <1>3. ASSUME NEW r \in Requests, Serve(r), ~Acknowledge(r)
        PROVE  Same
    <2>1. ASSUME NEW to \in {"missed", "inserted"}, request[r].at \in {"sent", "missed"}, Reach(r, to)
          PROVE  Same
      BY <2>1, SentRecord DEF Reach, Secure, IntakeTypeOK, SentRequest
    <2>2. ASSUME NEW kind, NEW id, request[r].at \in {"sent", "missed", "inserted"}, Finish(r, kind, id)
          PROVE  Same
      BY <2>2, SentRecord DEF Finish, Secure, IntakeTypeOK, SentRequest
    <2>3. CASE Commit(r)
      <3> DEFINE row == [id |-> r, key |-> request[r].key, print |-> request[r].print]
      <3>1. /\ request' = [request EXCEPT ![r].at = "done"] /\ request[r].at = "acked"
            /\ inspections' = inspections \cup {row} /\ row.id = r
        BY <2>3 DEF Commit
      <3> HIDE DEF row
      <3>2. \A w \in Requests \ {r} : request'[w] = request[w]
        BY <3>1 DEF IntakeTypeOK
      <3>3. Secure(r) /\ Secure(r)'
        BY <3>1 DEF Secure
      <3>4. \A w \in Requests \ {r} : Secure(w)' <=> Secure(w)
        BY <3>1, <3>2 DEF Secure
      <3> QED
        BY <3>3, <3>4
    <2> QED
      BY <1>3, <2>1, <2>2, <2>3 DEF Serve, Lookup, Refuse, Insert, Raise, CommitFails, Replay
  <1>4. ASSUME NEW r \in Requests, Acknowledge(r)
        PROVE  \A w \in Requests : Secure(w)' <=> (Secure(w) \/ w = r)
    <2>1. /\ request' = [request EXCEPT ![r].at = "acked"]
          /\ request[r].at = "inserted" /\ inspections' = inspections
      BY <1>4 DEF Acknowledge
    <2> QED
      BY <2>1 DEF Secure, IntakeTypeOK
  <1> QED
    BY <1>1, <1>2, <1>3, <1>4 DEF IntakeNext

\* An answer names a secure inspection.
LEMMA AnswersStaySecure ==
    ASSUME IntakeInvariant, ~AckedMayAbort, AnswersAreSecure, IntakeNext
    PROVE  AnswersAreSecure'
  <1>1. \A w \in Requests : Secure(w) => Secure(w)'
    BY SecureSteps
  <1>2. ASSUME NEW r \in Requests, Serve(r)
        PROVE  AnswersAreSecure'
    <2>1. ASSUME NEW kind, NEW id, Finish(r, kind, id),
                 kind \in {"created", "replay"} => id \in Requests /\ Secure(id)'
          PROVE  AnswersAreSecure'
      BY <1>1, <2>1 DEF Finish, AnswersAreSecure, IntakeInvariant, IntakeTypeOK
    <2>2. CASE Replay(r)
      <3>1. PICK i \in inspections :
               /\ i.key = request[r].key
               /\ IF i.print = request[r].print
                  THEN Finish(r, "replay", i.id)
                  ELSE Finish(r, "conflict", None)
        BY <2>2 DEF Replay
      <3>2. i.id \in Requests /\ Secure(i.id)
        BY DEF Secure, IntakeInvariant, IntakeTypeOK, Inspection
      <3> QED
        BY <1>1, <2>1, <3>1, <3>2
    <2>3. CASE Acknowledge(r)
      <3>1. /\ answer' = [answer EXCEPT ![r] = [kind |-> "created", id |-> r]]
            /\ request'[r].at = "acked"
        BY <2>3, SentRecord DEF Acknowledge, IntakeInvariant, IntakeTypeOK, SentRequest
      <3>2. Secure(r)'
        BY <3>1 DEF Secure
      <3> QED
        BY <1>1, <3>1, <3>2 DEF AnswersAreSecure, IntakeInvariant, IntakeTypeOK
    <2>4. CASE UNCHANGED answer
      BY <1>1, <2>4 DEF AnswersAreSecure
    <2> QED
      BY <1>2, <2>1, <2>2, <2>3, <2>4 DEF Serve, Lookup, Refuse, Insert, Commit, Raise, CommitFails, Reach
  <1>3. CASE UNCHANGED answer
    BY <1>1, <1>3 DEF AnswersAreSecure
  <1> QED
    BY <1>2, <1>3 DEF IntakeNext, Send, Die

\* What is acknowledged has no secure inspection of its key yet.
LEMMA AcknowledgedIsFirst ==
    ASSUME IntakeInvariant, NEW r \in Requests, Acknowledge(r), NEW w \in Requests, Secure(w)
    PROVE  request[w].key # request[r].key
  BY DEF IntakeInvariant, Acknowledge, Secure, WritersAreAlone, Writers, Stored, RowsHaveWriters

=============================================================================
