----------------------------- MODULE MCRelease -----------------------------
(***************************************************************************)
(* One product, two models.  Qualification 1 is for the first model, 2 and *)
(* 3 are for the second, so one of the two is registered: 2 with a core    *)
(* without gates or with what the tool writes of a model that passed, 3    *)
(* with evidence whose gates failed.                                       *)
(***************************************************************************)
EXTENDS Release, TLC

CONSTANTS recall, s1, s2, pilot, k1, ann, bo, cy, c1, c2

MCRoles == (ann :> {"ML_ENGINEER"}) @@ (bo :> {"ML_ENGINEER", "QUALITY_MANAGER", "FDE"})
           @@ (cy :> {"ADMIN"})

Measured(sha, result) ==
    [source |-> "CUSTOMER_PILOT", metrics |-> [m \in Metrics |-> result], sha |-> sha,
     split |-> TRUE, files |-> TRUE, receipt |-> TRUE, dataset |-> pilot, consent |-> TRUE]

(* A package written by hand in the form the backend also accepts, with    *)
(* the bare gate decision as its status.                                   *)
Bare(p) ==
    LET core == [p.core EXCEPT !.status = "GO"] IN
    [p EXCEPT !.core = core, !.release.decision = "GO", !.release.digest = core]

(* The release file edited: it says what an approval asks for.             *)
Edited(p) == [p EXCEPT !.release.gate = "GO", !.release.approval = "PENDING_APPROVAL"]

(* A package written by hand with neither gates nor status in its core,    *)
(* whose release file shows gates of that result.                          *)
Gateless(sha, result) ==
    LET p == Package(Measured(sha, result))
        core == [p.core EXCEPT !.status = Absent, !.gates = Absent]
    IN Edited([p EXCEPT !.core = core, !.release.decision = Absent, !.release.digest = core])

Good1 == Bare(Package(Measured(s1, "MET")))
Good2 == Package(Measured(s2, "MET"))
Failed2 == Package(Measured(s2, "MISSED"))

Gateless2 == Gateless(s2, "MET")

MCPackages == <<{Good1}, {Gateless2, Gateless(s2, "MISSED")}, {Edited(Failed2)}>>
PassedPackages == <<{Good1}, {Good2}, {Edited(Failed2)}>>

MCSorts == {[source |-> "CUSTOMER_PILOT", consent |-> TRUE],
            [source |-> "CUSTOMER_PILOT", consent |-> FALSE]}

Offer1 == [model |-> "m1", sha |-> s1, key |-> k1, dataset |-> pilot, core |-> Good1.core]
Offer2 == [model |-> "m2", sha |-> s2, key |-> k1, dataset |-> pilot, core |-> Gateless2.core]
Offer3 == [Offer2 EXCEPT !.core = Failed2.core]

MCOffer == <<Offer1, Offer2, Offer3>>
PassedOffer == <<Offer1, [Offer2 EXCEPT !.core = Good2.core], Offer3>>

Manifest(v, m, s) == [version |-> v, model |-> m, sha |-> s, key |-> k1]
MCManifests == {Manifest("v2", "m1", s1)}
MCImages == {Manifest("v1", "m1", s1), Manifest("v1", "m2", s2)}

(* Bound: two requests hold at once one qualification at most, in whichever*)
(* pair and as often as they like.                                         *)
OneRaced == \A q, r \in raced : q = r

SmallNext == Next /\ OneRaced'
SmallSpec == Init /\ [][SmallNext]_vars

Symmetry == Permutations(Calls)

=============================================================================
