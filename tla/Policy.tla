------------------------------- MODULE Policy -------------------------------
(***************************************************************************)
(* The two thresholds that decide what happens to a scored image           *)
(* (backend/app/policy.py), in the deployment packs that carry them        *)
(* (deployment.py) and in the places that meet them: the bootstrap, the    *)
(* activation of a pack, POST /inspections and the inference worker.       *)
(*                                                                         *)
(* A request reads the active pack twice, when its form is parsed and when *)
(* its row is made; the worker scores the image later.  In between packs   *)
(* may be activated, and a restart of the API may rewrite the one that its *)
(* bootstrap made.                                                         *)
(***************************************************************************)
EXTENDS Naturals

CONSTANTS
    Packs,      \* deployment packs of one tenant
    Names,      \* what a client may submit as product: codes and aliases
    Sites,      \* what a client may submit as station
    Wildcard,   \* the code "*"
    Unset,      \* no selector
    Scores,     \* scores and thresholds
    Inspections,\* POST /inspections
    Offers,     \* the manifests with which packs are created
    Files       \* those that a restart may find

\* The validators of ThresholdRule and PolicyConfig.
ValidRule(o) == {o.review, o.hold} \subseteq Scores /\ o.review < o.hold

ValidPolicy(policy) ==
    /\ policy.default.product = Unset /\ policy.default.station = Unset
    /\ \A o \in policy.overrides \cup {policy.default} : ValidRule(o)
    /\ \A o \in policy.overrides : o.product # Unset \/ o.station # Unset
    /\ \A a, b \in policy.overrides :
          a.product = b.product /\ a.station = b.station => a = b

\* DeploymentManifest: codes and aliases of products are unique.
ValidCatalog(m) ==
    \A p, q \in DOMAIN m.products :
        /\ p \notin m.products[q]
        /\ p # q => m.products[p] \cap m.products[q] = {}

NoPack == [pack |-> "none"]

ASSUME OffersAssumption ==
    \A m \in Offers : m # NoPack /\ ValidPolicy(m.policy) /\ ValidCatalog(m)

ASSUME SelectorAssumption == Unset \notin Names \cup Sites \cup {Wildcard}

ASSUME ScoresAssumption == Scores \subseteq Nat

VARIABLES
    manifest,   \* deployment_packs.manifest
    active,     \* the pack that is ACTIVE
    system,     \* packs whose approved_by is the bootstrap
    converged,  \* history: packs whose manifest a restart has rewritten
    inspection  \* requests, and the inspections they made

policyVars == <<manifest, active, system, converged, inspection>>
packs == <<manifest, active, system, converged>>

Routes == {"AUTO_RELEASE", "MANUAL_REVIEW", "BATCH_HOLD_AND_REVIEW"}

Unposted == [at |-> "unposted"]
Gone == [at |-> "gone"]
Failed == [at |-> "failed"]

Parsed == [at : {"parsed"}, product : Names, station : Sites]
Received == [at : {"received"}, product : Names, station : Sites, pack : Packs]
Decided == [at : {"decided"}, product : Names, station : Sites, pack : Packs,
            score : Scores, policy : {m.policy : m \in Offers}, route : Routes]

PolicyTypeOK ==
    /\ manifest \in [Packs -> Offers \cup {NoPack}]
    /\ active \in Packs /\ manifest[active] # NoPack
    /\ system \subseteq Packs /\ converged \subseteq Packs
    /\ inspection \in [Inspections -> {Unposted, Gone, Failed} \cup Parsed \cup Received \cup Decided]

-----------------------------------------------------------------------------
(* Rules.                                                                  *)
Applies(o, n, s) == o.product \in {Unset, n} /\ o.station \in {Unset, s}

Specificity(o) ==
    (IF o.product = Unset THEN 0 ELSE 1) + (IF o.station = Unset THEN 0 ELSE 1)

Matches(policy, n, s) == {o \in policy.overrides : Applies(o, n, s)}

\* Variant: the matches are sorted by rising specificity.
HeadsBroad(policy, n, s) ==
    {o \in Matches(policy, n, s) :
        \A a \in Matches(policy, n, s) : Specificity(o) <= Specificity(a)}

\* The head of the matches, sorted by falling specificity.
Heads(policy, n, s) ==
    {o \in Matches(policy, n, s) :
        \A a \in Matches(policy, n, s) : Specificity(a) <= Specificity(o)}

\* resolve raises ValueError unless this holds.
Resolvable(policy, n, s) ==
    \A a, b \in Heads(policy, n, s) : a = b

Resolve(policy, n, s) ==
    IF Matches(policy, n, s) = {}
    THEN policy.default
    ELSE CHOOSE o \in Heads(policy, n, s) : TRUE

\* evaluate_policy.  The worker never calls it without a score or a policy.
Route(score, o) ==
    IF score < o.review THEN "AUTO_RELEASE"
    ELSE IF score < o.hold THEN "MANUAL_REVIEW"
    ELSE "BATCH_HOLD_AND_REVIEW"

-----------------------------------------------------------------------------
(* Catalogs.                                                               *)
Same(m, code, n) == code = Wildcard \/ n = code \/ n \in m.products[code]

Enables(m, n, s) ==
    /\ \E code \in DOMAIN m.products : Same(m, code, n)
    /\ \E code \in m.stations : code \in {s, Wildcard}

\* Variant: an activation without its first check.
PreflightNothing(m) == TRUE

\* What activate_deployment asks of a policy.
Preflight(m) ==
    \A code \in DOMAIN m.products, station \in m.stations :
        Resolvable(m.policy, code, station)

-----------------------------------------------------------------------------
(* Packs.                                                                  *)
\* load_manifests does not resolve policies; the packs of the repository do resolve.
ASSUME FilesAssumption == Files \subseteq Offers /\ \A m \in Files : Preflight(m)

\* The bootstrap of the first start.
PolicyInit ==
    /\ active \in Packs
    /\ \E m \in Files : manifest = [p \in Packs |-> IF p = active THEN m ELSE NoPack]
    /\ system = {active} /\ converged = {}
    /\ inspection = [r \in Inspections |-> Unposted]

\* create_deployment.
Deploy(p, m) ==
    /\ manifest[p] = NoPack
    /\ manifest' = [manifest EXCEPT ![p] = m]
    /\ UNCHANGED <<active, system, converged, inspection>>

\* activate_deployment; where another check of it refuses, nothing changes (Release).
Activate(p) ==
    /\ manifest[p] # NoPack /\ Preflight(manifest[p])
    /\ active' = p
    /\ system' = system \ {p}
    /\ UNCHANGED <<manifest, converged, inspection>>

\* bootstrap_defaults finds m, whose key and version make it pack p.  A start that
\* fails, because p exists and is not the active pack, leaves the packs as they are.
Converge(p, m) ==
    \/ /\ active \notin system \/ manifest[active] = m \/ (p # active /\ manifest[p] # NoPack)
       /\ UNCHANGED packs
    \/ /\ active \in system /\ p = active /\ manifest[p] # m
       /\ manifest' = [manifest EXCEPT ![p] = m]
       /\ converged' = converged \cup {p}
       /\ UNCHANGED <<active, system>>
    \/ /\ active \in system /\ manifest[active] # m /\ manifest[p] = NoPack
       /\ manifest' = [manifest EXCEPT ![p] = m]
       /\ active' = p
       /\ system' = system \cup {p}
       /\ UNCHANGED converged

\* The API restarts; a form that was being handled is gone.
Restart(p, m) ==
    /\ Converge(p, m)
    /\ inspection' = [r \in Inspections |-> IF inspection[r].at = "parsed" THEN Gone ELSE inspection[r]]

-----------------------------------------------------------------------------
(* Inspections.                                                               *)

\* context_from_fields; the submitted names are kept as they are.
Parse(r, n, s) ==
    /\ inspection[r] = Unposted
    /\ Enables(manifest[active], n, s)
    /\ inspection' = [inspection EXCEPT ![r] = [at |-> "parsed", product |-> n, station |-> s]]
    /\ UNCHANGED packs

Row(r, p) == [at |-> "received", product |-> inspection[r].product,
              station |-> inspection[r].station, pack |-> p]

\* Variant: the catalog is not asked again after the form was parsed.
CreateTrusting(r) ==
    /\ inspection[r].at = "parsed"
    /\ inspection' = [inspection EXCEPT ![r] = Row(r, active)]
    /\ UNCHANGED packs

\* create_inspection: it binds the row to the pack that is active now.
Create(r) ==
    /\ inspection[r].at = "parsed"
    /\ inspection' = [inspection EXCEPT ![r] =
          IF Enables(manifest[active], inspection[r].product, inspection[r].station)
          THEN Row(r, active) ELSE Gone]
    /\ UNCHANGED packs

\* A decision keeps the policy that made it: PolicyDecision.policy_snapshot.
Decision(r, score, policy) ==
    [at |-> "decided", product |-> inspection[r].product, station |-> inspection[r].station,
     pack |-> inspection[r].pack, score |-> score, policy |-> policy,
     route |-> Route(score, Resolve(policy, inspection[r].product, inspection[r].station))]

\* Variant: the worker asks the pack that is active when it scores.
DecideUnderActive(r, score) ==
    LET policy == manifest[active].policy IN
    /\ inspection[r].at = "received"
    /\ Resolvable(policy, inspection[r].product, inspection[r].station)
    /\ inspection' = [inspection EXCEPT ![r] = Decision(r, score, policy)]
    /\ UNCHANGED packs

\* The second half of process_inference.  Where resolve raises, the worker's
\* transaction is rolled back and the inspection stays as it was.
Decide(r, score) ==
    LET policy == manifest[inspection[r].pack].policy IN
    /\ inspection[r].at = "received"
    /\ Resolvable(policy, inspection[r].product, inspection[r].station)
    /\ inspection' = [inspection EXCEPT ![r] = Decision(r, score, policy)]
    /\ UNCHANGED packs

\* The model or the evidence is not available: review by a person, no policy.
FailSafe(r) ==
    /\ inspection[r].at = "received"
    /\ inspection' = [inspection EXCEPT ![r] = Failed]
    /\ UNCHANGED packs

PolicyNext ==
    \/ \E p \in Packs : Activate(p)
    \/ \E p \in Packs, m \in Offers : Deploy(p, m)
    \/ \E p \in Packs, m \in Files : Restart(p, m)
    \/ \E r \in Inspections, n \in Names, s \in Sites : Parse(r, n, s)
    \/ \E r \in Inspections : Create(r) \/ FailSafe(r)
    \/ \E r \in Inspections, score \in Scores : Decide(r, score)

PolicySpec == PolicyInit /\ [][PolicyNext]_policyVars

-----------------------------------------------------------------------------
(***************************************************************************)
(* Properties.  Those that compare an inspection with its pack except the  *)
(* packs of the bootstrap that a restart has rewritten in place.           *)
(***************************************************************************)

Bound == {r \in Inspections : inspection[r].at \in {"received", "decided"} /\ inspection[r].pack \notin converged}

\* The pack an inspection is bound to enables its product and its station, also if
\* another one was active when its form was parsed.
BoundPackAccepts ==
    \A r \in Bound :
        Enables(manifest[inspection[r].pack], inspection[r].product, inspection[r].station)

\* docs/03-deployment-pack-onboarding.md: the policy's resolution is checked before a
\* pack is activated.  So the worker can route every inspection that was accepted,
\* by the pack it is bound to.
AcceptedCanBeDecided ==
    \A r \in Bound :
        inspection[r].at = "received" =>
            Resolvable(manifest[inspection[r].pack].policy, inspection[r].product, inspection[r].station)

\* docs/03-deployment-pack-onboarding.md: an inspection keeps the policy of the pack
\* that was active when it was made, whatever is activated before it is scored.
DecidedByItsPack ==
    \A r \in Bound :
        inspection[r].at = "decided" => inspection[r].policy = manifest[inspection[r].pack].policy

Narrower(a, o) ==
    a # o /\ o.product \in {Unset, a.product} /\ o.station \in {Unset, a.station}

\* Of the rules of its policy that apply to an inspection, those that no narrower one
\* replaces explain its route, all of them alike.
DecidedByNarrowest ==
    \A r \in Inspections :
        inspection[r].at = "decided" =>
            LET policy == inspection[r].policy
                rules == {o \in policy.overrides \cup {policy.default} :
                            Applies(o, inspection[r].product, inspection[r].station)} IN
            \A o \in rules :
                (\A a \in rules : ~Narrower(a, o)) => inspection[r].route = Route(inspection[r].score, o)

Severity(route) ==
    CASE route = "AUTO_RELEASE" -> 0
      [] route = "MANUAL_REVIEW" -> 1
      [] route = "BATCH_HOLD_AND_REVIEW" -> 2

Alike(a, b) ==
    /\ inspection[a].at = "decided" /\ inspection[b].at = "decided"
    /\ inspection[a].policy = inspection[b].policy /\ inspection[a].station = inspection[b].station

\* Under one policy no image of a product and station is treated more leniently than
\* one with a lower score, whichever packs carried the policy.
WorseIsNotLenient ==
    \A a, b \in Inspections :
        Alike(a, b) /\ inspection[a].product = inspection[b].product /\ inspection[a].score <= inspection[b].score
            => Severity(inspection[a].route) <= Severity(inspection[b].route)

=============================================================================
