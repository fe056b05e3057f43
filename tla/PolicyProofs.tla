---------------------------- MODULE PolicyProofs ----------------------------
(***************************************************************************)
(* Routing for any packs, names, thresholds, scores and requests.  The     *)
(* argument needs one fact that is not in the rows: a pack that is ACTIVE, *)
(* or to which an inspection is bound, has passed the first check of the   *)
(* activation, and only a restart changes its manifest.                    *)
(***************************************************************************)
EXTENDS Policy, TLAPS

Rows == {Unposted, Gone, Failed} \cup Parsed \cup Received \cup Decided

RowSound(v) ==
    /\ v \in Rows
    /\ v.at \in {"received", "decided"} =>
          /\ v.pack \in Packs /\ v.product \in Names /\ v.station \in Sites
          /\ manifest[v.pack] \in Offers
          /\ v.pack \notin converged =>
                /\ Preflight(manifest[v.pack])
                /\ Enables(manifest[v.pack], v.product, v.station)
    /\ v.at = "decided" =>
          /\ v.score \in Scores /\ ValidPolicy(v.policy)
          /\ Resolvable(v.policy, v.product, v.station)
          /\ v.route = Route(v.score, Resolve(v.policy, v.product, v.station))
          /\ v.pack \notin converged => v.policy = manifest[v.pack].policy

PolicyInvariant ==
    /\ manifest \in [Packs -> Offers \cup {NoPack}]
    /\ active \in Packs /\ manifest[active] \in Offers /\ Preflight(manifest[active])
    /\ system \subseteq Packs /\ converged \subseteq Packs
    /\ inspection \in [Inspections -> Rows]
    /\ \A r \in Inspections : RowSound(inspection[r])

-----------------------------------------------------------------------------
(* Rules.                                                                  *)

LEMMA NamesAreNotNone ==
    ASSUME NEW n \in Names
    PROVE  n # Unset
  BY SelectorAssumption

LEMMA SitesAreNotNone ==
    ASSUME NEW s \in Sites
    PROVE  s # Unset
  BY SelectorAssumption

\* A rule that applies, by its selectors.
LEMMA SpecificityOfApplying ==
    ASSUME NEW o, NEW n \in Names, NEW s \in Sites, Applies(o, n, s)
    PROVE  /\ Specificity(o) \in 0 .. 2
           /\ Specificity(o) = 2 <=> o.product = n /\ o.station = s
           /\ Specificity(o) = 0 <=> o.product = Unset /\ o.station = Unset
  BY NamesAreNotNone, SitesAreNotNone DEF Applies, Specificity

\* Where a rule applies there is a head.
LEMMA HeadExists ==
    ASSUME NEW policy, NEW n \in Names, NEW s \in Sites, Matches(policy, n, s) # {}
    PROVE  Heads(policy, n, s) # {}
  <1>1. \A o \in Matches(policy, n, s) : Specificity(o) \in 0 .. 2
    BY SpecificityOfApplying DEF Matches
  <1>2. CASE \E o \in Matches(policy, n, s) : Specificity(o) = 2
    BY <1>1, <1>2 DEF Heads
  <1>3. CASE /\ \A o \in Matches(policy, n, s) : Specificity(o) # 2
             /\ \E o \in Matches(policy, n, s) : Specificity(o) = 1
    BY <1>1, <1>3 DEF Heads
  <1>4. CASE \A o \in Matches(policy, n, s) : Specificity(o) = 0
    BY <1>1, <1>4 DEF Heads
  <1> QED
    BY <1>1, <1>2, <1>3, <1>4

\* A policy that resolves has one rule that no narrower one replaces, and it is the
\* one that resolve returns.
LEMMA ResolveIsNarrowest ==
    ASSUME NEW policy, ValidPolicy(policy), NEW n \in Names, NEW s \in Sites,
           Resolvable(policy, n, s),
           NEW o \in policy.overrides \cup {policy.default}, Applies(o, n, s),
           \A a \in policy.overrides \cup {policy.default} :
               Applies(a, n, s) => ~Narrower(a, o)
    PROVE  o = Resolve(policy, n, s)
  <1>1. CASE Matches(policy, n, s) = {}
    BY <1>1 DEF Matches, Resolve
  <1>2. CASE Matches(policy, n, s) # {}
    <2> DEFINE h == Resolve(policy, n, s)
    <2>1. h \in Heads(policy, n, s)
      BY <1>2, HeadExists DEF Resolve
    <2>2. h \in Matches(policy, n, s) /\ h \in policy.overrides /\ Applies(h, n, s)
      BY <2>1 DEF Heads, Matches
    <2>3. h.product # Unset \/ h.station # Unset
      BY <2>2 DEF ValidPolicy
    <2> HIDE DEF h
    <2>4. SUFFICES ASSUME o # h PROVE FALSE
      BY DEF h
    <2>5. ~Narrower(h, o)
      BY <2>2
    <2>6. o # policy.default
      BY <2>4, <2>5 DEF ValidPolicy, Narrower
    <2>7. o \in Matches(policy, n, s)
      BY <2>6 DEF Matches
    <2>8. Specificity(o) <= Specificity(h)
      BY <2>1, <2>7 DEF Heads
    <2>9. o.product \in {Unset, n} /\ o.station \in {Unset, s}
          /\ h.product \in {Unset, n} /\ h.station \in {Unset, s}
      BY <2>2 DEF Applies
    <2>10. Specificity(o) = Specificity(h)
      BY <2>4, <2>5, <2>8, <2>9, <2>3, NamesAreNotNone, SitesAreNotNone
         DEF Specificity, Narrower
    <2>11. o \in Heads(policy, n, s)
      BY <2>1, <2>7, <2>10 DEF Heads
    <2> QED
      BY <2>1, <2>4, <2>11 DEF Resolvable
  <1> QED
    BY <1>1, <1>2

\* Thresholds are in order, so routes are.
LEMMA RouteRises ==
    ASSUME NEW o, ValidRule(o), NEW x \in Scores, NEW y \in Scores, x <= y
    PROVE  Severity(Route(x, o)) <= Severity(Route(y, o))
  BY ScoresAssumption DEF Severity, Route, ValidRule

LEMMA ResolveIsValidRule ==
    ASSUME NEW policy, ValidPolicy(policy), NEW n \in Names, NEW s \in Sites
    PROVE  ValidRule(Resolve(policy, n, s))
  <1>1. CASE Matches(policy, n, s) = {}
    BY <1>1 DEF Resolve, ValidPolicy
  <1>2. CASE Matches(policy, n, s) # {}
    BY <1>2, HeadExists DEF Resolve, Heads, Matches, ValidPolicy
  <1> QED
    BY <1>1, <1>2

-----------------------------------------------------------------------------
(* The invariant.                                                          *)

LEMMA NoPackIsNoOffer == NoPack \notin Offers
  BY OffersAssumption

LEMMA PolicyStarts == PolicyInit => PolicyInvariant
  <1> SUFFICES ASSUME PolicyInit PROVE PolicyInvariant
    OBVIOUS
  <1>1. RowSound(Unposted)
    BY DEF RowSound, Unposted, Rows
  <1>2. /\ manifest \in [Packs -> Offers \cup {NoPack}]
        /\ active \in Packs /\ manifest[active] \in Offers /\ Preflight(manifest[active])
    BY FilesAssumption DEF PolicyInit
  <1> QED
    BY <1>1, <1>2 DEF PolicyInit, PolicyInvariant, Rows

\* A step that writes one row.
LEMMA OneRow ==
    ASSUME PolicyInvariant, NEW r \in Inspections, NEW v, RowSound(v),
           inspection' = [inspection EXCEPT ![r] = v], UNCHANGED packs
    PROVE  PolicyInvariant'
  <1>1. v \in Rows /\ inspection' \in [Inspections -> Rows]
    BY DEF PolicyInvariant, RowSound
  <1>2. ASSUME NEW q \in Inspections PROVE RowSound(inspection'[q])
    BY DEF PolicyInvariant
  <1>3. \A q \in Inspections : RowSound(inspection[q])'
    BY <1>2 DEF RowSound, packs
  <1> QED
    BY <1>1, <1>3 DEF PolicyInvariant, packs

\* A row stays sound when the packs that are not rewritten keep their manifests.
LEMMA OtherPacks ==
    ASSUME NEW v, RowSound(v), converged \subseteq converged',
           \A p \in Packs : manifest[p] \in Offers => manifest'[p] \in Offers,
           \A p \in Packs \ converged' : manifest[p] \in Offers => manifest'[p] = manifest[p]
    PROVE  RowSound(v)'
  <1>1. v \in Rows
    BY DEF RowSound
  <1>2. CASE v.at \in {"received", "decided"}
    BY <1>1, <1>2 DEF RowSound
  <1>3. CASE v.at \notin {"received", "decided"}
    BY <1>1, <1>3 DEF RowSound
  <1> QED
    BY <1>2, <1>3

LEMMA DeployKeeps ==
    ASSUME PolicyInvariant, NEW p \in Packs, NEW m \in Offers, Deploy(p, m)
    PROVE  PolicyInvariant'
  <1>1. manifest[p] = NoPack /\ manifest' = [manifest EXCEPT ![p] = m]
        /\ UNCHANGED <<active, system, converged, inspection>>
    BY DEF Deploy
  <1>2. \A q \in Packs : manifest[q] \in Offers => manifest'[q] = manifest[q]
    BY <1>1, NoPackIsNoOffer DEF PolicyInvariant
  <1>3. \A q \in Inspections : RowSound(inspection[q])'
    BY <1>1, <1>2, OtherPacks DEF PolicyInvariant
  <1> QED
    BY <1>1, <1>2, <1>3 DEF PolicyInvariant

LEMMA ActivateKeeps ==
    ASSUME PolicyInvariant, NEW p \in Packs, Activate(p)
    PROVE  PolicyInvariant'
  <1>1. manifest[p] # NoPack /\ Preflight(manifest[p]) /\ active' = p
        /\ system' = system \ {p} /\ UNCHANGED <<manifest, converged, inspection>>
    BY DEF Activate
  <1>2. \A q \in Inspections : RowSound(inspection[q])'
    BY <1>1, OtherPacks DEF PolicyInvariant
  <1> QED
    BY <1>1, <1>2 DEF PolicyInvariant

\* What a restart does to the packs.
LEMMA ConvergeKeeps ==
    ASSUME PolicyInvariant, NEW p \in Packs, NEW m \in Files, Converge(p, m)
    PROVE  /\ manifest' \in [Packs -> Offers \cup {NoPack}]
           /\ active' \in Packs /\ manifest'[active'] \in Offers /\ Preflight(manifest'[active'])
           /\ system' \subseteq Packs /\ converged' \subseteq Packs /\ converged \subseteq converged'
           /\ \A q \in Packs : manifest[q] \in Offers => manifest'[q] \in Offers
           /\ \A q \in Packs \ converged' : manifest[q] \in Offers => manifest'[q] = manifest[q]
  <1>1. m \in Offers /\ Preflight(m)
    BY FilesAssumption
  <1>2. CASE UNCHANGED packs
    BY <1>2 DEF packs, PolicyInvariant
  <1>3. CASE /\ p = active /\ manifest' = [manifest EXCEPT ![p] = m]
             /\ converged' = converged \cup {p} /\ UNCHANGED <<active, system>>
    BY <1>1, <1>3 DEF PolicyInvariant
  <1>4. CASE /\ manifest[p] = NoPack /\ manifest' = [manifest EXCEPT ![p] = m]
             /\ active' = p /\ system' = system \cup {p} /\ UNCHANGED converged
    BY <1>1, <1>4, NoPackIsNoOffer DEF PolicyInvariant
  <1> QED
    BY <1>2, <1>3, <1>4 DEF Converge

LEMMA RestartKeeps ==
    ASSUME PolicyInvariant, NEW p \in Packs, NEW m \in Files, Restart(p, m)
    PROVE  PolicyInvariant'
  <1>1. Converge(p, m)
        /\ inspection' = [r \in Inspections |-> IF inspection[r].at = "parsed" THEN Gone ELSE inspection[r]]
    BY DEF Restart
  <1>2. RowSound(Gone)
    BY DEF RowSound, Rows, Gone
  <1>3. ASSUME NEW r \in Inspections PROVE RowSound(inspection'[r])
    BY <1>1, <1>2 DEF PolicyInvariant
  <1>4. ASSUME NEW r \in Inspections PROVE RowSound(inspection[r])'
    <2> DEFINE v == IF inspection[r].at = "parsed" THEN Gone ELSE inspection[r]
    <2>1. inspection'[r] = v /\ RowSound(v)
      BY <1>1, <1>2 DEF PolicyInvariant
    <2>2. CASE inspection[r].at = "parsed"
      <3>1. inspection'[r] = Gone
        BY <2>1, <2>2
      <3> QED
        BY <3>1 DEF RowSound, Rows, Gone
    <2>3. CASE inspection[r].at # "parsed"
      <3>1. inspection'[r] = inspection[r] /\ RowSound(inspection[r])
        BY <2>1, <2>3
      <3> DEFINE w == inspection[r]
      <3> HIDE DEF w
      <3> QED
        BY <1>1, <3>1, ConvergeKeeps DEF RowSound
    <2> QED
      BY <2>2, <2>3
  <1>5. inspection' \in [Inspections -> Rows]
    BY <1>1, <1>3 DEF RowSound
  <1> QED
    BY <1>1, <1>4, <1>5, ConvergeKeeps DEF PolicyInvariant

LEMMA ParseKeeps ==
    ASSUME PolicyInvariant, NEW r \in Inspections, NEW n \in Names, NEW s \in Sites, Parse(r, n, s)
    PROVE  PolicyInvariant'
  <1> DEFINE v == [at |-> "parsed", product |-> n, station |-> s]
  <1>1. RowSound(v)
    BY DEF RowSound, Rows, Parsed
  <1>2. inspection' = [inspection EXCEPT ![r] = v] /\ UNCHANGED packs
    BY DEF Parse
  <1> QED
    BY <1>1, <1>2, OneRow

LEMMA CreateKeeps ==
    ASSUME PolicyInvariant, NEW r \in Inspections, Create(r)
    PROVE  PolicyInvariant'
  <1> DEFINE n == inspection[r].product
             s == inspection[r].station
             v == Row(r, active)
  <1>1. UNCHANGED packs
    BY DEF Create
  <1>2. inspection[r] \in Rows /\ inspection[r].at = "parsed" /\ active \in Packs
        /\ manifest[active] \in Offers /\ Preflight(manifest[active])
    BY DEF Create, PolicyInvariant
  <1>3. inspection[r] \in Parsed
    BY <1>2 DEF Rows, Unposted, Gone, Failed, Received, Decided
  <1>4. n \in Names /\ s \in Sites
    BY <1>3 DEF Parsed
  <1>5. CASE Enables(manifest[active], n, s)
    <2>1. v = [at |-> "received", product |-> n, station |-> s, pack |-> active]
      BY DEF Row
    <2>2. v \in Rows
      BY <1>2, <1>4, <2>1 DEF Rows, Received
    <2>3. v.at = "received" /\ v.product = n /\ v.station = s /\ v.pack = active
      BY <2>1
    <2> HIDE DEF v, n, s
    <2>4. RowSound(v)
      BY <1>2, <1>4, <1>5, <2>2, <2>3 DEF RowSound
    <2> QED
      BY <1>1, <1>5, <2>4, OneRow DEF Create, v, n, s
  <1>6. CASE ~Enables(manifest[active], n, s)
    <2>1. RowSound(Gone)
      BY DEF RowSound, Rows, Gone
    <2> QED
      BY <1>1, <1>6, <2>1, OneRow DEF Create
  <1> QED
    BY <1>5, <1>6

\* What is known of an inspection the worker takes.
LEMMA ReceivedRow ==
    ASSUME PolicyInvariant, NEW r \in Inspections, inspection[r].at = "received"
    PROVE  /\ inspection[r].pack \in Packs /\ inspection[r].product \in Names
           /\ inspection[r].station \in Sites /\ manifest[inspection[r].pack] \in Offers
           /\ inspection[r].pack \notin converged =>
                 /\ Preflight(manifest[inspection[r].pack])
                 /\ Enables(manifest[inspection[r].pack], inspection[r].product, inspection[r].station)
  BY DEF PolicyInvariant, RowSound

LEMMA FailSafeKeeps ==
    ASSUME PolicyInvariant, NEW r \in Inspections, FailSafe(r)
    PROVE  PolicyInvariant'
  <1>1. RowSound(Failed)
    BY DEF RowSound, Rows, Failed
  <1> QED
    BY <1>1, OneRow DEF FailSafe

LEMMA DecideKeeps ==
    ASSUME PolicyInvariant, NEW r \in Inspections, NEW score \in Scores, Decide(r, score)
    PROVE  PolicyInvariant'
  <1> DEFINE policy == manifest[inspection[r].pack].policy
             n == inspection[r].product
             s == inspection[r].station
             route == Route(score, Resolve(policy, n, s))
             v == Decision(r, score, policy)
  <1>1. inspection' = [inspection EXCEPT ![r] = v] /\ UNCHANGED packs
        /\ inspection[r].at = "received" /\ Resolvable(policy, n, s)
    BY DEF Decide
  <1>2. route \in Routes
    BY DEF Route, Routes
  <1>3. policy \in {m.policy : m \in Offers} /\ ValidPolicy(policy)
    BY <1>1, ReceivedRow, OffersAssumption
  <1>4. v = [at |-> "decided", product |-> n, station |-> s, pack |-> inspection[r].pack,
             score |-> score, policy |-> policy, route |-> route]
    BY DEF Decision
  <1> HIDE DEF route, policy
  <1>5. v \in Rows
    BY <1>1, <1>2, <1>3, <1>4, ReceivedRow DEF Rows, Decided
  <1>6. /\ v.at = "decided" /\ v.product = n /\ v.station = s /\ v.pack = inspection[r].pack
        /\ v.score = score /\ v.policy = policy /\ v.route = route
    BY <1>4
  <1> HIDE DEF v
  <1>7. RowSound(v)
    BY <1>1, <1>3, <1>5, <1>6, ReceivedRow DEF RowSound, route, policy
  <1> QED
    BY <1>1, <1>7, OneRow

-----------------------------------------------------------------------------
(* What follows.                                                           *)

\* An active pack has passed the activation's check of its policy, and so has one an
\* inspection is bound to, as long as no restart has rewritten it.
THEOREM PolicySafe == PolicySpec => []PolicyInvariant
  <1>1. PolicyInvariant /\ [PolicyNext]_policyVars => PolicyInvariant'
    <2> SUFFICES ASSUME PolicyInvariant, [PolicyNext]_policyVars PROVE PolicyInvariant'
      OBVIOUS
    <2>1. CASE UNCHANGED policyVars
      BY <2>1 DEF PolicyInvariant, RowSound, policyVars
    <2>2. CASE PolicyNext
      BY <2>2, DeployKeeps, ActivateKeeps, RestartKeeps, ParseKeeps, CreateKeeps, FailSafeKeeps,
         DecideKeeps DEF PolicyNext
    <2> QED
      BY <2>1, <2>2
  <1> QED
    BY <1>1, PolicyStarts, PTL DEF PolicySpec

\* Packs, requests and rows have their types.
THEOREM PolicyTypes == PolicySpec => []PolicyTypeOK
  <1>1. PolicyInvariant => PolicyTypeOK
    BY NoPackIsNoOffer DEF PolicyInvariant, PolicyTypeOK, Rows
  <1> QED
    BY <1>1, PolicySafe, PTL

\* The pack an inspection is bound to enables its product and station, whatever was
\* activated between the parsing of the form and the making of the row.
THEOREM PackAccepts == PolicySpec => []BoundPackAccepts
  <1>1. PolicyInvariant => BoundPackAccepts
    BY DEF PolicyInvariant, RowSound, BoundPackAccepts, Bound
  <1> QED
    BY <1>1, PolicySafe, PTL

\* An inspection is decided by the policy of the pack that was active when it was made.
THEOREM ItsPackDecides == PolicySpec => []DecidedByItsPack
  <1>1. PolicyInvariant => DecidedByItsPack
    BY DEF PolicyInvariant, RowSound, DecidedByItsPack, Bound
  <1> QED
    BY <1>1, PolicySafe, PTL

\* The route is the one of the rule that no narrower one replaces, in the policy the
\* decision keeps.
THEOREM NarrowestDecides == PolicySpec => []DecidedByNarrowest
  <1>1. PolicyInvariant => DecidedByNarrowest
    <2> SUFFICES ASSUME PolicyInvariant, NEW r \in Inspections, inspection[r].at = "decided",
                        NEW o \in inspection[r].policy.overrides \cup {inspection[r].policy.default},
                        Applies(o, inspection[r].product, inspection[r].station),
                        \A a \in inspection[r].policy.overrides \cup {inspection[r].policy.default} :
                            Applies(a, inspection[r].product, inspection[r].station)
                                => ~Narrower(a, o)
                 PROVE  inspection[r].route = Route(inspection[r].score, o)
      BY DEF DecidedByNarrowest
    <2>1. RowSound(inspection[r])
      BY DEF PolicyInvariant
    <2>2. o = Resolve(inspection[r].policy, inspection[r].product, inspection[r].station)
      BY <2>1, ResolveIsNarrowest DEF RowSound
    <2> QED
      BY <2>1, <2>2 DEF RowSound
  <1> QED
    BY <1>1, PolicySafe, PTL

\* Of two images of one product and station under one policy the one with the higher
\* score is not treated more leniently.
THEOREM WorseNotLenient == PolicySpec => []WorseIsNotLenient
  <1>1. PolicyInvariant => WorseIsNotLenient
    <2> SUFFICES ASSUME PolicyInvariant, NEW a \in Inspections, NEW b \in Inspections,
                        inspection[a].at = "decided", inspection[b].at = "decided",
                        inspection[a].policy = inspection[b].policy,
                        inspection[a].product = inspection[b].product,
                        inspection[a].station = inspection[b].station,
                        inspection[a].score <= inspection[b].score
                 PROVE  Severity(inspection[a].route) <= Severity(inspection[b].route)
      BY DEF WorseIsNotLenient, Alike
    <2> DEFINE o == Resolve(inspection[a].policy, inspection[a].product, inspection[a].station)
    <2>1. RowSound(inspection[a]) /\ RowSound(inspection[b])
      BY DEF PolicyInvariant
    <2>2. inspection[a].route = Route(inspection[a].score, o)
          /\ inspection[b].route = Route(inspection[b].score, o)
          /\ inspection[a].score \in Scores /\ inspection[b].score \in Scores
      BY <2>1 DEF RowSound
    <2>3. ValidRule(o)
      BY <2>1, ResolveIsValidRule DEF RowSound
    <2> HIDE DEF o
    <2> QED
      BY <2>2, <2>3, RouteRises
  <1> QED
    BY <1>1, PolicySafe, PTL

-----------------------------------------------------------------------------
(* No code of the catalogs is the wildcard, and no override selects an     *)
(* alias.                                                                  *)
PlainCatalogs ==
    \A m \in Offers :
        /\ Wildcard \notin DOMAIN m.products /\ Wildcard \notin m.stations
        /\ \A o \in m.policy.overrides, code \in DOMAIN m.products :
              o.product \notin m.products[code]

\* Where no override selects the submitted product, at most one applies.
LEMMA UnnamedIsResolvable ==
    ASSUME NEW policy, ValidPolicy(policy), NEW n \in Names, NEW s \in Sites,
           \A o \in policy.overrides : o.product # n
    PROVE  Resolvable(policy, n, s)
  <1> SUFFICES ASSUME NEW a \in Heads(policy, n, s), NEW b \in Heads(policy, n, s)
               PROVE  a = b
    BY DEF Resolvable
  <1>1. a \in policy.overrides /\ b \in policy.overrides /\ Applies(a, n, s) /\ Applies(b, n, s)
    BY DEF Heads, Matches
  <1>2. a.product = Unset /\ b.product = Unset
    BY <1>1 DEF Applies
  <1>3. a.station = s /\ b.station = s
    BY <1>1, <1>2 DEF Applies, ValidPolicy
  <1> QED
    BY <1>1, <1>2, <1>3 DEF ValidPolicy

\* Where catalogs are plain the worker can route every inspection that was accepted.
THEOREM AcceptedIsDecidable ==
    ASSUME PlainCatalogs
    PROVE  PolicySpec => []AcceptedCanBeDecided
  <1>1. PolicyInvariant => AcceptedCanBeDecided
    <2> SUFFICES ASSUME PolicyInvariant, NEW r \in Bound, inspection[r].at = "received"
                 PROVE  Resolvable(manifest[inspection[r].pack].policy, inspection[r].product,
                                   inspection[r].station)
      BY DEF AcceptedCanBeDecided
    <2> DEFINE m == manifest[inspection[r].pack]
               n == inspection[r].product
               s == inspection[r].station
    <2>1. n \in Names /\ s \in Sites /\ m \in Offers /\ Preflight(m) /\ Enables(m, n, s)
      BY ReceivedRow DEF Bound
    <2>2. ValidPolicy(m.policy)
      BY <2>1, OffersAssumption
    <2>3. s \in m.stations
      BY <2>1 DEF Enables, PlainCatalogs
    <2>4. PICK code \in DOMAIN m.products : Same(m, code, n)
      BY <2>1 DEF Enables
    <2>5. CASE n = code
      BY <2>1, <2>3, <2>4, <2>5 DEF Preflight
    <2>6. CASE n \in m.products[code]
      <3>1. \A o \in m.policy.overrides : o.product # n
        BY <2>1, <2>4, <2>6 DEF PlainCatalogs
      <3> QED
        BY <2>1, <2>2, <3>1, UnnamedIsResolvable
    <2> QED
      BY <2>1, <2>4, <2>5, <2>6 DEF Same, PlainCatalogs
  <1> QED
    BY <1>1, PolicySafe, PTL

=============================================================================
