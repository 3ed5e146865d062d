---------------------------- MODULE MCLicensePlan ----------------------------
(* One run of LicensePlan in three scenarios, chosen at the start.  Console:  *)
(* two requests at a time on two slugs of one tenant, acme and ac-me, one     *)
(* tier, no time.  Add-ons: one request at a time for one slug, two tiers.    *)
(* Pods: acme is set up; then a pod serves two requests at a time while its   *)
(* tier changes, and time passes.                                             *)
EXTENDS LicensePlan, TLC

CONSTANTS acme, hyphen, k1, s1, h1

MCNorm == [n \in Names |-> acme]
MCNameOf == [k \in Keys |-> IF k = k1 THEN acme ELSE hyphen]
MCRank == [t \in Tiers |-> IF t = "growth" THEN 2 ELSE 1]
MCPodName == [p \in Pods |-> acme]

VARIABLE scenario

MCInit == Init /\ scenario \in {"console", "addons", "pods"}

InAddons(label) == label \in {"addonClient", "addonLicenses"}

\* The names and the tiers in use; everything in use is within them.
Use(names, tiers) ==
    /\ \A h \in Handlers : loc'[h] # NoLoc =>
          loc'[h].tier \in tiers /\ loc'[h].name \in names
    /\ \A n \in Names : clients'[n] # NoRow => n \in names /\ clients'[n].tier \in tiers
    /\ \A k \in Keys : licenses'[k] # NoRow =>
          MCNameOf[k] \in names /\ licenses'[k].tier \in tiers

SetUp == now' = 0 /\ entCache' = entCache /\ \A p \in Pods : pods'[p].phase = "idle"

\* Handlers are alike: of two requests, h1 has the one whose kind comes first.
Kind(label) ==
    CASE label = "genActivate" -> 1
      [] label = "reactSet" -> 2
      [] label = "createInsert" -> 3
      [] label = "partnerLicense" -> 4
      [] label \in {"planLicenses", "planCommit"} -> 5
      [] OTHER -> 6
InOrder ==
    \A h \in Handlers \ {h1} :
        pc'[h1] # "idle" /\ pc'[h] # "idle" => Kind(pc'[h1]) =< Kind(pc'[h])

Within ==
    CASE scenario = "console" ->
            /\ SetUp
            /\ Use(Names, {"corporate"})
            /\ \A h \in Handlers : ~InAddons(pc'[h])
            /\ InOrder
      [] scenario = "addons" ->
            /\ SetUp /\ faults' = 0
            /\ Use({acme}, Tiers)
            /\ \A h \in Handlers : pc'[h] = "idle" \/ h = h1
      [] scenario = "pods" ->
            /\ \A h \in Handlers : InAddons(pc'[h]) \/ pc'[h] = "idle"
            /\ Use({acme}, Tiers)
            /\ (\E h \in Handlers : pc'[h] # "idle") => SetUp
            /\ UNCHANGED <<licenses, failed>>
            /\ \A n \in Names : ~Waiting(n)'

MCNext == Next /\ Within /\ UNCHANGED scenario
MCSpec == MCInit /\ [][MCNext]_<<vars, scenario>> /\ Fairness
=============================================================================
