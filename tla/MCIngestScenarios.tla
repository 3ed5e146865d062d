------------------------ MODULE MCIngestScenarios --------------------------
(* One run of four scenarios, chosen at the start: reports one at a time; two *)
(* at a time of devices of one tenant; two at a time of devices whose ids      *)
(* collide; two at a time of one machine, with deletions and failures.        *)
EXTENDS MCFleetIngest, FleetIngestHistory

VARIABLE scenario

MCInit ==
    /\ HInit
    /\ scenario \in {"serial", "crossed", "colliding", "faults"}
    /\ scenario # "serial" => tokens = [k \in Tokens |-> "active"]
    /\ tokens[k3] = "active"

Reporting(r, reports) == rep'[r] = NoReport \/ rep'[r] \in reports

NothingDeleted == adm' = NoId /\ \A k \in Tokens : ~DeleteToken(k)

\* Slots are alike: the second is taken only while the first is busy.
FirstSlotFirst ==
    pc[r1] = "idle" =>
        \A r \in Slots \ {r1} : pc[r] = "idle" => pc'[r] = "idle"

Within ==
    CASE scenario = "serial" ->
           /\ \A r \in Slots : Reporting(r, IF r = r1 THEN SerialReports ELSE {})
           /\ NothingDeleted
      [] scenario = "crossed" ->
           /\ \A r \in Slots : Reporting(r, IdentifiedReports)
           /\ NothingDeleted /\ UNCHANGED licenses
      [] scenario = "colliding" ->
           /\ \A r \in Slots : Reporting(r, CollidingReports(r))
           /\ NothingDeleted /\ UNCHANGED licenses
      [] scenario = "faults" ->
           /\ \A r \in Slots : Reporting(r, OneMachineReports(r))
           /\ \A k \in {k1, k2} : ~DeleteToken(k)
           /\ UNCHANGED licenses

\* Next without Abort.
FaultFree ==
    \/ \E r \in Slots : \/ \E rp \in Reports : AuthToken(r, rp) \/ AuthLicense(r, rp)
                        \/ Statement(r)
    \/ \E r, s \in Slots : BreakDeadlock(r, s)
    \/ Admin

MCNext ==
    /\ IF scenario = "faults" THEN Next ELSE FaultFree
    /\ Within
    /\ FirstSlotFirst
    /\ Record
    /\ UNCHANGED scenario

MCSpec == MCInit /\ [][MCNext]_<<hvars, scenario>> /\ Fairness
=============================================================================
