---------------------------- MODULE MCFleetIngest ----------------------------
(* Instances of FleetIngest for TLC: each .cfg takes the sets it needs.      *)
EXTENDS FleetIngest, TLC

CONSTANTS r1, t1, t2, t3, k1, k2, k3, l1, h1, h2, u1, u2, u3, u4, a1, a2,
          m1, m2, m3, m4, m5, m6

\* k1 belongs to tenant t1, k2 and l1 to t2, k3 to t3, which has no limit.
MCCredTenant == [c \in Creds |-> CASE c = k1 -> t1 [] c = k3 -> t3 [] OTHER -> t2]

\* Ids: device u4 of t2 hashes to the id of device u1 of t1, and has m6 as its
\* second id; no other ids collide.
MCHashId ==
    LET id == (<<t1, h1>> :> m1) @@ (<<t1, h2>> :> m2) @@ (<<t1, u1>> :> m3) @@
              (<<t1, u2>> :> m4) @@ (<<t1, u3>> :> m5) @@
              (<<t2, h1>> :> m1) @@ (<<t2, h2>> :> m2) @@ (<<t2, u1>> :> m4) @@
              (<<t2, u4>> :> m3)
    IN  [p \in Tenants \X Devices |-> IF p \in DOMAIN id THEN id[p] ELSE m6]
MCHashIdV2 == [p \in Tenants \X Devices |-> m6]

MCSeats == [l \in Licenses |-> 2]
MCLimitOne == [t \in Tenants |-> IF t = t3 THEN 0 ELSE 1]
MCNoLimit == [t \in Tenants |-> 0]

R(c, h, u, as) == [cred |-> c, host |-> h, uuid |-> u, assets |-> as]

\* Legacy and identified reports of the same hosts, by token and by licence.
SerialReports ==
    { R(k2, h1, NoUuid, {a1}), R(k2, h1, u1, {a2}), R(k2, h2, NoUuid, {a1, a2}),
      R(l1, h2, u1, {a1, a2}), R(l1, h2, u1, {}), R(k1, h2, NoUuid, {a2}) }

\* Agents that report device ids: u1 and u2 share a host name, u1 is renamed.
IdentifiedReports ==
    { R(k1, h1, u1, {}), R(k1, h2, u1, {}), R(k1, h1, u2, {}), R(k1, h2, u3, {}) }

\* Devices of two tenants whose ids collide, a device of each slot.
CollidingReports(r) ==
    IF r = r1 THEN { R(k1, h1, u1, {}), R(k1, h2, u1, {}) } ELSE { R(k2, h1, u4, {a1}) }

\* Two inventories of one machine, a report of each slot.
OneMachineReports(r) ==
    IF r = r1 THEN { R(k3, h1, u1, {a1}) } ELSE { R(k3, h1, u1, {}) }

\* The machines that race for a tenant's one seat, and two devices that had or
\* have the same host name.
SeatRaceReports == { R(k1, h1, NoUuid, {}), R(k1, h2, NoUuid, {}) }
LegacyToo == { R(k1, h1, u1, {a1}), R(k1, h1, u2, {a1}), R(k1, h1, NoUuid, {a1}) }
AllReports == SerialReports \cup IdentifiedReports
                 \cup UNION {CollidingReports(r) \cup OneMachineReports(r) : r \in Slots}
=============================================================================
