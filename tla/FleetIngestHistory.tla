------------------------- MODULE FleetIngestHistory -------------------------
(***************************************************************************)
(* FleetIngest with history variables, and what the drift events, the asset *)
(* count and the daily snapshot, which are written in statements of their   *)
(* own, promise: each agrees with the rows once nothing is being written,   *)
(* unless something named here has come between the statements.  The steps  *)
(* are those of FleetIngest; Record only notes what they do.                *)
(***************************************************************************)
EXTENDS FleetIngest

VARIABLES
    unlogged,   \* machine ids whose drift events may lag behind (history)
    miscounted, \* machine ids whose asset_count may differ (history)
    outdated    \* tenants whose snapshot may be behind (history)

marks == <<unlogged, miscounted, outdated>>
hvars == <<vars, marks>>

\* The reports between the upsert of machine i and its last drift event, and
\* those of tenant t between the upsert and the snapshot.
Syncing(i) == {r \in Slots : /\ mid[r] = i
                             /\ pc[r] \in {"baseline", "lock", "purge", "insert",
                                           "drift"}}
Enrolled(t) == {r \in Slots : /\ pc[r] \in {"baseline", "lock", "purge", "insert",
                                            "drift", "agg", "snap"}
                              /\ TenantOf(r) = t}

\* Two reports of a machine are written at the same time, or its deletion begins.
Crossed(i) == (\E r, s \in Syncing(i)' : r # s) \/ adm' = i

\* The report ends between the commit and its drift events, or its inventory is
\* empty and the next report will find no baseline.
Unlogged(i) ==
    \/ Crossed(i)
    \/ \E r \in Syncing(i) :
          \/ pc[r] = "drift" /\ pc'[r] = "idle"
          \/ /\ pc[r] = "insert" /\ pc'[r] = "drift"
             /\ rep[r].assets = {} /\ base[r] # {}

\* The report ends between the upsert and the commit, or the row it upserts is
\* another tenant's.
Miscounted(i) ==
    \/ Crossed(i)
    \/ \E r \in Syncing(i) : pc[r] # "drift" /\ pc'[r] = "idle"
    \/ \E r \in Slots : /\ pc[r] = "upsert" /\ pc'[r] = "baseline" /\ mid[r] = i
                        /\ Exists(i) /\ machines[i].tenant # TenantOf(r)

\* A row of the tenant is deleted, a report ends between the upsert and the
\* snapshot, or a row is added when another report has already counted them.
Outdated(t) ==
    \/ ~(RowsOf(t) \subseteq RowsOf(t)')
    \/ \E r \in Enrolled(t) : pc'[r] = "idle" /\ ~WriteSnapshot(r)
    \/ RowsOf(t)' # RowsOf(t) /\ \E r \in Enrolled(t) : pc[r] = "snap"

Record ==
    /\ unlogged' = unlogged \cup {i \in Ids : Unlogged(i)}
    /\ miscounted' = miscounted \cup {i \in Ids : Miscounted(i)}
    /\ outdated' = outdated \cup {t \in Tenants : Outdated(t)}

HInit == Init /\ unlogged = {} /\ miscounted = {} /\ outdated = {}
HNext == Next /\ Record
HSpec == HInit /\ [][HNext]_hvars

-----------------------------------------------------------------------------
(* Properties.                                                             *)

\* The asset fingerprints a machine has.
Inventory(i) == {p[1] : p \in assets[i]}

\* DEF-36: once no report of a machine is being written, the latest event about
\* an asset says whether the machine has it.
DriftAgreesWithInventory ==
    \A i \in Ids \ unlogged : Syncing(i) = {} =>
        \A a \in Assets : /\ drift[i][a] = "added"   => a \in Inventory(i)
                          /\ drift[i][a] = "removed" => a \notin Inventory(i)

\* Once no report of a machine is being written, asset_count is the number of
\* its asset rows.
CountMatchesInventory ==
    \A i \in Ids \ miscounted : (Syncing(i) = {} /\ Exists(i)) =>
        machines[i].count = Cardinality(assets[i])

\* Once the reports that enrolled or updated a machine of the tenant have ended,
\* today's snapshot counts the tenant's machines, whatever else is in progress.
SnapshotCurrent ==
    \A t \in Tenants \ outdated : Enrolled(t) = {} =>
        snapshots[t] = Cardinality(RowsOf(t))
=============================================================================
