----------------------------- MODULE FleetIngest -----------------------------
(***************************************************************************)
(* POST /api/fleet/ingest (ingestTelemetry in fleetController.ts) and the  *)
(* operations that share its tables: issuing and revoking an enrolment     *)
(* token, revoking and reactivating a licence, deleting a machine.         *)
(*                                                                         *)
(* The handler awaits the database between its statements, so up to        *)
(* Cardinality(Slots) reports are in progress at once and interleave at    *)
(* every await: each statement is an action, and what the handler read at  *)
(* an await is kept in the variables of its slot until it uses it.         *)
(*                                                                         *)
(* Data is abstracted to what the properties tell apart: an asset is its   *)
(* fingerprint, a tenant its canonical name, and "the row seen last" is    *)
(* any row that matches.                                                   *)
(***************************************************************************)
EXTENDS Integers, FiniteSets

CONSTANTS
    Slots,       \* request handlers that may run at the same time
    Tenants,     \* tenant names
    Tokens,      \* enrolment tokens
    Licenses,    \* licence keys
    CredTenant,  \* the tenant a token or a licence belongs to
    Hosts, Uuids, NoUuid,  \* host names, device ids, a report without one
    Assets,      \* asset fingerprints (name|algorithm|path)
    Ids,         \* machine ids
    HashId,      \* 'mach-' + sha256(tenant-device)
    HashIdV2,    \* the id chosen when HashId is another tenant's row
    Seats,       \* admin_licenses.seats
    McaLimit,    \* admin_clients.mca_limit, 0 where the tenant has no client
    Reports,     \* the reports agents send
    Events,      \* which actions of the administrator and of faults occur
    NoToken, NoId, NoReport, NoRow

Creds == Tokens \cup Licenses
Devices == Hosts \cup Uuids
Key(t, d) == <<t, d>>

Report == [cred: Creds, host: Hosts, uuid: Uuids \cup {NoUuid},
           assets: SUBSET Assets]

Row == [tenant: Tenants, host: Hosts, uuid: Uuids \cup {NoUuid}, count: Nat]

ASSUME FiniteAssumption ==
    IsFiniteSet(Slots) /\ IsFiniteSet(Ids) /\ IsFiniteSet(Assets)

ASSUME CredAssumption ==
    /\ Tokens \cap Licenses = {}
    /\ CredTenant \in [Creds -> Tenants]
    /\ Seats \in [Licenses -> Nat]
    /\ McaLimit \in [Tenants -> Nat]

ASSUME IdAssumption ==
    /\ HashId \in [Tenants \X Devices -> Ids]
    /\ HashIdV2 \in [Tenants \X Devices -> Ids]
    /\ NoId \notin Ids

ASSUME ReportAssumption ==
    /\ Reports \subseteq Report
    /\ NoReport \notin Report
    /\ NoRow \notin Row
    /\ NoToken \notin Tokens
    /\ NoUuid \notin Uuids

VARIABLES
    \* the database
    tokens,     \* fleet_tokens: "unissued", "active" or "deleted"
    licenses,   \* admin_licenses: "active", "expired" or "revoked"
    machines,   \* fleet_machines by id
    assets,     \* the assets rows of a machine id, with their tenant_name
    drift,      \* the latest fleet_drift_events row per machine and asset
    snapshots,  \* today's fleet_daily_snapshots.active_workstations
    \* the handlers
    pc,         \* the statement a slot is about to execute
    rep,        \* the report it handles
    tok,        \* tokenRow.id
    mid,        \* machineId
    lim,        \* seatLimit
    base,       \* prevMap: the fingerprints before the purge
    del,        \* asset rows its transaction has deleted, not yet committed
    locked,     \* its transaction holds the machine row FOR UPDATE
    agg,        \* snapAgg
    \* deleteFleetMachine between its two statements
    adm

db == <<tokens, licenses, machines, assets, drift, snapshots>>
locals == <<rep, tok, mid, lim, base, del, locked, agg>>
vars == <<db, pc, locals, adm>>

Labels == {"idle", "lictoken", "lookup", "adopt", "limit", "count", "owner",
           "upsert", "baseline", "lock", "purge", "insert", "drift", "agg",
           "snap"}

TypeOK ==
    /\ tokens \in [Tokens -> {"unissued", "active", "deleted"}]
    /\ licenses \in [Licenses -> {"active", "expired", "revoked"}]
    /\ machines \in [Ids -> Row \cup {NoRow}]
    /\ assets \in [Ids -> SUBSET (Assets \X Tenants)]
    /\ drift \in [Ids -> [Assets -> {"none", "added", "removed"}]]
    /\ snapshots \in [Tenants -> Nat]
    /\ pc \in [Slots -> Labels]
    /\ rep \in [Slots -> Reports \cup {NoReport}]
    /\ \A r \in Slots : pc[r] # "idle" => rep[r] \in Reports
    /\ tok \in [Slots -> Tokens \cup {NoToken}]
    /\ mid \in [Slots -> Ids \cup {NoId}]
    /\ \A r \in Slots : pc[r] \in {"upsert", "baseline", "lock", "purge",
                                   "insert", "drift", "agg", "snap"}
                            => mid[r] \in Ids
    /\ lim \in [Slots -> Nat]
    /\ base \in [Slots -> SUBSET Assets]
    /\ del \in [Slots -> SUBSET (Assets \X Tenants)]
    /\ locked \in [Slots -> BOOLEAN]
    /\ agg \in [Slots -> Nat]
    /\ adm \in Ids \cup {NoId}

Init ==
    /\ tokens \in [Tokens -> {"unissued", "active"}]
    /\ licenses = [l \in Licenses |-> "active"]
    /\ machines = [i \in Ids |-> NoRow]
    /\ assets = [i \in Ids |-> {}]
    /\ drift = [i \in Ids |-> [a \in Assets |-> "none"]]
    /\ snapshots = [t \in Tenants |-> 0]
    /\ pc = [r \in Slots |-> "idle"]
    /\ rep = [r \in Slots |-> NoReport]
    /\ tok = [r \in Slots |-> NoToken]
    /\ mid = [r \in Slots |-> NoId]
    /\ lim = [r \in Slots |-> 0]
    /\ base = [r \in Slots |-> {}]
    /\ del = [r \in Slots |-> {}]
    /\ locked = [r \in Slots |-> FALSE]
    /\ agg = [r \in Slots |-> 0]
    /\ adm = NoId

-----------------------------------------------------------------------------
(* What the statements read.                                               *)

Exists(i) == machines[i] # NoRow
TenantOf(r) == CredTenant[rep[r].cred]

\* Faulty variant: the machine id is hashed from the host name.
DeviceByHost(r) == rep[r].host

Device(r) == IF rep[r].uuid # NoUuid THEN rep[r].uuid ELSE rep[r].host
Payload(r) == rep[r].assets \X {TenantOf(r)}

\* The machines a tenant occupies a seat with.
RowsOf(t) == {i \in Ids : Exists(i) /\ machines[i].tenant = t}

\* Faulty variant: adoption matches rows that already have a device id.
HostMatchesAnyRow(r) ==
    {i \in RowsOf(TenantOf(r)) : machines[i].host = rep[r].host}

\* Rows the device id matches, and rows still without one that the host name
\* matches.
UuidMatches(r) == {i \in RowsOf(TenantOf(r)) : machines[i].uuid = rep[r].uuid}
HostMatches(r) == {i \in RowsOf(TenantOf(r)) :
                      machines[i].uuid = NoUuid /\ machines[i].host = rep[r].host}

\* The seat counts MAX and Math.max range over: the tenant's licences that are
\* not revoked (an expired one is not) and its client row.
SeatSources(t) ==
    {Seats[l] : l \in {k \in Licenses :
                          CredTenant[k] = t /\ licenses[k] # "revoked"}}
        \cup {McaLimit[t]}

\* Another transaction holds machine row i FOR UPDATE.
HeldByOther(r, i) == \E s \in Slots \ {r} : locked[s] /\ mid[s] = i

\* Another transaction has deleted asset rows of machine i and not committed.
PurgedByOther(r, i) == \E s \in Slots \ {r} : mid[s] = i /\ del[s] # {}

Goto(r, label) == pc' = [pc EXCEPT ![r] = label]

\* The handler answers (or dies); what its transaction did is rolled back.
Finish(r) ==
    /\ Goto(r, "idle")
    /\ rep' = [rep EXCEPT ![r] = NoReport]
    /\ tok' = [tok EXCEPT ![r] = NoToken]
    /\ mid' = [mid EXCEPT ![r] = NoId]
    /\ lim' = [lim EXCEPT ![r] = 0]
    /\ base' = [base EXCEPT ![r] = {}]
    /\ del' = [del EXCEPT ![r] = {}]
    /\ locked' = [locked EXCEPT ![r] = FALSE]
    /\ agg' = [agg EXCEPT ![r] = 0]

-----------------------------------------------------------------------------
(* Faulty variants of the definitions below, which the runs must tell from  *)
(* them; no action of the specification uses one.                          *)

\* The seat check lets one machine too many through.
CountSeatsOffByOne(r) ==
    /\ pc[r] = "count"
    /\ IF Cardinality(RowsOf(TenantOf(r))) > lim[r]
         THEN Finish(r)
         ELSE Goto(r, "owner") /\ UNCHANGED locals
    /\ UNCHANGED <<db, adm>>

\* The upsert forgets its WHERE and re-homes another tenant's row.
UpsertedRehoming(r) ==
    [tenant |-> TenantOf(r), host |-> rep[r].host, uuid |-> rep[r].uuid,
     count |-> Cardinality(rep[r].assets)]

\* The upsert's SET list forgets asset_count.
UpsertedKeepingCount(r) ==
    IF Exists(mid[r])
      THEN [machines[mid[r]] EXCEPT !.host = rep[r].host]
      ELSE [tenant |-> TenantOf(r), host |-> rep[r].host, uuid |-> rep[r].uuid,
            count |-> Cardinality(rep[r].assets)]

\* token_id without its foreign key.
UpsertWithoutKey(r) ==
    /\ pc[r] = "upsert"
    /\ ~HeldByOther(r, mid[r])
    /\ machines' = [machines EXCEPT ![mid[r]] =
                      [tenant |-> TenantOf(r), host |-> rep[r].host,
                       uuid |-> rep[r].uuid, count |-> 0]]
    /\ Goto(r, "baseline")
    /\ UNCHANGED <<tokens, licenses, assets, drift, snapshots, locals, adm>>

\* The baseline keeps whole rows instead of fingerprints.
ReadBaselineRows(r) ==
    /\ pc[r] = "baseline"
    /\ base' = [base EXCEPT ![r] = assets[mid[r]]]
    /\ Goto(r, "lock")
    /\ UNCHANGED <<db, rep, tok, mid, lim, del, locked, agg, adm>>

\* The purge deletes what the baseline found, before the row was locked.
PurgeBaseline(r) ==
    /\ pc[r] = "purge"
    /\ ~PurgedByOther(r, mid[r])
    /\ del' = [del EXCEPT ![r] = {p \in assets[mid[r]] : p[1] \in base[r]}]
    /\ Goto(r, "insert")
    /\ UNCHANGED <<db, rep, tok, mid, lim, base, locked, agg, adm>>

\* Removed assets are not recorded.
DriftWithoutRemovals(r) ==
    [a \in Assets |->
        IF base[r] # {} /\ a \in rep[r].assets \ base[r] THEN "added"
                                                       ELSE drift[mid[r]][a]]

\* The snapshot row of today is never refreshed.
WriteSnapshotOnce(r) ==
    /\ pc[r] = "snap"
    /\ snapshots' = [snapshots EXCEPT
                       ![TenantOf(r)] = IF @ = 0 THEN agg[r] ELSE @]
    /\ Finish(r)
    /\ UNCHANGED <<tokens, licenses, machines, assets, drift, adm>>

\* A failed transaction goes back to the pool without ROLLBACK.
AbortWithoutRollback(r) ==
    /\ "abort" \in Events
    /\ pc[r] # "idle"
    /\ Goto(r, "idle")
    /\ UNCHANGED <<db, locals, adm>>

-----------------------------------------------------------------------------
(* Authentication.  A credential that is refused changes nothing.          *)

AuthToken(r, rp) ==
    /\ pc[r] = "idle"
    /\ rp.cred \in Tokens
    /\ tokens[rp.cred] = "active"
    /\ rep' = [rep EXCEPT ![r] = rp]
    /\ tok' = [tok EXCEPT ![r] = rp.cred]
    /\ Goto(r, "lookup")
    /\ UNCHANGED <<db, mid, lim, base, del, locked, agg, adm>>

AuthLicense(r, rp) ==
    /\ pc[r] = "idle"
    /\ rp.cred \in Licenses
    /\ licenses[rp.cred] = "active"
    /\ rep' = [rep EXCEPT ![r] = rp]
    /\ Goto(r, "lictoken")
    /\ UNCHANGED <<db, tok, mid, lim, base, del, locked, agg, adm>>

\* A licence enrols under one of its tenant's tokens when there is one.
PickTenantToken(r) ==
    /\ pc[r] = "lictoken"
    /\ LET own == {k \in Tokens : /\ CredTenant[k] = TenantOf(r)
                                  /\ tokens[k] = "active"}
       IN  \/ \E k \in own : tok' = [tok EXCEPT ![r] = k]
           \/ own = {} /\ UNCHANGED tok
    /\ Goto(r, "lookup")
    /\ UNCHANGED <<db, rep, mid, lim, base, del, locked, agg, adm>>

-----------------------------------------------------------------------------
(* Which machine is it?                                                    *)

\* BILL-1 / DEF-35: by device id when the report has one, else by host name
\* among the rows without a device id.
Lookup(r) ==
    /\ pc[r] = "lookup"
    /\ LET found == IF rep[r].uuid # NoUuid THEN UuidMatches(r)
                                            ELSE HostMatches(r)
       IN  \/ \E i \in found : /\ mid' = [mid EXCEPT ![r] = i]
                               /\ Goto(r, "upsert")
           \/ /\ found = {}
              /\ Goto(r, IF rep[r].uuid # NoUuid THEN "adopt" ELSE "limit")
              /\ UNCHANGED mid
    /\ UNCHANGED <<db, rep, tok, lim, base, del, locked, agg, adm>>

\* A device that enrolled by host name adopts that row.
Adopt(r) ==
    /\ pc[r] = "adopt"
    /\ \/ \E i \in HostMatches(r) : /\ mid' = [mid EXCEPT ![r] = i]
                                    /\ Goto(r, "upsert")
       \/ /\ HostMatches(r) = {}
          /\ Goto(r, "limit")
          /\ UNCHANGED mid
    /\ UNCHANGED <<db, rep, tok, lim, base, del, locked, agg, adm>>

-----------------------------------------------------------------------------
(* DEF-21: seats.  A limit of 0 means no limit.                            *)

ReadLimit(r) ==
    /\ pc[r] = "limit"
    /\ \E n \in SeatSources(TenantOf(r)) :
          /\ \A k \in SeatSources(TenantOf(r)) : k =< n
          /\ lim' = [lim EXCEPT ![r] = n]
          /\ Goto(r, IF n > 0 THEN "count" ELSE "owner")
    /\ UNCHANGED <<db, rep, tok, mid, base, del, locked, agg, adm>>

CountSeats(r) ==
    /\ pc[r] = "count"
    /\ IF Cardinality(RowsOf(TenantOf(r))) >= lim[r]
         THEN Finish(r)    \* 403
         ELSE Goto(r, "owner") /\ UNCHANGED locals
    /\ UNCHANGED <<db, adm>>

\* The id hashed from tenant and device, or the second one when the first is
\* another tenant's row.
ChooseId(r) ==
    /\ pc[r] = "owner"
    /\ LET key == Key(TenantOf(r), Device(r))
           taken == /\ Exists(HashId[key])
                    /\ machines[HashId[key]].tenant # TenantOf(r)
       IN  mid' = [mid EXCEPT ![r] = IF taken THEN HashIdV2[key]
                                              ELSE HashId[key]]
    /\ Goto(r, "upsert")
    /\ UNCHANGED <<db, rep, tok, lim, base, del, locked, agg, adm>>

-----------------------------------------------------------------------------
(* The machine row.                                                        *)

\* INSERT ... ON CONFLICT (id) DO UPDATE ... WHERE same tenant: a new row, an
\* update that keeps a device id the report lacks, or nothing at all when the
\* row is another tenant's.
Upserted(r) ==
    LET old == machines[mid[r]]
    IN  IF ~Exists(mid[r])
          THEN [tenant |-> TenantOf(r), host |-> rep[r].host,
                uuid |-> rep[r].uuid, count |-> Cardinality(rep[r].assets)]
        ELSE IF old.tenant = TenantOf(r)
          THEN [tenant |-> old.tenant, host |-> rep[r].host,
                uuid |-> IF rep[r].uuid # NoUuid THEN rep[r].uuid ELSE old.uuid,
                count |-> Cardinality(rep[r].assets)]
        ELSE old

\* The foreign key refuses a token deleted since it was read; the row lock of
\* another report's transaction makes the statement wait.
Upsert(r) ==
    /\ pc[r] = "upsert"
    /\ ~HeldByOther(r, mid[r])
    /\ IF tok[r] # NoToken /\ tokens[tok[r]] # "active"
         THEN Finish(r) /\ UNCHANGED machines    \* 500
         ELSE /\ machines' = [machines EXCEPT ![mid[r]] = Upserted(r)]
              /\ Goto(r, "baseline")
              /\ UNCHANGED locals
    /\ UNCHANGED <<tokens, licenses, assets, drift, snapshots, adm>>

ReadBaseline(r) ==
    /\ pc[r] = "baseline"
    /\ base' = [base EXCEPT ![r] = {p[1] : p \in assets[mid[r]]}]
    /\ Goto(r, "lock")
    /\ UNCHANGED <<db, rep, tok, mid, lim, del, locked, agg, adm>>

-----------------------------------------------------------------------------
(* The transaction that replaces the inventory.                            *)

\* SELECT ... FOR UPDATE locks the row if it is still there.
Lock(r) ==
    /\ pc[r] = "lock"
    /\ ~HeldByOther(r, mid[r])
    /\ locked' = [locked EXCEPT ![r] = Exists(mid[r])]
    /\ Goto(r, "purge")
    /\ UNCHANGED <<db, rep, tok, mid, lim, base, del, agg, adm>>

Purge(r) ==
    /\ pc[r] = "purge"
    /\ ~PurgedByOther(r, mid[r])
    /\ del' = [del EXCEPT ![r] = assets[mid[r]]]
    /\ Goto(r, "insert")
    /\ UNCHANGED <<db, rep, tok, mid, lim, base, locked, agg, adm>>

\* The inserts and COMMIT.  Without the machine row the foreign key refuses
\* the first insert and the transaction is rolled back (500).
InsertAndCommit(r) ==
    /\ pc[r] = "insert"
    /\ ~HeldByOther(r, mid[r])
    /\ IF ~Exists(mid[r]) /\ Payload(r) # {}
         THEN Finish(r) /\ UNCHANGED assets
         ELSE /\ assets' = [assets EXCEPT
                              ![mid[r]] = (@ \ del[r]) \cup Payload(r)]
              /\ locked' = [locked EXCEPT ![r] = FALSE]
              /\ del' = [del EXCEPT ![r] = {}]
              /\ Goto(r, "drift")
              /\ UNCHANGED <<rep, tok, mid, lim, base, agg>>
    /\ UNCHANGED <<tokens, licenses, machines, drift, snapshots, adm>>

\* A transaction that found no row holds no lock on it.  If the row was enrolled
\* again meanwhile it can wait for the row while the row's holder waits for the
\* asset rows it has deleted: PostgreSQL cancels one of the two.
BreakDeadlock(r, s) ==
    /\ pc[r] = "insert" /\ del[r] # {}
    /\ pc[s] = "purge" /\ locked[s]
    /\ mid[s] = mid[r]
    /\ \E victim \in {r, s} : Finish(victim)
    /\ UNCHANGED <<db, adm>>

-----------------------------------------------------------------------------
(* After the commit: drift events (DEF-36) and the daily snapshot.         *)

\* Nothing is recorded when the previous inventory was empty (hadBaseline).
DriftAfter(r) ==
    [a \in Assets |->
        IF base[r] = {} THEN drift[mid[r]][a]
        ELSE IF a \in rep[r].assets \ base[r] THEN "added"
        ELSE IF a \in base[r] \ rep[r].assets THEN "removed"
        ELSE drift[mid[r]][a]]

RecordDrift(r) ==
    /\ pc[r] = "drift"
    /\ drift' = [drift EXCEPT ![mid[r]] = DriftAfter(r)]
    /\ Goto(r, "agg")
    /\ UNCHANGED <<tokens, licenses, machines, assets, snapshots, locals, adm>>

Aggregate(r) ==
    /\ pc[r] = "agg"
    /\ agg' = [agg EXCEPT ![r] = Cardinality(RowsOf(TenantOf(r)))]
    /\ Goto(r, "snap")
    /\ UNCHANGED <<db, rep, tok, mid, lim, base, del, locked, adm>>

WriteSnapshot(r) ==
    /\ pc[r] = "snap"
    /\ snapshots' = [snapshots EXCEPT ![TenantOf(r)] = agg[r]]
    /\ Finish(r)    \* 201
    /\ UNCHANGED <<tokens, licenses, machines, assets, drift, adm>>

\* A statement throws, or the process dies, at any await: no more of the
\* report is processed and an open transaction is rolled back.
Abort(r) ==
    /\ "abort" \in Events
    /\ pc[r] # "idle"
    /\ Finish(r)
    /\ UNCHANGED <<db, adm>>

-----------------------------------------------------------------------------
(* The administrator, and time.                                            *)

IssueToken(k) ==
    /\ tokens[k] = "unissued"
    /\ tokens' = [tokens EXCEPT ![k] = "active"]
    /\ UNCHANGED <<licenses, machines, assets, drift, snapshots, pc, locals, adm>>

DeleteToken(k) ==
    /\ "delete_token" \in Events
    /\ tokens[k] = "active"
    /\ tokens' = [tokens EXCEPT ![k] = "deleted"]
    /\ UNCHANGED <<licenses, machines, assets, drift, snapshots, pc, locals, adm>>

SetLicense(l, from, to) ==
    /\ licenses[l] \in from
    /\ licenses' = [licenses EXCEPT ![l] = to]
    /\ UNCHANGED <<tokens, machines, assets, drift, snapshots, pc, locals, adm>>

RevokeLicense(l) ==
    /\ "revoke" \in Events
    /\ SetLicense(l, {"active", "expired"}, "revoked")

ReactivateLicense(l) ==
    /\ "revoke" \in Events
    /\ SetLicense(l, {"expired", "revoked"}, "active")

ExpireLicense(l) ==
    /\ "expire" \in Events
    /\ SetLicense(l, {"active"}, "expired")

\* deleteFleetMachine: DELETE FROM assets, then DELETE FROM fleet_machines,
\* each waiting for the rows a transaction has locked.
DeleteMachineAssets(i) ==
    /\ "delete_machine" \in Events
    /\ adm = NoId
    /\ Exists(i)
    /\ \A s \in Slots : mid[s] = i => del[s] = {}
    /\ assets' = [assets EXCEPT ![i] = {}]
    /\ adm' = i
    /\ UNCHANGED <<tokens, licenses, machines, drift, snapshots, pc, locals>>

\* The row goes, and by ON DELETE CASCADE what was inserted in between.
DeleteMachineRow ==
    /\ adm # NoId
    /\ \A s \in Slots : ~(locked[s] /\ mid[s] = adm)
    /\ machines' = [machines EXCEPT ![adm] = NoRow]
    /\ assets' = [assets EXCEPT ![adm] = {}]
    /\ adm' = NoId
    /\ UNCHANGED <<tokens, licenses, drift, snapshots, pc, locals>>

-----------------------------------------------------------------------------
Statement(r) ==
    \/ PickTenantToken(r) \/ Lookup(r) \/ Adopt(r) \/ ReadLimit(r)
    \/ CountSeats(r) \/ ChooseId(r) \/ Upsert(r) \/ ReadBaseline(r)
    \/ Lock(r) \/ Purge(r) \/ InsertAndCommit(r) \/ RecordDrift(r)
    \/ Aggregate(r) \/ WriteSnapshot(r)

Admin ==
    \/ \E k \in Tokens : IssueToken(k) \/ DeleteToken(k)
    \/ \E l \in Licenses : \/ RevokeLicense(l)
                           \/ ReactivateLicense(l)
                           \/ ExpireLicense(l)
    \/ \E i \in Ids : DeleteMachineAssets(i)
    \/ DeleteMachineRow

Next ==
    \/ \E r \in Slots :
          \/ \E rp \in Reports : AuthToken(r, rp) \/ AuthLicense(r, rp)
          \/ Statement(r)
          \/ Abort(r)
    \/ \E r, s \in Slots : BreakDeadlock(r, s)
    \/ Admin

Spec == Init /\ [][Next]_vars

\* A handler that can go on does, and a statement that waits for a row gets it
\* if the row becomes free again and again: PostgreSQL's lock queues are first
\* come, first served.  Its deadlock detector runs.
Fairness ==
    /\ \A r \in Slots : SF_vars(Statement(r))
    /\ WF_vars(\E r, s \in Slots : BreakDeadlock(r, s))

FairSpec == Spec /\ Fairness

-----------------------------------------------------------------------------
(* Properties.                                                             *)

SeatsEverGranted(t) ==
    {Seats[l] : l \in {k \in Licenses : CredTenant[k] = t}} \cup {McaLimit[t]}

\* DEF-21 under concurrency: the check (count, then insert) is not atomic, so
\* every other handler may slip past it once, but no more than that: with n
\* handlers a tenant that has a limit exceeds the most seats it was ever
\* granted by at most n - 1.  With one handler the limit is exact.
SeatOvershootBounded ==
    \A t \in Tenants : McaLimit[t] > 0 =>
        \E n \in SeatsEverGranted(t) :
            Cardinality(RowsOf(t)) =< n + Cardinality(Slots) - 1

\* What DEF-21's comment says: a new machine never exceeds the seats.
SeatLimitEnforced ==
    \A t \in Tenants : McaLimit[t] > 0 =>
        \E n \in SeatsEverGranted(t) : Cardinality(RowsOf(t)) =< n

\* One seat per device: a tenant has no two rows with the same device id.
OneRowPerUuid ==
    \A i, j \in Ids :
        /\ Exists(i) /\ Exists(j)
        /\ machines[i].tenant = machines[j].tenant
        /\ machines[i].uuid = machines[j].uuid
        /\ machines[i].uuid # NoUuid
        => i = j

\* A row that has a device id keeps it as long as it exists: no report makes
\* it another device's row.
UuidNeverReassigned ==
    [][\A i \in Ids :
          (Exists(i) /\ Exists(i)' /\ machines[i].uuid # NoUuid)
              => machines'[i].uuid = machines[i].uuid]_vars

\* A row that has a device id is only ever written by a report of that device:
\* two machines that share a host name are not merged.
IdentifiedRowKeptByDevice ==
    [][\A r \in Slots :
          (/\ pc[r] = "upsert" /\ pc'[r] = "baseline"
           /\ Exists(mid[r]) /\ machines[mid[r]].uuid # NoUuid)
              => rep[r].uuid = machines[mid[r]].uuid]_vars

\* A machine never moves to another tenant, whatever ids collide (the WHERE of
\* the upsert).
RowTenantFixed ==
    [][\A i \in Ids :
          (Exists(i) /\ Exists(i)') => machines'[i].tenant = machines[i].tenant]_vars

\* A sync that holds the machine row leaves exactly its own inventory, whatever
\* other syncs of the machine, deletions and failures do in between.
SyncReplacesInventory ==
    [][\A r \in Slots :
          (pc[r] = "insert" /\ locked[r] /\ pc'[r] = "drift")
              => assets'[mid[r]] = Payload(r)]_vars

\* A token that has been revoked enrols nothing any more, also when the report
\* was authenticated before the revocation.
RevokedTokenEnrolsNothing ==
    [][\A r \in Slots :
          (tok[r] # NoToken /\ tokens[tok[r]] = "deleted" /\ pc[r] = "upsert")
              => machines'[mid[r]] = machines[mid[r]] \/ pc'[r] = "upsert"]_vars

\* A report that was accepted is answered: no handler waits for a row forever.
RequestsAnswered ==
    \A r \in Slots : pc[r] # "idle" ~> pc[r] = "idle"
=============================================================================
