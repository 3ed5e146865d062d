----------------------------- MODULE LicensePlan -----------------------------
(***************************************************************************)
(* A tenant's plan: its row in admin_clients, its licences in              *)
(* admin_licenses, the console operations that change them                 *)
(* (adminController.ts), and what middleware/auth.ts makes of them: the    *)
(* entitlement, which a tenant pod asks of the central plane and caches    *)
(* for five minutes.                                                       *)
(*                                                                         *)
(* A plan is its tier; seats go with it and are modelled by FleetIngest.   *)
(* Of the add-ons, risk_assurance is modelled.  Customer ids, ports and    *)
(* mails are left out.  The clock counts in units of the pod's fetch       *)
(* timeout.                                                                *)
(***************************************************************************)
EXTENDS Integers, FiniteSets

CONSTANTS
    Names,       \* tenant slugs
    Norm,        \* normTenant: the slug without its hyphens
    Keys,        \* licence keys
    StripeKeys,  \* those that the Stripe webhook mints
    NameOf,      \* admin_licenses.tenant_name of a key
    Tiers, EnterpriseTiers,  \* ENTERPRISE_TIERS
    Rank,        \* the CASE that orders a tenant's licences
    Handlers,    \* console requests in progress
    Pods,        \* requests in progress on a tenant's pod
    PodName,     \* the tenant of a pod's session
    Ttl,         \* ENT_TTL_MS
    Timeout,     \* the fetch's 3 s
    Duration,    \* durationDays
    MaxTime, MaxFaults,  \* bounds
    NoRow, NoEntry, NoKey, NoLoc

ASSUME PlanAssumption ==
    /\ NameOf \in [Keys -> Names]
    /\ \A k \in Keys \ StripeKeys : Norm[NameOf[k]] = NameOf[k]
    /\ StripeKeys \subseteq Keys
    /\ EnterpriseTiers \subseteq Tiers
    /\ Rank \in [Tiers -> Nat]
    /\ PodName \in [Pods -> Names]
    /\ Ttl \in Nat \ {0} /\ Timeout \in Nat \ {0} /\ Duration \in Nat
    /\ MaxTime \in Nat /\ MaxFaults \in Nat
    /\ NoKey \notin Keys

Client == [tier: Tiers, status: {"active", "pending"}, addon: BOOLEAN]
License == [tier: Tiers, status: {"active", "revoked"}, addon: BOOLEAN,
            expires: Nat]
Entry == [at: Nat, risk: BOOLEAN]

ASSUME AbsentAssumption ==
    NoRow \notin Client \cup License /\ NoEntry \notin Entry

VARIABLES
    now,
    \* the central plane's database
    clients,   \* admin_clients by name
    licenses,  \* admin_licenses by key
    \* the console's handlers
    pc,        \* the statement that comes next
    loc,       \* what a handler was asked for and has read
    \* a tenant's pod
    entCache,  \* the cached entitlement of each tenant
    pods,      \* getTenantEntitlement in progress
    \* history
    given,     \* when the central plane last would have given either answer
    newer,     \* the keys generated since a client was last onboarded
    failed,    \* the keys whose generation failed before the activation
    faults

central == <<clients, licenses>>
console == <<pc, loc>>
cached == <<entCache, pods>>
history == <<newer, failed>>
vars == <<now, central, console, cached, history, given, faults>>

Labels == {"idle", "genActivate", "partnerLicense", "reactSet", "createInsert",
           "addonClient", "addonLicenses", "planLicenses", "planCommit",
           "delLicenses", "delCommit"}

\* name, tier and on are the request's, key, keys and rows what it works on.
Loc == [name: Names, tier: Tiers, on: BOOLEAN, key: Keys \cup {NoKey},
        keys: SUBSET Keys, rows: SUBSET Names]

Pod == [phase: {"idle", "asked", "read", "answer"}, start: Nat,
        seen: Entry \cup {NoEntry}, risk: BOOLEAN, stale: BOOLEAN]

HandlersOK ==
    /\ pc \in [Handlers -> Labels]
    /\ loc \in [Handlers -> Loc \cup {NoLoc}]
    /\ \A h \in Handlers :
          /\ pc[h] # "idle" => loc[h] \in Loc
          /\ pc[h] \in {"genActivate", "partnerLicense", "reactSet"}
                => loc[h].key \in Keys

HistoryOK ==
    /\ newer \in [Names -> SUBSET Keys]
    /\ failed \in SUBSET Keys
    /\ faults \in 0 .. MaxFaults

TypeOK ==
    /\ now \in 0 .. MaxTime
    /\ clients \in [Names -> Client \cup {NoRow}]
    /\ licenses \in [Keys -> License \cup {NoRow}]
    /\ HandlersOK
    /\ entCache \in [Names -> Entry \cup {NoEntry}]
    /\ pods \in [Pods -> Pod]
    /\ given \in [Names -> [BOOLEAN -> Int]]
    /\ HistoryOK

-----------------------------------------------------------------------------
(* What the statements read.                                               *)

IsClient(n) == clients[n] # NoRow
IsLicense(k) == licenses[k] # NoRow

Waiting(n) == IsClient(n) /\ clients[n].status = "pending"

\* The client rows that a comparison without hyphens finds.
ClientsOf(n) == {m \in Names : IsClient(m) /\ Norm[m] = Norm[n]}

\* A licence's tenant_name is compared as it is: the console stores it without
\* hyphens, the webhook as the slug.
Counted(n) ==
    {k \in Keys : IsLicense(k) /\ NameOf[k] = n /\ licenses[k].status # "revoked"}
Active(n) ==
    {k \in Keys : IsLicense(k) /\ NameOf[k] = n /\ licenses[k].status = "active"}

\* lic_tier: the tier of the highest rank, whether it has expired or not.
LicenseEligible(n) ==
    \E k \in Counted(n) :
        /\ licenses[k].tier \in EnterpriseTiers
        /\ \A j \in Counted(n) : Rank[licenses[j].tier] =< Rank[licenses[k].tier]

\* cli_tier: LIMIT 1 of the rows.
ClientEligible(n) == \E m \in ClientsOf(n) : clients[m].tier \in EnterpriseTiers

Eligible(n) == LicenseEligible(n) \/ ClientEligible(n)

HasAddon(n) ==
    \/ \E m \in ClientsOf(n) : clients[m].addon
    \/ \E k \in Counted(n) : licenses[k].expires > now /\ licenses[k].addon

\* The entitlements that localTenantEntitlement may compute: cli_tier is any of
\* the rows.
Entitlements(n) ==
    {HasAddon(n) /\ (LicenseEligible(n) \/ clients[m].tier \in EnterpriseTiers) :
        m \in ClientsOf(n)}
    \cup {HasAddon(n) /\ LicenseEligible(n) : m \in {i \in {0} : ClientsOf(n) = {}}}

\* Row locks of the transactions: updateClientPlan holds the client rows it has
\* changed, then the licences; deleteClient the licences.
RowLocked(n) ==
    \E h \in Handlers : pc[h] \in {"planLicenses", "planCommit"} /\ n \in loc[h].rows
KeyLocked(k) ==
    \E h \in Handlers : pc[h] \in {"planCommit", "delCommit"} /\ k \in loc[h].keys

Fault == faults < MaxFaults /\ faults' = faults + 1

Goto(h, label) == pc' = [pc EXCEPT ![h] = label]

End(h) ==
    /\ Goto(h, "idle")
    /\ loc' = [loc EXCEPT ![h] = NoLoc]

Asked(n, t, k) ==
    [name |-> n, tier |-> t, on |-> TRUE, key |-> k, keys |-> {}, rows |-> {}]

Begin(h, what, label) ==
    /\ pc[h] = "idle"
    /\ Goto(h, label)
    /\ loc' = [loc EXCEPT ![h] = what]

\* admin_clients after one row is written, admin_licenses likewise.
PutClient(n, row) ==
    /\ ~RowLocked(n)
    /\ clients' = [clients EXCEPT ![n] = row]
PutLicense(k, row) ==
    /\ ~KeyLocked(k)
    /\ licenses' = [licenses EXCEPT ![k] = row]

NewClient(t, s) == [tier |-> t, status |-> s, addon |-> FALSE]
NewLicense(t) ==
    [tier |-> t, status |-> "active", addon |-> FALSE, expires |-> now + Duration]

Init ==
    /\ now = 0
    /\ clients = [n \in Names |-> NoRow]
    /\ licenses = [k \in Keys |-> NoRow]
    /\ pc = [h \in Handlers |-> "idle"]
    /\ loc = [h \in Handlers |-> NoLoc]
    /\ entCache = [n \in Names |-> NoEntry]
    /\ pods = [p \in Pods |-> [phase |-> "idle", start |-> 0, seen |-> NoEntry,
                               risk |-> FALSE, stale |-> FALSE]]
    /\ given = [n \in Names |-> [b \in BOOLEAN |-> IF b THEN -(Ttl + Timeout) ELSE 0]]
    /\ newer = [n \in Names |-> {}]
    /\ failed = {}
    /\ faults = 0

-----------------------------------------------------------------------------
(* Faulty variants of the definitions below, which the runs must tell from  *)
(* them; no action of the specification uses one.                          *)

\* A cached answer is used one unit too long.
AskCachedTooOld(p) ==
    LET e == entCache[PodName[p]]
    IN  /\ pods[p].phase = "idle"
        /\ e # NoEntry /\ now - e.at =< Ttl
        /\ pods' = [pods EXCEPT ![p].phase = "answer", ![p].risk = e.risk]
        /\ UNCHANGED <<now, central, console, entCache, history, faults>>

\* Only a new licence activates the client.
GenInsertNewOnly(h, k, t) ==
    /\ k \notin StripeKeys
    /\ Begin(h, Asked(NameOf[k], t, k), IF IsLicense(k) THEN "idle" ELSE "genActivate")
    /\ PutLicense(k, NewLicense(t))
    /\ newer' = [n \in Names |->
                    IF Norm[n] = Norm[NameOf[k]] THEN newer[n] \cup {k} ELSE newer[n]]
    /\ failed' = failed \ {k}
    /\ UNCHANGED <<now, clients, cached, faults>>

\* The extension on reactivation is kept in days as text.
ReactSetUnextended(h) ==
    /\ pc[h] = "reactSet"
    /\ licenses' = [licenses EXCEPT ![loc[h].key] = [NewLicense(loc[h].tier)
                                        EXCEPT !.expires = -1]]
    /\ End(h)
    /\ UNCHANGED <<now, clients, cached, history, faults>>

\* The cancelled transaction tries its statement again instead of rolling back.
BreakDeadlockRetry(h, d) ==
    /\ pc[h] = "planLicenses" /\ pc[d] = "delCommit"
    /\ UNCHANGED <<now, central, console, cached, history, faults>>

-----------------------------------------------------------------------------
(* Requests for a name, a tier and a key.                                  *)

\* generateLicense: the INSERT ... ON CONFLICT (license_key), which holds the
\* expiry, so only a key of the same moment is the same; then the
\* activation of a client that waits for its licence, whose name is compared
\* with and without hyphens.
GenInsert(h, k, t) ==
    /\ k \notin StripeKeys
    /\ Begin(h, Asked(NameOf[k], t, k), "genActivate")
    /\ IsLicense(k) => licenses[k].expires = now + Duration
    /\ PutLicense(k, IF IsLicense(k) THEN [licenses[k] EXCEPT !.status = "active",
                                                       !.expires = now + Duration]
                                     ELSE NewLicense(t))
    /\ newer' = [n \in Names |->
                    IF Norm[n] = Norm[NameOf[k]] THEN newer[n] \cup {k} ELSE newer[n]]
    /\ failed' = failed \ {k}
    /\ UNCHANGED <<now, clients, cached, faults>>

GenActivate(h) ==
    /\ pc[h] = "genActivate"
    /\ LET found == {n \in Names : Waiting(n) /\ Norm[n] = Norm[loc[h].name]}
       IN  /\ \A n \in found : ~RowLocked(n)
           /\ clients' = [n \in Names |->
                 IF n \in found THEN [clients[n] EXCEPT !.status = "active"]
                                ELSE clients[n]]
    /\ End(h)
    /\ UNCHANGED <<now, licenses, cached, history, faults>>

\* revokeLicense.
RevokeLicense(k) ==
    /\ IsLicense(k)
    /\ PutLicense(k, [licenses[k] EXCEPT !.status = "revoked"])
    /\ UNCHANGED <<now, clients, console, cached, history, faults>>

\* reactivateLicense reads the expiry, then chooses the UPDATE.  The extended
\* expiry counts from the UPDATE.
ReactRead(h, k, t) ==
    /\ IsLicense(k)
    /\ Begin(h, [Asked(NameOf[k], t, k) EXCEPT !.on = licenses[k].expires < now],
             "reactSet")
    /\ UNCHANGED <<now, central, cached, history, faults>>

ReactSet(h) ==
    /\ pc[h] = "reactSet"
    /\ LET k == loc[h].key
       IN  IF IsLicense(k)
             THEN PutLicense(k, [licenses[k] EXCEPT
                       !.status = "active",
                       !.expires = IF loc[h].on THEN now + Duration ELSE @])
             ELSE UNCHANGED licenses
    /\ End(h)
    /\ UNCHANGED <<now, clients, cached, history, faults>>

-----------------------------------------------------------------------------
(* The client row.                                                         *)

\* createClient: no client whose name is the same without hyphens, then INSERT,
\* which fails on the same name.
CreateCheck(h, n, t) ==
    /\ ClientsOf(n) = {}
    /\ Begin(h, Asked(n, t, NoKey), "createInsert")
    /\ UNCHANGED <<now, central, cached, history, faults>>

CreateInsert(h) ==
    /\ pc[h] = "createInsert"
    /\ IF IsClient(loc[h].name)
         THEN UNCHANGED clients
         ELSE PutClient(loc[h].name, NewClient(loc[h].tier, "active"))
    /\ End(h)
    /\ UNCHANGED <<now, licenses, cached, history, faults>>

\* deployInlineClient and the webhook's upsert: the client is active.
Plain(n) == Norm[n] = n

DeployClient(n, t) ==
    /\ Plain(n)
    /\ PutClient(n, IF IsClient(n) THEN [clients[n] EXCEPT !.status = "active"]
                                   ELSE NewClient(t, "active"))
    /\ UNCHANGED <<now, licenses, console, cached, history, faults>>

StripeClient(n, t) ==
    /\ PutClient(n, IF IsClient(n) THEN [clients[n] EXCEPT !.status = "active",
                                                           !.tier = t]
                                   ELSE NewClient(t, "active"))
    /\ UNCHANGED <<now, licenses, console, cached, history, faults>>

StripeLicense(k, t) ==
    /\ k \in StripeKeys /\ ~IsLicense(k)
    /\ PutLicense(k, NewLicense(t))
    /\ UNCHANGED <<now, clients, console, cached, history, faults>>

\* onboardUser: an existing client keeps its tier and waits for a licence anew.
OnboardUser(n, t) ==
    /\ Plain(n)
    /\ PutClient(n, IF IsClient(n) THEN [clients[n] EXCEPT !.status = "pending"]
                                   ELSE NewClient(t, "pending"))
    /\ newer' = [newer EXCEPT ![n] = {}]
    /\ UNCHANGED <<now, licenses, console, cached, failed, faults>>

\* onboardPartnerTenant: an existing client keeps its tier and status.
PartnerClient(h, k, t) ==
    /\ k \notin StripeKeys
    /\ LET n == NameOf[k]
       IN  /\ IF IsClient(n) THEN ~RowLocked(n) /\ UNCHANGED clients
                             ELSE PutClient(n, NewClient(t, "active"))
           /\ Begin(h, Asked(n, t, k), "partnerLicense")
    /\ UNCHANGED <<now, licenses, cached, history, faults>>

PartnerLicense(h) ==
    /\ pc[h] = "partnerLicense"
    /\ LET k == loc[h].key
       IN  IF IsLicense(k) THEN UNCHANGED licenses
                           ELSE PutLicense(k, NewLicense(loc[h].tier))
    /\ End(h)
    /\ UNCHANGED <<now, clients, cached, history, faults>>

\* updateSubscription: the row of exactly this name.
UpdateSubscription(n, t) ==
    /\ IsClient(n)
    /\ PutClient(n, [clients[n] EXCEPT !.tier = t])
    /\ UNCHANGED <<now, licenses, console, cached, history, faults>>

\* updateClientAddons: the eligibility is read first; then the client rows are
\* updated, then the active licences.
AddonCheck(h, n, t, on) ==
    /\ on => Eligible(n)
    /\ Begin(h, [Asked(n, t, NoKey) EXCEPT !.on = on], "addonClient")
    /\ UNCHANGED <<now, central, cached, history, faults>>

AddonClient(h) ==
    /\ pc[h] = "addonClient"
    /\ LET found == ClientsOf(loc[h].name)
       IN  /\ \A n \in found : ~RowLocked(n)
           /\ clients' = [n \in Names |->
                 IF n \in found THEN [clients[n] EXCEPT !.addon = loc[h].on]
                                ELSE clients[n]]
    /\ Goto(h, "addonLicenses")
    /\ UNCHANGED <<now, licenses, loc, cached, history, faults>>

AddonLicenses(h) ==
    /\ pc[h] = "addonLicenses"
    /\ LET found == Active(loc[h].name)
       IN  /\ \A k \in found : ~KeyLocked(k)
           /\ licenses' = [k \in Keys |->
                 IF k \in found THEN [licenses[k] EXCEPT !.addon = loc[h].on]
                                ELSE licenses[k]]
    /\ End(h)
    /\ UNCHANGED <<now, clients, cached, history, faults>>

\* updateClientPlan, a transaction: the client rows, then the active licences;
\* both changes show at COMMIT, and the rows are locked until then.
PlanClient(h, n, t) ==
    /\ \A m \in ClientsOf(n) : ~RowLocked(m)
    /\ Begin(h, [Asked(n, t, NoKey) EXCEPT !.rows = ClientsOf(n)], "planLicenses")
    /\ UNCHANGED <<now, central, cached, history, faults>>

PlanLicenses(h) ==
    /\ pc[h] = "planLicenses"
    /\ \A k \in Active(loc[h].name) : ~KeyLocked(k)
    /\ loc' = [loc EXCEPT ![h].keys = Active(loc[h].name)]
    /\ Goto(h, "planCommit")
    /\ UNCHANGED <<now, central, cached, history, faults>>

PlanCommit(h) ==
    /\ pc[h] = "planCommit"
    /\ clients' = [n \in Names |->
          IF IsClient(n) /\ n \in loc[h].rows THEN [clients[n] EXCEPT !.tier = loc[h].tier]
                                              ELSE clients[n]]
    /\ licenses' = [k \in Keys |->
          IF IsLicense(k) /\ k \in loc[h].keys
            THEN [licenses[k] EXCEPT !.tier = loc[h].tier]
            ELSE licenses[k]]
    /\ End(h)
    /\ UNCHANGED <<now, cached, history, faults>>

\* deleteClient, a transaction: the licences of exactly this name, then the row.
DelLicenses(h, n, t) ==
    /\ IsClient(n)
    /\ LET found == {k \in Keys : IsLicense(k) /\ NameOf[k] = n}
       IN  /\ \A k \in found : ~KeyLocked(k)
           /\ Begin(h, [Asked(n, t, NoKey) EXCEPT !.keys = found], "delCommit")
    /\ UNCHANGED <<now, central, cached, history, faults>>

DelCommit(h) ==
    /\ pc[h] = "delCommit"
    /\ PutClient(loc[h].name, NoRow)
    /\ licenses' = [k \in Keys |-> IF k \in loc[h].keys THEN NoRow ELSE licenses[k]]
    /\ newer' = [newer EXCEPT ![loc[h].name] = {}]
    /\ End(h)
    /\ UNCHANGED <<now, cached, failed, faults>>

\* A statement fails, or the server restarts: the rest is not done, and a
\* transaction is rolled back.
HandlerFails(h) ==
    /\ Fault
    /\ pc[h] # "idle"
    /\ failed' = IF pc[h] = "genActivate" THEN failed \cup {loc[h].key} ELSE failed
    /\ End(h)
    /\ UNCHANGED <<now, central, cached, newer>>

\* updateClientPlan and deleteClient lock licences and client row in opposite
\* orders; PostgreSQL cancels one.
BreakDeadlock(h, d) ==
    /\ pc[h] = "planLicenses" /\ pc[d] = "delCommit"
    /\ loc[d].name \in loc[h].rows
    /\ Active(loc[h].name) \cap loc[d].keys # {}
    /\ \E v \in {h, d} : End(v)
    /\ UNCHANGED <<now, central, cached, history, faults>>

-----------------------------------------------------------------------------
(* A tenant's pod, and time.                                               *)

Young(e) == e # NoEntry /\ now - e.at < Ttl

\* fetchCentralEntitlement: the cached value if it is young enough, else a
\* request to the central plane.
AskCached(p) ==
    LET e == entCache[PodName[p]]
    IN  /\ pods[p].phase = "idle"
        /\ Young(e)
        /\ pods' = [pods EXCEPT ![p].phase = "answer", ![p].risk = e.risk]
        /\ UNCHANGED <<now, central, console, entCache, history, faults>>

AskCentral(p) ==
    LET e == entCache[PodName[p]]
    IN  /\ pods[p].phase = "idle"
        /\ ~Young(e)
        /\ pods' = [pods EXCEPT ![p].phase = "asked", ![p].start = now,
                                ![p].seen = e]
        /\ UNCHANGED <<now, central, console, entCache, history, faults>>

\* localTenantEntitlement on the central plane, one statement.
CentralReads(p) ==
    /\ pods[p].phase = "asked"
    /\ \E b \in Entitlements(PodName[p]) :
          pods' = [pods EXCEPT ![p].phase = "read", ![p].risk = b]
    /\ UNCHANGED <<now, central, console, entCache, history, faults>>

\* Its statement fails: the answer is a denial.
CentralDenies(p) ==
    /\ pods[p].phase = "asked"
    /\ Fault
    /\ pods' = [pods EXCEPT ![p].phase = "read", ![p].risk = FALSE]
    /\ UNCHANGED <<now, central, console, entCache, history>>

\* The response arrives and is cached.
Respond(p) ==
    /\ pods[p].phase = "read"
    /\ entCache' = [entCache EXCEPT ![PodName[p]] = [at |-> now, risk |-> pods[p].risk]]
    /\ pods' = [pods EXCEPT ![p].phase = "answer"]
    /\ UNCHANGED <<now, central, console, history, faults>>

\* No response, another status, or the timeout: the entry seen before the
\* request, whatever its age; without one the pod's own database, which may
\* hold anything.
FetchFails(p) ==
    /\ pods[p].phase \in {"asked", "read"}
    /\ \E b \in BOOLEAN :
          /\ pods[p].seen # NoEntry => b = pods[p].seen.risk
          /\ pods' = [pods EXCEPT ![p].phase = "answer", ![p].risk = b,
                                  ![p].stale = TRUE]
    /\ UNCHANGED <<now, central, console, entCache, history, faults>>

IdlePod == [phase |-> "idle", start |-> 0, seen |-> NoEntry, risk |-> FALSE,
            stale |-> FALSE]

\* requireRiskAssuranceEntitlement lets the request through or answers 403.
Answer(p) ==
    /\ pods[p].phase = "answer"
    /\ pods' = [pods EXCEPT ![p] = IdlePod]
    /\ UNCHANGED <<now, central, console, entCache, history, faults>>

RestartPod ==
    /\ entCache' = [n \in Names |-> NoEntry]
    /\ pods' = [p \in Pods |-> IdlePod]
    /\ UNCHANGED <<now, central, console, history, faults>>

\* Time passes while requests wait, but not past a fetch's timeout, and not
\* between an answer and its use.
Tick ==
    /\ now < MaxTime
    /\ \A p \in Pods : /\ pods[p].phase # "answer"
                       /\ pods[p].phase # "idle" => now - pods[p].start < Timeout
    /\ now' = now + 1
    /\ UNCHANGED <<central, console, cached, history, faults>>

-----------------------------------------------------------------------------
Statement(h) ==
    \/ GenActivate(h) \/ ReactSet(h) \/ CreateInsert(h) \/ PartnerLicense(h)
    \/ AddonClient(h) \/ AddonLicenses(h)
    \/ PlanLicenses(h) \/ PlanCommit(h) \/ DelCommit(h)

Request(h) ==
    \E t \in Tiers :
        \/ \E k \in Keys : GenInsert(h, k, t) \/ ReactRead(h, k, t) \/ PartnerClient(h, k, t)
        \/ \E n \in Names : \/ CreateCheck(h, n, t)
                            \/ \E on \in BOOLEAN : AddonCheck(h, n, t, on)
                            \/ PlanClient(h, n, t) \/ DelLicenses(h, n, t)

AtOnce ==
    \/ \E k \in Keys : RevokeLicense(k) \/ \E t \in Tiers : StripeLicense(k, t)
    \/ \E n \in Names, t \in Tiers :
          \/ DeployClient(n, t) \/ StripeClient(n, t) \/ OnboardUser(n, t)
          \/ UpdateSubscription(n, t)

PodStep(p) ==
    \/ AskCached(p) \/ AskCentral(p) \/ CentralReads(p) \/ CentralDenies(p)
    \/ Respond(p) \/ FetchFails(p) \/ Answer(p)

Step ==
    \/ \E h \in Handlers : Request(h) \/ Statement(h) \/ HandlerFails(h)
    \/ \E h, d \in Handlers : BreakDeadlock(h, d)
    \/ AtOnce
    \/ \E p \in Pods : PodStep(p)
    \/ RestartPod
    \/ Tick

\* The central plane's statement failed in this step, for name n.
Denied(n) ==
    \E p \in Pods : /\ PodName[p] = n
                    /\ pods[p].phase = "asked" /\ pods'[p].phase = "read"
                    /\ faults' # faults

\* History of the answers that the central plane would have given.
Record ==
    given' = [n \in Names |-> [b \in BOOLEAN |->
                IF b \in Entitlements(n)' \/ (~b /\ Denied(n)) THEN now'
                                                               ELSE given[n][b]]]

Next == Step /\ Record

Spec == Init /\ [][Next]_vars

\* A handler that can go on does; PostgreSQL's lock queues are first come,
\* first served, and its deadlock detector runs.
Fairness ==
    /\ \A h \in Handlers : SF_<<central, console>>(Statement(h))
    /\ WF_<<central, console>>(\E h, d \in Handlers : BreakDeadlock(h, d))

FairSpec == Spec /\ Fairness

-----------------------------------------------------------------------------
(* Properties.                                                             *)

\* "Caching the answer briefly": what a pod answers while it can reach the
\* central plane, the plane would have answered less than a cache lifetime and
\* a fetch timeout ago, however fetches and plan changes cross.  So a plan that
\* was withdrawn is gone from the pods in that time, and one that was restored
\* is back.
AnswerWasCurrent ==
    \A p \in Pods :
        (pods[p].phase = "answer" /\ ~pods[p].stale)
            => now - given[PodName[p]][pods[p].risk] < Ttl + Timeout

\* "Activate client from pending_licensing to active once license is generated":
\* a client does not go on waiting for a licence generated since it was last
\* onboarded, except between the two statements or if the second failed.
LicensedNotPending ==
    \A n \in Names : Waiting(n) =>
        \A k \in newer[n] :
            \/ k \in failed
            \/ \E h \in Handlers : pc[h] = "genActivate" /\ loc[h].key = k

\* Every request of the console is answered, though plan changes and deletions
\* lock the same rows in opposite orders.
RequestsAnswered == \A h \in Handlers : pc[h] # "idle" ~> pc[h] = "idle"
=============================================================================
