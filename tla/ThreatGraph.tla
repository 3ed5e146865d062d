----------------------------- MODULE ThreatGraph -----------------------------
(***************************************************************************)
(* The Threat & Risk Graph: the tables it is computed from, the run that   *)
(* recomputes a tenant's graph, which all concurrent requests share        *)
(* (lib/threatGraph/store.ts), the requests, debounce timers and feed      *)
(* syncs that ask for it (threatGraphController.ts, routes.ts,             *)
(* lib/threatIntel/feeds.ts), and a server that restarts.                  *)
(*                                                                         *)
(* What the engine infers is a function of what was read and does not      *)
(* appear, but for one thing: which findings it has a remediation for, and *)
(* which of these are resolved.  A tenant's clock counts the changes to    *)
(* what its graph is computed from; the graph is dated by the clock at the *)
(* moment each input was read.                                             *)
(***************************************************************************)
EXTENDS Integers, Sequences

CONSTANTS
    Tenants,
    Callers,        \* requests and timer callbacks in progress
    Findings,       \* fingerprints of what an agent reports
    Reports,        \* the inventories, in the order they are reported in
    RiskAssurance,  \* the tenants whose plan includes the graph
    MaxChanges, MaxFaults,  \* bounds
    Unread, NoId, NoRun, Rejected

Inputs == {"inventory", "overrides", "states", "intel"}

\* The id that ingestion gives to a finding hashes its place in the report.
IdsOf(report) == {<<report[k], k>> : k \in DOMAIN report}
Ids == UNION {IdsOf(report) : report \in Reports}

ASSUME GraphAssumption ==
    /\ Reports \subseteq Seq(Findings)
    /\ RiskAssurance \subseteq Tenants
    /\ MaxChanges \in Nat /\ MaxFaults \in Nat
    /\ Unread \notin Nat
    /\ NoId \notin Ids
    /\ {NoRun, Rejected} \cap Callers = {} /\ NoRun # Rejected

VARIABLES
    \* what the graph is computed from
    reported,  \* the inventory of each tenant
    settled,   \* tr_remediation_state: the ids that are done or verified
    clock,
    \* what was computed: tr_* and tr_rebuild_runs
    graph,     \* remediations, those resolved, and when each input was read
    listed,    \* the tenants with a run row
    built,     \* the tenants with a successful run
    \* memory of the server
    inFlight,  \* the caller that began the tenant's run
    timer,     \* timers
    pc,        \* what a caller does next
    arg,       \* its tenant, and the remediation it is about
    shared,    \* the caller whose run it awaits
    found,     \* what the run that it began has read
    syncing,   \* the feed being synced
    synced,    \* whether a feed of this sync succeeded
    kevDue,    \* whether the last success of KEV is older than 20 hours
    \* history
    promised,  \* the clock when the run of a caller, or that it joined, began
    faults

source == <<reported, settled, clock>>
result == <<graph, listed, built>>
feeds == <<syncing, synced, kevDue>>
calling == <<pc, arg, shared, found, promised>>
vars == <<source, result, inFlight, timer, calling, feeds, faults>>

\* The statements of a run.
RunLabels == {"insert", "load", "record", "failed"}
Labels == RunLabels \cup
    {"idle", "respond", "plan", "status", "override", "rebuild", "wait",
     "answered", "sync", "rescore"}

Graph == [ids: SUBSET Ids, resolved: SUBSET Ids, asOf: [Inputs -> Nat]]
Reading == [ids: SUBSET Ids, settled: SUBSET Ids,
            asOf: [Inputs -> Nat \cup {Unread}]]
Arg == [tenant: Tenants, id: Ids \cup {NoId}]

SourceOK ==
    /\ reported \in [Tenants -> Reports]
    /\ settled \in [Tenants -> SUBSET Ids]
    /\ clock \in [Tenants -> 1 .. MaxChanges + 1]

ResultOK ==
    /\ graph \in [Tenants -> Graph]
    /\ listed \in SUBSET Tenants /\ built \in SUBSET listed

CallersOK ==
    /\ pc \in [Callers -> Labels]
    /\ arg \in [Callers -> Arg]
    /\ \A c \in Callers : pc[c] = "status" => arg[c].id # NoId
    /\ shared \in [Callers -> Callers \cup {NoRun}]
    /\ found \in [Callers -> Reading]
    /\ promised \in [Callers -> Nat]

FeedsOK ==
    /\ syncing \in {"none", "kev", "epss"}
    /\ synced \in BOOLEAN /\ kevDue \in BOOLEAN

TypeOK ==
    /\ SourceOK /\ ResultOK /\ CallersOK /\ FeedsOK
    /\ inFlight \in [Tenants -> Callers \cup {NoRun, Rejected}]
    /\ timer \in [Tenants -> BOOLEAN]
    /\ faults \in 0 .. MaxFaults

-----------------------------------------------------------------------------

NoReading == [ids |-> {}, settled |-> {}, asOf |-> [i \in Inputs |-> Unread]]

Init ==
    /\ reported \in [Tenants -> Reports]
    /\ settled = [t \in Tenants |-> {}]
    /\ clock = [t \in Tenants |-> 1]
    /\ graph = [t \in Tenants |-> [ids |-> {}, resolved |-> {},
                                   asOf |-> [i \in Inputs |-> 0]]]
    /\ listed = {} /\ built = {}
    /\ inFlight = [t \in Tenants |-> NoRun]
    /\ timer = [t \in Tenants |-> FALSE]
    /\ pc = [c \in Callers |-> "idle"]
    /\ arg \in {[c \in Callers |-> [tenant |-> t, id |-> NoId]] : t \in Tenants}
    /\ syncing = "none" /\ synced = FALSE /\ kevDue = TRUE
    /\ shared = [c \in Callers |-> NoRun]
    /\ found = [c \in Callers |-> NoReading]
    /\ promised = [c \in Callers |-> 0]
    /\ faults = 0

Fault == faults < MaxFaults /\ faults' = faults + 1

\* A caller takes up a piece of work for a tenant.
Start(c, label, t, id) ==
    /\ pc[c] = "idle"
    /\ pc' = [pc EXCEPT ![c] = label]
    /\ arg' = [arg EXCEPT ![c] = [tenant |-> t, id |-> id]]
    /\ UNCHANGED <<shared, found, promised>>

Goto(c, label) ==
    /\ pc' = [pc EXCEPT ![c] = label]
    /\ UNCHANGED <<arg, shared, found, promised>>

\* The callers in ended have returned, their local variables with them.
Return(ended, label) ==
    /\ pc' = [c \in Callers |-> IF c \in ended THEN label ELSE pc[c]]
    /\ arg' = [c \in Callers |->
                  IF c \in ended THEN [arg[c] EXCEPT !.id = NoId] ELSE arg[c]]
    /\ shared' = [c \in Callers |-> IF c \in ended THEN NoRun ELSE shared[c]]
    /\ found' = [c \in Callers |-> IF c \in ended THEN NoReading ELSE found[c]]
    /\ promised' = [c \in Callers |->
          IF c \in ended /\ label = "idle" THEN 0 ELSE promised[c]]

\* Something that the graph of t is computed from changes.
Change(t) ==
    /\ clock[t] <= MaxChanges
    /\ clock' = [clock EXCEPT ![t] = @ + 1]

\* The run that c began ends: c and those who share it get its result or its
\* error, and inFlight holds the promise from then on.
Settle(c, label, promise) ==
    /\ inFlight' = [inFlight EXCEPT ![arg[c].tenant] = promise]
    /\ Return({c} \cup {d \in Callers : pc[d] = "wait" /\ shared[d] = c}, label)

-----------------------------------------------------------------------------
(* Faulty variants of the definitions below, which the runs must tell from  *)
(* them; no action of the specification uses one.                          *)

\* The run's row is inserted when it ends, and not at all if it ends badly.
InsertRunLater(c) ==
    /\ pc[c] = "insert"
    /\ Goto(c, "load")
    /\ UNCHANGED <<source, result, inFlight, timer, feeds, faults>>

\* Every call begins a run of its own.
BeginRunAlways(c) ==
    LET t == arg[c].tenant
    IN  /\ pc[c] = "rebuild"
        /\ inFlight' = [inFlight EXCEPT ![t] = c]
        /\ pc' = [pc EXCEPT ![c] = "insert"]
        /\ promised' = [promised EXCEPT ![c] = clock[t]]
        /\ UNCHANGED <<source, result, arg, shared, found, timer, feeds, faults>>

\* The catch records the error and does not throw it again.
EndFailedRunSwallowed(c) ==
    /\ pc[c] = "failed"
    /\ Settle(c, "answered", NoRun)
    /\ UNCHANGED <<source, result, timer, feeds, faults>>

-----------------------------------------------------------------------------
(* Writes to what the graph is computed from.                              *)

\* An ingest, a repository scan, a connector's sync or a proxy's change
\* commits; the response, and with it rebuildAfter, comes later.
WriteSource(c, t, report) ==
    /\ Start(c, "respond", t, NoId)
    /\ Change(t)
    /\ reported' = [reported EXCEPT ![t] = report]
    /\ UNCHANGED <<settled, result, inFlight, timer, feeds, faults>>

\* Machines deleted in the console, and uploaded SBOMs, schedule nothing.
WriteSilently(t, report) ==
    /\ Change(t)
    /\ reported' = [reported EXCEPT ![t] = report]
    /\ UNCHANGED <<settled, result, inFlight, timer, calling, feeds, faults>>

\* rebuildAfter on 'finish', and scheduleRebuild: a timer that runs is replaced.
Respond(c) ==
    /\ pc[c] = "respond"
    /\ Return({c}, "idle")
    /\ timer' = [timer EXCEPT ![arg[c].tenant] = TRUE]
    /\ UNCHANGED <<source, result, inFlight, feeds, faults>>

\* A statement after the commit fails: a status of 400 or more.
RespondError(c) ==
    /\ pc[c] = "respond" /\ Fault
    /\ Return({c}, "idle")
    /\ UNCHANGED <<source, result, inFlight, timer, feeds>>

\* updateRemediation: the remediation is looked up in the graph, its state
\* written, the graph recomputed.
FindRemediation(c, t, id) ==
    /\ id \in graph[t].ids
    /\ Start(c, "status", t, id)
    /\ UNCHANGED <<source, result, inFlight, timer, feeds, faults>>

WriteStatus(c, resolved) ==
    LET t == arg[c].tenant
        id == arg[c].id
    IN  /\ pc[c] = "status"
        /\ Goto(c, "rebuild")
        /\ Change(t)
        /\ settled' = [settled EXCEPT ![t] =
                          IF resolved THEN @ \cup {id} ELSE @ \ {id}]
        /\ UNCHANGED <<reported, result, inFlight, timer, feeds, faults>>

\* overrideAssetContext: the same for an asset.
FindAsset(c, t) ==
    /\ t \in built
    /\ Start(c, "override", t, NoId)
    /\ UNCHANGED <<source, result, inFlight, timer, feeds, faults>>

WriteOverride(c) ==
    /\ pc[c] = "override"
    /\ Goto(c, "rebuild")
    /\ Change(arg[c].tenant)
    /\ UNCHANGED <<reported, settled, result, inFlight, timer, feeds, faults>>

-----------------------------------------------------------------------------
(* Those who ask for a run.                                                *)

\* ensureBuilt, and POST /threat-graph/rebuild.
View(c, t) ==
    /\ t \notin built
    /\ Start(c, "rebuild", t, NoId)
    /\ UNCHANGED <<source, result, inFlight, timer, feeds, faults>>

RebuildNow(c, t) ==
    /\ Start(c, "rebuild", t, NoId)
    /\ UNCHANGED <<source, result, inFlight, timer, feeds, faults>>

\* The debounced callback, which awaits the tenant's entitlement first.
FireTimer(c, t) ==
    /\ timer[t]
    /\ timer' = [timer EXCEPT ![t] = FALSE]
    /\ Start(c, "plan", t, NoId)
    /\ UNCHANGED <<source, result, inFlight, feeds, faults>>

CheckPlan(c) ==
    /\ pc[c] = "plan"
    /\ IF arg[c].tenant \in RiskAssurance
       THEN Goto(c, "rebuild")
       ELSE Return({c}, "idle")
    /\ UNCHANGED <<source, result, inFlight, timer, feeds, faults>>

\* rebuildTenant: join the run in flight, or begin one.
JoinRun(c) ==
    LET owner == inFlight[arg[c].tenant]
    IN  /\ pc[c] = "rebuild" /\ owner \in Callers
        /\ pc' = [pc EXCEPT ![c] = "wait"]
        /\ shared' = [shared EXCEPT ![c] = owner]
        /\ promised' = [promised EXCEPT ![c] = promised[owner]]
        /\ UNCHANGED <<source, result, inFlight, arg, found, timer, feeds, faults>>

\* The promise of a run whose INSERT failed is still there.
JoinRejected(c) ==
    /\ pc[c] = "rebuild" /\ inFlight[arg[c].tenant] = Rejected
    /\ Return({c}, "idle")
    /\ UNCHANGED <<source, result, inFlight, timer, feeds, faults>>

BeginRun(c) ==
    LET t == arg[c].tenant
    IN  /\ pc[c] = "rebuild" /\ inFlight[t] = NoRun
        /\ inFlight' = [inFlight EXCEPT ![t] = c]
        /\ pc' = [pc EXCEPT ![c] = "insert"]
        /\ promised' = [promised EXCEPT ![c] = clock[t]]
        /\ UNCHANGED <<source, result, arg, shared, found, timer, feeds, faults>>

\* A caller is done with its answer.
Leave(c) ==
    /\ pc[c] = "answered"
    /\ Return({c}, "idle")
    /\ UNCHANGED <<source, result, inFlight, timer, feeds, faults>>

-----------------------------------------------------------------------------
(* The run that c began.                                                   *)

InsertRun(c) ==
    /\ pc[c] = "insert"
    /\ Goto(c, "load")
    /\ listed' = listed \cup {arg[c].tenant}
    /\ UNCHANGED <<source, graph, built, inFlight, timer, feeds, faults>>

\* The INSERT is outside the try: the promise is rejected, and stays.
InsertFails(c) ==
    /\ pc[c] = "insert" /\ Fault
    /\ Settle(c, "idle", Rejected)
    /\ UNCHANGED <<source, result, timer, feeds>>

\* loadSource and loadRemediationState read their tables in parallel; the
\* intelligence is for the CVEs that were read.
Load(c, i) ==
    LET t == arg[c].tenant
    IN  /\ pc[c] = "load" /\ found[c].asOf[i] = Unread
        /\ i = "intel" => found[c].asOf["inventory"] # Unread
        /\ found' = [found EXCEPT
              ![c].asOf[i] = clock[t],
              ![c].ids = IF i = "inventory" THEN IdsOf(reported[t]) ELSE @,
              ![c].settled = IF i = "states" THEN settled[t] ELSE @]
        /\ UNCHANGED <<source, result, inFlight, pc, arg, shared, promised>>
        /\ UNCHANGED <<timer, feeds, faults>>

\* loadIntelFor(...).catch(...): the graph is computed without intelligence.
LoadNoIntel(c) ==
    /\ pc[c] = "load" /\ Fault
    /\ found[c].asOf["inventory"] # Unread /\ found[c].asOf["intel"] = Unread
    /\ found' = [found EXCEPT ![c].asOf["intel"] = 0]
    /\ UNCHANGED <<source, result, inFlight, pc, arg, shared, promised>>
    /\ UNCHANGED <<timer, feeds>>

\* buildThreatGraph, and persist: one transaction.
Persist(c) ==
    /\ pc[c] = "load"
    /\ \A i \in Inputs : found[c].asOf[i] # Unread
    /\ Goto(c, "record")
    /\ graph' = [graph EXCEPT ![arg[c].tenant] =
                    [ids |-> found[c].ids,
                     resolved |-> found[c].ids \cap found[c].settled,
                     asOf |-> found[c].asOf]]
    /\ UNCHANGED <<source, listed, built, inFlight, timer, feeds, faults>>

\* Any statement but the first fails.
RunFails(c) ==
    /\ pc[c] \in {"load", "record"} /\ Fault
    /\ Goto(c, "failed")
    /\ UNCHANGED <<source, result, inFlight, timer, feeds>>

EndRun(c) ==
    /\ pc[c] = "record"
    /\ built' = built \cup {arg[c].tenant}
    /\ Settle(c, "answered", NoRun)
    /\ UNCHANGED <<source, graph, listed, timer, feeds, faults>>

EndFailedRun(c) ==
    /\ pc[c] = "failed"
    /\ Settle(c, "idle", NoRun)
    /\ UNCHANGED <<source, result, timer, feeds, faults>>

-----------------------------------------------------------------------------
(* The feeds.                                                              *)

Syncing(c) ==
    /\ syncing' = IF syncing = "none" THEN "kev" ELSE syncing
    /\ synced' = (synced /\ syncing # "none")

\* The hourly tick, and POST /threat-intel/sync.
TickFeeds(c, t) ==
    /\ kevDue
    /\ Start(c, "sync", t, NoId)
    /\ Syncing(c)
    /\ UNCHANGED <<source, result, inFlight, timer, kevDue, faults>>

SyncNow(c, t) ==
    /\ Start(c, "sync", t, NoId)
    /\ Syncing(c)
    /\ UNCHANGED <<source, result, inFlight, timer, kevDue, faults>>

\* runFeed, EPSS after KEV; a feed that fails keeps its earlier records.
NextFeed(ok) ==
    /\ syncing' = IF syncing = "kev" THEN "epss" ELSE "none"
    /\ synced' = (synced \/ ok)
    /\ pc' = [c \in Callers |->
                 IF pc[c] = "sync" /\ syncing = "epss"
                 THEN IF synced \/ ok THEN "rescore" ELSE "idle"
                 ELSE pc[c]]
    /\ UNCHANGED <<arg, shared, found, promised>>

\* The success of the swap is recorded in a statement of its own.
FeedSwapped(recorded) ==
    /\ syncing # "none"
    /\ \A t \in Tenants : clock[t] <= MaxChanges
    /\ clock' = [t \in Tenants |-> clock[t] + 1]
    /\ NextFeed(recorded)
    /\ IF recorded
       THEN kevDue' = (kevDue /\ syncing # "kev") /\ UNCHANGED faults
       ELSE Fault /\ UNCHANGED kevDue
    /\ UNCHANGED <<reported, settled, result, inFlight, timer>>

FeedFails ==
    /\ syncing # "none" /\ Fault
    /\ NextFeed(FALSE)
    /\ UNCHANGED <<source, result, inFlight, timer, kevDue>>

\* The INSERT of the feed's row is outside the try: the sync ends there.
SyncRejected ==
    /\ syncing # "none" /\ Fault
    /\ syncing' = "none"
    /\ Return({c \in Callers : pc[c] = "sync"}, "idle")
    /\ UNCHANGED <<source, result, inFlight, timer, synced, kevDue>>

\* scheduleRebuildForAllTenants.
Rescore(c) ==
    /\ pc[c] = "rescore"
    /\ Return({c}, "idle")
    /\ timer' = [t \in Tenants |-> timer[t] \/ t \in listed]
    /\ UNCHANGED <<source, result, inFlight, feeds, faults>>

KevAges ==
    /\ ~kevDue
    /\ kevDue' = TRUE
    /\ UNCHANGED <<source, result, inFlight, timer, calling, syncing, synced, faults>>

-----------------------------------------------------------------------------

\* The process ends and starts anew; what it had not committed is rolled back.
Restart ==
    /\ Fault
    /\ inFlight' = [t \in Tenants |-> NoRun]
    /\ timer' = [t \in Tenants |-> FALSE]
    /\ Return(Callers, "idle")
    /\ syncing' = "none" /\ synced' = FALSE
    /\ UNCHANGED <<source, result, kevDue>>

Write(c) ==
    \/ \E t \in Tenants, report \in Reports : WriteSource(c, t, report)
    \/ Respond(c) \/ RespondError(c)
    \/ \E t \in Tenants, id \in Ids : FindRemediation(c, t, id)
    \/ \E resolved \in BOOLEAN : WriteStatus(c, resolved)
    \/ \E t \in Tenants : FindAsset(c, t)
    \/ WriteOverride(c)

Ask(c) ==
    \/ \E t \in Tenants : View(c, t) \/ RebuildNow(c, t) \/ FireTimer(c, t)
    \/ CheckPlan(c)
    \/ JoinRun(c) \/ JoinRejected(c) \/ BeginRun(c) \/ Leave(c)

Run(c) ==
    \/ InsertRun(c) \/ InsertFails(c)
    \/ \E i \in Inputs : Load(c, i)
    \/ LoadNoIntel(c)
    \/ Persist(c) \/ RunFails(c) \/ EndRun(c) \/ EndFailedRun(c)

Feeds ==
    \/ \E c \in Callers, t \in Tenants : TickFeeds(c, t) \/ SyncNow(c, t)
    \/ \E recorded \in BOOLEAN : FeedSwapped(recorded)
    \/ FeedFails \/ SyncRejected \/ KevAges
    \/ \E c \in Callers : Rescore(c)

Next ==
    \/ \E c \in Callers : Write(c) \/ Ask(c) \/ Run(c)
    \/ \E t \in Tenants, report \in Reports : WriteSilently(t, report)
    \/ Feeds
    \/ Restart

Spec == Init /\ [][Next]_vars

-----------------------------------------------------------------------------
(* Properties.                                                             *)

\* A caller that is told of success gets a graph that contains every change
\* made before its run began: its own change if it began the run itself, and
\* what there was before it called if it joined one.  A failure to read the
\* intelligence leaves that out.
AnswersCoverTheirRun ==
    \A c \in Callers : pc[c] = "answered" =>
        LET asOf == graph[arg[c].tenant].asOf
        IN  \A i \in Inputs :
                asOf[i] >= promised[c] \/ (i = "intel" /\ asOf[i] = 0)

\* A graph is never replaced by one that was computed from older data, whatever
\* triggers, joins, fails or restarts: the runs of a tenant do not overlap.
NewerGraphStays ==
    [][\A t \in Tenants, i \in Inputs :
          \/ graph[t].asOf[i] <= graph'[t].asOf[i]
          \/ i = "intel" /\ graph'[t].asOf[i] = 0]_vars

\* A remediation that is done stays done while its finding is reported and
\* nobody sets its status again: "state survives rebuilds", "via stable object
\* ids".  This fails: the id hashes the finding's place in the report.
StatusSurvives ==
    [][\A t \in Tenants : \A id \in graph[t].resolved \cap settled[t] :
          (\E other \in graph'[t].ids : other[1] = id[1])
              => \E other \in graph'[t].resolved : other[1] = id[1]]_vars
=============================================================================
