---------------------------- MODULE FleetCommands ----------------------------
(***************************************************************************)
(* On-demand commands from the console to the agents: pulls and probes      *)
(* queued in fleet_commands (fleetController.ts), the daily pull schedule   *)
(* (pullScheduler.ts), and the two pollers that fetch them on a machine,    *)
(* the background daemon (main.go) and the GUI's worker (gui.go).           *)
(*                                                                         *)
(* One tenant.  Request handlers, the scheduler's tick and the agents       *)
(* interleave at every await; a command is its position in the order of     *)
(* created_at.  Time is abstracted: the rate window slides over the oldest  *)
(* commands, the schedule's minute comes and goes, and a daily sync falls   *)
(* due.  Uploads go through the ingestion of module FleetIngest, of which   *)
(* this one keeps the effect: the uploaded inventory replaces the previous. *)
(***************************************************************************)
EXTENDS Integers, Sequences, FiniteSets

CONSTANTS
    Machines,     \* enrolled machines of the tenant
    Daemons, Guis,\* the pollers that run on them
    HostOf,       \* the machine a poller runs on
    Handlers,     \* console request handlers that may run at the same time
    Tick,         \* the scheduler's tick, which runs the bulk pull itself
    ProbeMax,     \* PROBE_RATE_MAX_PER_WINDOW
    MaxCommands,  \* bound on the commands queued in a behaviour
    MaxFaults,    \* bound on failures in a behaviour
    Events,       \* which operations of the console and the clock occur
    NoMachine

Pollers == Daemons \cup Guis
Actors == Handlers \cup {Tick}

ASSUME PollerAssumption ==
    /\ HostOf \in [Pollers -> Machines]
    /\ Daemons \cap Guis = {}
    /\ NoMachine \notin Machines

ASSUME BoundAssumption ==
    /\ IsFiniteSet(Machines) /\ IsFiniteSet(Handlers)
    /\ Handlers # {} /\ Tick \notin Handlers
    /\ ProbeMax \in Nat \ {0}
    /\ MaxCommands \in Nat /\ MaxFaults \in Nat

VARIABLES
    cmds,      \* fleet_commands in the order of created_at
    aged,      \* commands 1 .. aged are older than the rate window
    enabled,   \* tenant_probe_policy.probe_enabled
    schedule,  \* pull_schedules.enabled
    ran,       \* last_run_at is less than 23 hours ago
    minute,    \* the local clock shows the schedule's hour and minute
    fired,     \* pulls the scheduler has queued in this minute (history)
    apc,       \* what a handler or the tick is about to do
    todo,      \* the machines its loop or its INSERT has yet to do
    cur,       \* the machine that has passed the rate check
    pc,        \* what a poller, or the server on its behalf, is about to do
    got,       \* the commands it has fetched and not yet worked off
    received,  \* how often it was given each command (history)
    asof,      \* the commands that existed when its scan began
    due,       \* a daemon's daily sync is due
    scanning,  \* currentScanState.Running of a GUI
    inventory, \* what the machine's inventory holds: a scan or probe findings
    served,    \* commands a stored scan is not older than (history)
    faults     \* failures so far

console == <<apc, todo, cur>>
clock == <<ran, minute, fired>>
agents == <<pc, got, received, asof, due, scanning>>
vars == <<cmds, aged, enabled, schedule, clock, console, agents, inventory,
          served, faults>>

Command == [machine: Machines, kind: {"scan_and_sync", "probe"},
            status: {"pending", "dispatched"}]

TypeOK ==
    /\ cmds \in Seq(Command) /\ Len(cmds) =< MaxCommands
    /\ aged \in 0 .. Len(cmds)
    /\ enabled \in BOOLEAN /\ schedule \in BOOLEAN
    /\ ran \in BOOLEAN /\ minute \in BOOLEAN /\ fired \in Nat
    /\ apc \in [Actors -> {"idle", "rate", "insert", "scope", "mark"}]
    /\ todo \in [Actors -> SUBSET Machines]
    /\ cur \in [Actors -> Machines \cup {NoMachine}]
    /\ \A h \in Actors : apc[h] = "insert" => cur[h] \in Machines
    /\ pc \in [Pollers -> {"idle", "selected", "marked", "work", "upload",
                           "timer", "daily"}]
    /\ got \in [Pollers -> SUBSET (1 .. Len(cmds))]
    /\ received \in [Pollers -> [1 .. MaxCommands -> Nat]]
    /\ asof \in [Pollers -> 0 .. Len(cmds)]
    /\ due \in [Pollers -> BOOLEAN] /\ scanning \in [Pollers -> BOOLEAN]
    /\ inventory \in [Machines -> {"none", "scan", "probe"}]
    /\ served \in [Machines -> 0 .. Len(cmds)]
    /\ faults \in 0 .. MaxFaults

Init ==
    /\ cmds = <<>> /\ aged = 0
    /\ enabled = TRUE /\ schedule = TRUE
    /\ ran = FALSE /\ minute = FALSE /\ fired = 0
    /\ apc = [h \in Actors |-> "idle"]
    /\ todo = [h \in Actors |-> {}]
    /\ cur = [h \in Actors |-> NoMachine]
    /\ pc = [p \in Pollers |-> "idle"]
    /\ got = [p \in Pollers |-> {}]
    /\ received = [p \in Pollers |-> [c \in 1 .. MaxCommands |-> 0]]
    /\ asof = [p \in Pollers |-> 0]
    /\ due = [p \in Pollers |-> FALSE]
    /\ scanning = [p \in Pollers |-> FALSE]
    /\ inventory = [m \in Machines |-> "none"]
    /\ served = [m \in Machines |-> 0]
    /\ faults = 0

-----------------------------------------------------------------------------
Pending(m) ==
    {c \in 1 .. Len(cmds) : cmds[c].machine = m /\ cmds[c].status = "pending"}

RecentProbes(m) ==
    {c \in (aged + 1) .. Len(cmds) :
        cmds[c].machine = m /\ cmds[c].kind = "probe"}

New(m, kind) == [machine |-> m, kind |-> kind, status |-> "pending"]

IsProbe(c) == cmds[c].kind = "probe"

Room(n) == Len(cmds) + n =< MaxCommands
Fault == faults < MaxFaults /\ faults' = faults + 1

\* What follows when the commands rest are still to do: a daemon that has none
\* looks at its timer before it waits for its next poll.
Label(p, rest) ==
    IF rest # {} THEN "work" ELSE IF p \in Daemons THEN "timer" ELSE "idle"

Least(S) == CHOOSE c \in S : \A d \in S : c =< d

-----------------------------------------------------------------------------
(* Faulty variants of the definitions below, which the runs must tell from  *)
(* them; no action of the specification uses one.                          *)

\* The rate window drops a command that is not there.
LeaveWindowPastEnd ==
    /\ aged =< Len(cmds)
    /\ aged' = aged + 1
    /\ UNCHANGED <<cmds, enabled, schedule, clock, console, agents, inventory,
                   served, faults>>

\* The rate check lets one probe too many through.
CheckRateOffByOne(h, m) ==
    /\ apc[h] = "rate"
    /\ m \in todo[h]
    /\ IF Cardinality(RecentProbes(m)) > ProbeMax
         THEN /\ todo' = [todo EXCEPT ![h] = @ \ {m}]
              /\ apc' = [apc EXCEPT ![h] = IF todo[h] = {m} THEN "idle" ELSE "rate"]
              /\ UNCHANGED cur
         ELSE /\ cur' = [cur EXCEPT ![h] = m]
              /\ apc' = [apc EXCEPT ![h] = "insert"]
              /\ UNCHANGED todo
    /\ UNCHANGED <<cmds, aged, enabled, schedule, clock, agents, inventory,
                   served, faults>>

\* The tick forgets the 23 hour guard.
StartTickUnguarded ==
    /\ apc[Tick] = "idle"
    /\ schedule /\ minute
    /\ todo' = [todo EXCEPT ![Tick] = {m \in Machines : Pending(m) = {}}]
    /\ apc' = [apc EXCEPT ![Tick] = "scope"]
    /\ UNCHANGED <<cmds, aged, enabled, schedule, clock, cur, agents, inventory,
                   served, faults>>

\* The UPDATE marks the pulls only: probes are handed out and stay pending.
PollMarkPulls(p) ==
    /\ pc[p] = "selected"
    /\ cmds' = [c \in DOMAIN cmds |->
                   IF c \in got[p] /\ ~IsProbe(c)
                     THEN [cmds[c] EXCEPT !.status = "dispatched"] ELSE cmds[c]]
    /\ pc' = [pc EXCEPT ![p] = "marked"]
    /\ UNCHANGED <<aged, enabled, schedule, clock, console, got, received, asof,
                   due, scanning, inventory, served, faults>>

\* The SELECT keeps the command type it was first written for.
PollSelectPulls(p) ==
    /\ pc[p] = "idle"
    /\ \E c \in Pending(HostOf[p]) : ~IsProbe(c)
    /\ got' = [got EXCEPT ![p] = {c \in Pending(HostOf[p]) : ~IsProbe(c)}]
    /\ pc' = [pc EXCEPT ![p] = "selected"]
    /\ UNCHANGED <<cmds, aged, enabled, schedule, clock, console, received, asof,
                   due, scanning, inventory, served, faults>>

\* The daily sync is only noted as done.
DaemonTimerSkipped(p) ==
    /\ pc[p] = "timer"
    /\ due' = [due EXCEPT ![p] = FALSE]
    /\ pc' = [pc EXCEPT ![p] = "idle"]
    /\ UNCHANGED <<cmds, aged, enabled, schedule, clock, console, got, received,
                   asof, scanning, inventory, served, faults>>

-----------------------------------------------------------------------------
(* The console.                                                            *)

\* enqueuePullCommand: always a new row, whatever is pending.
PullMachine(m) ==
    /\ "pull" \in Events
    /\ Room(1)
    /\ cmds' = Append(cmds, New(m, "scan_and_sync"))
    /\ UNCHANGED <<aged, enabled, schedule, clock, console, agents, inventory,
                   served, faults>>

\* The SELECT of the machines and the snapshot of INSERT ... WHERE NOT EXISTS
\* (a pending pull), and the moment that INSERT commits.
StartScope(h) ==
    /\ apc[h] = "idle"
    /\ todo' = [todo EXCEPT ![h] = {m \in Machines : Pending(m) = {}}]
    /\ apc' = [apc EXCEPT ![h] = "scope"]
    /\ UNCHANGED <<cmds, aged, enabled, schedule, clock, cur, agents, inventory,
                   served, faults>>

InsertScope(h) ==
    /\ apc[h] = "scope"
    /\ LET n == Cardinality(todo[h])
       IN  /\ Room(n)
           /\ \E f \in [1 .. n -> todo[h]] :
                 /\ \A i, j \in 1 .. n : f[i] = f[j] => i = j
                 /\ cmds' = cmds \o [i \in 1 .. n |-> New(f[i], "scan_and_sync")]
    /\ todo' = [todo EXCEPT ![h] = {}]
    /\ apc' = [apc EXCEPT ![h] = IF h = Tick THEN "mark" ELSE "idle"]
    /\ fired' = IF h = Tick /\ todo[h] # {} THEN fired + 1 ELSE fired
    /\ UNCHANGED <<aged, enabled, schedule, ran, minute, cur, agents, inventory,
                   served, faults>>

\* enqueueProbeCommand (one machine) and enqueueBulkProbeCommand (several): the
\* kill switch is read once, then each machine's rate is checked and its row
\* inserted.  A machine over the limit is skipped (429 when it is the only one).
StartProbe(h, ms) ==
    /\ "probe" \in Events
    /\ apc[h] = "idle"
    /\ enabled
    /\ todo' = [todo EXCEPT ![h] = ms]
    /\ apc' = [apc EXCEPT ![h] = "rate"]
    /\ UNCHANGED <<cmds, aged, enabled, schedule, clock, cur, agents, inventory,
                   served, faults>>

CheckRate(h, m) ==
    /\ apc[h] = "rate"
    /\ m \in todo[h]
    /\ IF Cardinality(RecentProbes(m)) >= ProbeMax
         THEN /\ todo' = [todo EXCEPT ![h] = @ \ {m}]
              /\ apc' = [apc EXCEPT ![h] = IF todo[h] = {m} THEN "idle" ELSE "rate"]
              /\ UNCHANGED cur
         ELSE /\ cur' = [cur EXCEPT ![h] = m]
              /\ apc' = [apc EXCEPT ![h] = "insert"]
              /\ UNCHANGED todo
    /\ UNCHANGED <<cmds, aged, enabled, schedule, clock, agents, inventory,
                   served, faults>>

InsertProbe(h) ==
    /\ apc[h] = "insert"
    /\ Room(1)
    /\ cmds' = Append(cmds, New(cur[h], "probe"))
    /\ todo' = [todo EXCEPT ![h] = @ \ {cur[h]}]
    /\ apc' = [apc EXCEPT ![h] = IF todo[h] \ {cur[h]} = {} THEN "idle" ELSE "rate"]
    /\ cur' = [cur EXCEPT ![h] = NoMachine]
    /\ UNCHANGED <<aged, enabled, schedule, clock, agents, inventory, served,
                   faults>>

SetProbePolicy ==
    /\ "policy" \in Events
    /\ enabled' = ~enabled
    /\ UNCHANGED <<cmds, aged, schedule, clock, console, agents, inventory,
                   served, faults>>

TogglePullSchedule ==
    /\ "toggle" \in Events
    /\ schedule' = ~schedule
    /\ UNCHANGED <<cmds, aged, enabled, clock, console, agents, inventory,
                   served, faults>>

-----------------------------------------------------------------------------
(* The scheduler.  Its tick may come more than once in the minute.          *)

StartTick ==
    /\ schedule /\ minute /\ ~ran
    /\ StartScope(Tick)

MarkRun ==
    /\ apc[Tick] = "mark"
    /\ ran' = TRUE
    /\ apc' = [apc EXCEPT ![Tick] = "idle"]
    /\ UNCHANGED <<cmds, aged, enabled, schedule, minute, fired, todo, cur,
                   agents, inventory, served, faults>>

\* The minute comes, a day after it came before, and goes.
MinuteComes ==
    /\ "schedule" \in Events
    /\ ~minute
    /\ minute' = TRUE /\ ran' = FALSE /\ fired' = 0
    /\ apc[Tick] = "idle"
    /\ UNCHANGED <<cmds, aged, enabled, schedule, console, agents, inventory,
                   served, faults>>

MinuteGoes ==
    /\ minute
    /\ minute' = FALSE
    /\ UNCHANGED <<cmds, aged, enabled, schedule, ran, fired, console, agents,
                   inventory, served, faults>>

\* The oldest command leaves the rate window.
LeaveWindow ==
    /\ "window" \in Events
    /\ aged < Len(cmds)
    /\ aged' = aged + 1
    /\ UNCHANGED <<cmds, enabled, schedule, clock, console, agents, inventory,
                   served, faults>>

\* A statement of a handler or of the tick fails; the rest is not done.
HandlerFails(h) ==
    /\ Fault
    /\ apc[h] # "idle"
    /\ apc' = [apc EXCEPT ![h] = "idle"]
    /\ todo' = [todo EXCEPT ![h] = {}]
    /\ cur' = [cur EXCEPT ![h] = NoMachine]
    /\ UNCHANGED <<cmds, aged, enabled, schedule, clock, agents, inventory,
                   served>>

\* The server dies: handlers, the tick and the polls it was serving are gone.
RestartServer ==
    /\ Fault
    /\ apc' = [h \in Actors |-> "idle"]
    /\ todo' = [h \in Actors |-> {}]
    /\ cur' = [h \in Actors |-> NoMachine]
    /\ pc' = [p \in Pollers |->
                 IF pc[p] \in {"selected", "marked"} THEN "idle" ELSE pc[p]]
    /\ got' = [p \in Pollers |->
                 IF pc[p] \in {"selected", "marked"} THEN {} ELSE got[p]]
    /\ UNCHANGED <<cmds, aged, enabled, schedule, clock, received, asof, due,
                   scanning, inventory, served>>

-----------------------------------------------------------------------------
(* agentFetchCommands, for either poller: the pending commands are selected,*)
(* marked, and answered.                                                   *)

PollSelect(p) ==
    /\ pc[p] = "idle"
    /\ Pending(HostOf[p]) # {}
    /\ got' = [got EXCEPT ![p] = Pending(HostOf[p])]
    /\ pc' = [pc EXCEPT ![p] = "selected"]
    /\ UNCHANGED <<cmds, aged, enabled, schedule, clock, console, received, asof,
                   due, scanning, inventory, served, faults>>

\* Nothing is pending.
PollNothing(p) ==
    /\ pc[p] = "idle"
    /\ Pending(HostOf[p]) = {}
    /\ pc' = [pc EXCEPT ![p] = Label(p, {})]
    /\ UNCHANGED <<cmds, aged, enabled, schedule, clock, console, got, received,
                   asof, due, scanning, inventory, served, faults>>

PollMark(p) ==
    /\ pc[p] = "selected"
    /\ cmds' = [c \in DOMAIN cmds |->
                   IF c \in got[p] THEN [cmds[c] EXCEPT !.status = "dispatched"]
                                   ELSE cmds[c]]
    /\ pc' = [pc EXCEPT ![p] = "marked"]
    /\ UNCHANGED <<aged, enabled, schedule, clock, console, got, received, asof,
                   due, scanning, inventory, served, faults>>

Deliver(p) ==
    /\ pc[p] = "marked"
    /\ received' = [received EXCEPT ![p] =
                       [c \in 1 .. MaxCommands |->
                           IF c \in got[p] THEN @[c] + 1 ELSE @[c]]]
    /\ pc' = [pc EXCEPT ![p] = "work"]
    /\ UNCHANGED <<cmds, aged, enabled, schedule, clock, console, got, asof, due,
                   scanning, inventory, served, faults>>

\* A statement fails (500), the answer is lost or late (the client waits 15 s),
\* or the agent's process ends: what it had fetched is not done.
DropCommands(p) ==
    /\ Fault
    /\ pc[p] # "idle"
    /\ pc' = [pc EXCEPT ![p] = IF @ \in {"selected", "marked"} THEN Label(p, {})
                                                           ELSE "idle"]
    /\ got' = [got EXCEPT ![p] = {}]
    /\ asof' = [asof EXCEPT ![p] = 0]
    /\ UNCHANGED <<cmds, aged, enabled, schedule, clock, console, received, due,
                   scanning, inventory, served>>

-----------------------------------------------------------------------------
(* The agents.                                                             *)


BeginScan(p, rest, label) ==
    /\ asof' = [asof EXCEPT ![p] = Len(cmds)]
    /\ got' = [got EXCEPT ![p] = rest]
    /\ pc' = [pc EXCEPT ![p] = label]

\* The daemon works its commands off one by one, oldest first.
DaemonPull(p) ==
    /\ p \in Daemons
    /\ pc[p] = "work"
    /\ LET c == Least(got[p])
       IN  ~IsProbe(c) /\ BeginScan(p, got[p] \ {c}, "upload")
    /\ UNCHANGED <<cmds, aged, enabled, schedule, clock, console, received, due,
                   scanning, inventory, served, faults>>

\* Nothing is uploaded when probing is disabled on the host, no target is valid
\* or none answers.
DaemonProbe(p) ==
    /\ p \in Daemons
    /\ pc[p] = "work"
    /\ LET c == Least(got[p])
       IN  /\ IsProbe(c)
           /\ got' = [got EXCEPT ![p] = @ \ {c}]
           /\ pc' = [pc EXCEPT ![p] = Label(p, got[p] \ {c})]
    /\ \/ inventory' = [inventory EXCEPT ![HostOf[p]] = "probe"]
       \/ UNCHANGED inventory
    /\ UNCHANGED <<cmds, aged, enabled, schedule, clock, console, received, asof,
                   due, scanning, served, faults>>

\* The GUI's worker runs the targets of all probes together, then at most one
\* sync for all pulls, or for its own timer; none while a scan runs.
GuiProbe(p) ==
    /\ p \in Guis
    /\ pc[p] = "work"
    /\ \E c \in got[p] : IsProbe(c)
    /\ LET pulls == {c \in got[p] : ~IsProbe(c)}
       IN  got' = [got EXCEPT ![p] = pulls] /\ pc' = [pc EXCEPT ![p] = Label(p, pulls)]
    /\ \/ inventory' = [inventory EXCEPT ![HostOf[p]] = "probe"]
       \/ UNCHANGED inventory
    /\ UNCHANGED <<cmds, aged, enabled, schedule, clock, console, received, asof,
                   due, scanning, served, faults>>

GuiPull(p) ==
    /\ p \in Guis
    /\ pc[p] = "work"
    /\ \A c \in got[p] : ~IsProbe(c)
    /\ IF scanning[p]
         THEN /\ got' = [got EXCEPT ![p] = {}]
              /\ pc' = [pc EXCEPT ![p] = "idle"]
              /\ UNCHANGED asof
         ELSE BeginScan(p, {}, "upload")
    /\ UNCHANGED <<cmds, aged, enabled, schedule, clock, console, received, due,
                   scanning, inventory, served, faults>>

GuiTimerSync(p) ==
    /\ "timer" \in Events
    /\ p \in Guis
    /\ pc[p] = "idle" /\ ~scanning[p]
    /\ BeginScan(p, {}, "upload")
    /\ UNCHANGED <<cmds, aged, enabled, schedule, clock, console, received, due,
                   scanning, inventory, served, faults>>

\* The user starts a scan in the GUI, and it ends; it uploads nothing.
UserScan(p) ==
    /\ p \in Guis
    /\ scanning' = [scanning EXCEPT ![p] = ~@]
    /\ UNCHANGED <<cmds, aged, enabled, schedule, clock, console, pc, got,
                   received, asof, due, inventory, served, faults>>

\* The daemon's timer (1440 minutes by default) and its sync.  lastSync is set
\* after every sync it tries.
SyncDue(p) ==
    /\ "timer" \in Events
    /\ p \in Daemons /\ ~due[p]
    /\ due' = [due EXCEPT ![p] = TRUE]
    /\ UNCHANGED <<cmds, aged, enabled, schedule, clock, console, pc, got,
                   received, asof, scanning, inventory, served, faults>>

DaemonTimer(p) ==
    /\ pc[p] = "timer"
    /\ IF due[p] THEN BeginScan(p, {}, "daily")
                 ELSE /\ pc' = [pc EXCEPT ![p] = "idle"]
                      /\ UNCHANGED <<got, asof>>
    /\ UNCHANGED <<cmds, aged, enabled, schedule, clock, console, received, due,
                   scanning, inventory, served, faults>>

SyncEnds(p) ==
    /\ pc[p] \in {"upload", "daily"}
    /\ pc' = [pc EXCEPT ![p] = IF @ = "daily" THEN "idle" ELSE Label(p, got[p])]
    /\ due' = [due EXCEPT ![p] = FALSE]
    /\ asof' = [asof EXCEPT ![p] = 0]
    /\ UNCHANGED <<cmds, aged, enabled, schedule, clock, console, got, received,
                   scanning>>

Upload(p) ==
    /\ SyncEnds(p)
    /\ inventory' = [inventory EXCEPT ![HostOf[p]] = "scan"]
    /\ served' = [served EXCEPT ![HostOf[p]] = IF asof[p] > @ THEN asof[p] ELSE @]
    /\ UNCHANGED faults

\* The scan or its upload fails.
SyncFails(p) ==
    /\ SyncEnds(p)
    /\ Fault
    /\ UNCHANGED <<inventory, served>>

-----------------------------------------------------------------------------
Server(p) == PollMark(p) \/ Deliver(p)

Agent(p) ==
    \/ PollSelect(p) \/ PollNothing(p)
    \/ DaemonTimer(p) \/ DaemonPull(p) \/ DaemonProbe(p)
    \/ GuiProbe(p) \/ GuiPull(p)
    \/ Upload(p)

Console ==
    \/ \E m \in Machines : PullMachine(m)
    \/ \E h \in Handlers :
          \/ "bulk" \in Events /\ StartScope(h)
          \/ \E m \in Machines : StartProbe(h, {m}) \/ CheckRate(h, m)
          \/ StartProbe(h, Machines)
          \/ InsertProbe(h)
    \/ \E h \in Actors : InsertScope(h) \/ HandlerFails(h)
    \/ SetProbePolicy \/ TogglePullSchedule

Scheduler == StartTick \/ MarkRun \/ MinuteComes \/ MinuteGoes

Next ==
    \/ Console
    \/ Scheduler
    \/ LeaveWindow
    \/ RestartServer
    \/ \E p \in Pollers :
          \/ Server(p) \/ Agent(p)
          \/ GuiTimerSync(p) \/ UserScan(p)
          \/ SyncDue(p) \/ SyncFails(p) \/ DropCommands(p)

Spec == Init /\ [][Next]_vars

\* The server answers its polls, time passes, and a daemon, which the system
\* restarts, goes on with its loop.  Nothing is assumed of the GUI, which the
\* user may close.
Fairness ==
    /\ \A p \in Pollers : WF_vars(Server(p))
    /\ \A p \in Daemons : WF_vars(Agent(p)) /\ WF_vars(SyncDue(p))

FairSpec == Spec /\ Fairness

-----------------------------------------------------------------------------
(* Properties.                                                             *)

\* The rate limit under concurrency: count and insert are separate statements,
\* so each other handler can slip one probe past the check, and no more: within
\* the window a machine gets at most the limit plus one per other handler.
ProbeRateBounded ==
    \A m \in Machines :
        Cardinality(RecentProbes(m)) =< ProbeMax + Cardinality(Handlers) - 1

\* last_run_at: in its minute a schedule queues its pulls once, however often
\* the tick comes, and once more for each restart between the INSERT and the
\* UPDATE of last_run_at.
ScheduleFiresOnce == fired =< 1 + faults

\* The queue keeps the promise of module CommandQueue: a command is handed to
\* a poller at most once, and never while it is still pending.
Queue == INSTANCE CommandQueue WITH
            Commands <- 1 .. MaxCommands,
            length <- Len(cmds),
            taken  <- {c \in 1 .. Len(cmds) : cmds[c].status = "dispatched"},
            handed <- received
ImplementsQueue == Queue!Spec

\* The machines that a daemon polls for.
Covered == {HostOf[p] : p \in Daemons}

\* A command for a machine with a running daemon leaves the queue, whichever
\* poller fetches it.
PendingFetched ==
    \A c \in 1 .. MaxCommands :
        (c =< Len(cmds) /\ cmds[c].machine \in Covered)
            ~> (c =< Len(cmds) /\ cmds[c].status = "dispatched")

\* A pull of such a machine is followed by an upload of a scan that began after
\* it was queued, even if the command was lost, its sync failed or the GUI
\* dropped it while a scan was running: at the latest the daemon's daily sync
\* makes up for it.
PullsServed ==
    \A c \in 1 .. MaxCommands :
        (/\ c =< Len(cmds) /\ cmds[c].kind = "scan_and_sync"
         /\ cmds[c].machine \in Covered)
            ~> (c =< Len(cmds) /\ served[cmds[c].machine] >= c)

\* What FLEET-PROBE-PLAN.md says of a probe, that its findings go with the next
\* sync: the inventory of a machine that was scanned goes on holding a scan.
ScanKeptByProbe ==
    [][\A m \in Machines : inventory[m] = "scan" => inventory'[m] = "scan"]_vars
=============================================================================
