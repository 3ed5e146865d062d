------------------------ MODULE FleetCommands_proofs ------------------------
(* Theorems about FleetCommands, for any machines, pollers, handlers, bounds  *)
(* and events.                                                               *)
EXTENDS FleetCommands, FiniteSetTheorems, WellFoundedInduction, TLAPS

USE PollerAssumption, BoundAssumption DEF PollerAssumption, BoundAssumption

-----------------------------------------------------------------------------
(* The three ways in which fleet_commands changes.                           *)

\* An INSERT of one row.
LEMMA AppendCommand ==
    ASSUME NEW s \in Seq(Command), NEW e \in Command
    PROVE  /\ Append(s, e) \in Seq(Command)
           /\ Len(Append(s, e)) = Len(s) + 1
           /\ \A i \in 1 .. Len(s) : Append(s, e)[i] = s[i]
           /\ Append(s, e)[Len(s) + 1] = e
  OBVIOUS

\* An INSERT of several.
LEMMA ConcatCommands ==
    ASSUME NEW s \in Seq(Command), NEW n \in Nat,
           NEW t \in [1 .. n -> Command]
    PROVE  /\ s \o t \in Seq(Command)
           /\ Len(s \o t) = Len(s) + n
           /\ \A i \in 1 .. Len(s) : (s \o t)[i] = s[i]
           /\ \A i \in 1 .. n : (s \o t)[Len(s) + i] = t[i]
  <1>1. t \in Seq(Command) /\ Len(t) = n
    OBVIOUS
  <1>. QED
    BY <1>1

Marked(s, G) ==
    [c \in DOMAIN s |-> IF c \in G THEN [s[c] EXCEPT !.status = "dispatched"]
                                   ELSE s[c]]

\* The UPDATE that marks the commands G.
LEMMA MarkCommands ==
    ASSUME NEW s \in Seq(Command), NEW G
    PROVE  /\ Marked(s, G) \in Seq(Command)
           /\ Len(Marked(s, G)) = Len(s)
           /\ \A i \in 1 .. Len(s) :
                 /\ Marked(s, G)[i].machine = s[i].machine
                 /\ Marked(s, G)[i].kind = s[i].kind
                 /\ Marked(s, G)[i].status =
                       IF i \in G THEN "dispatched" ELSE s[i].status
  <1>1. DOMAIN s = 1 .. Len(s) /\ Len(s) \in Nat
    OBVIOUS
  <1>2. ASSUME NEW i \in 1 .. Len(s)
        PROVE  /\ s[i] \in Command
               /\ Marked(s, G)[i] \in Command
               /\ Marked(s, G)[i].machine = s[i].machine
               /\ Marked(s, G)[i].kind = s[i].kind
               /\ Marked(s, G)[i].status =
                     IF i \in G THEN "dispatched" ELSE s[i].status
    <2>1. s[i] \in Command
      BY <1>1
    <2>2. Marked(s, G)[i] = IF i \in G THEN [s[i] EXCEPT !.status = "dispatched"]
                                       ELSE s[i]
      BY <1>1 DEF Marked
    <2>. QED
      BY <2>1, <2>2 DEF Command
  <1>3. Marked(s, G) \in [1 .. Len(s) -> Command]
    BY <1>1, <1>2 DEF Marked
  <1>4. Marked(s, G) \in Seq(Command) /\ Len(Marked(s, G)) = Len(s)
    BY <1>1, <1>3
  <1>. QED
    BY <1>2, <1>4

-----------------------------------------------------------------------------
(* Type correctness.                                                         *)

\* The variables of the console and the clock; those of the agents, given n
\* commands; and the rest.
ConsoleOK ==
    /\ enabled \in BOOLEAN /\ schedule \in BOOLEAN
    /\ ran \in BOOLEAN /\ minute \in BOOLEAN /\ fired \in Nat
    /\ apc \in [Actors -> {"idle", "rate", "insert", "scope", "mark"}]
    /\ todo \in [Actors -> SUBSET Machines]
    /\ cur \in [Actors -> Machines \cup {NoMachine}]
    /\ \A h \in Actors : apc[h] = "insert" => cur[h] \in Machines
    /\ faults \in 0 .. MaxFaults

AgentsOK(n) ==
    /\ pc \in [Pollers -> {"idle", "selected", "marked", "work", "upload",
                           "timer", "daily"}]
    /\ got \in [Pollers -> SUBSET (1 .. n)]
    /\ received \in [Pollers -> [1 .. MaxCommands -> Nat]]
    /\ asof \in [Pollers -> 0 .. n]
    /\ due \in [Pollers -> BOOLEAN] /\ scanning \in [Pollers -> BOOLEAN]
    /\ inventory \in [Machines -> {"none", "scan", "probe"}]
    /\ served \in [Machines -> 0 .. n]

QueueOK ==
    /\ cmds \in Seq(Command) /\ Len(cmds) =< MaxCommands
    /\ aged \in 0 .. Len(cmds)

LEMMA TypeSplit ==
    /\ TypeOK <=> QueueOK /\ ConsoleOK /\ AgentsOK(Len(cmds))
    /\ TypeOK' <=> QueueOK' /\ ConsoleOK' /\ AgentsOK(Len(cmds))'
  BY DEF TypeOK, QueueOK, ConsoleOK, AgentsOK

LEMMA InitType == Init => TypeOK
  <1>. SUFFICES ASSUME Init PROVE TypeOK
    OBVIOUS
  <1>1. cmds \in Seq(Command) /\ Len(cmds) = 0
    BY DEF Init
  <1>2. QueueOK
    BY <1>1 DEF Init, QueueOK
  <1>3. ConsoleOK
    <2>1. enabled \in BOOLEAN /\ schedule \in BOOLEAN /\ ran \in BOOLEAN
             /\ minute \in BOOLEAN
      BY Zenon DEF Init
    <2>2. fired \in Nat /\ faults \in 0 .. MaxFaults
      BY DEF Init
    <2>3. /\ apc \in [Actors -> {"idle", "rate", "insert", "scope", "mark"}]
          /\ todo \in [Actors -> SUBSET Machines]
          /\ cur \in [Actors -> Machines \cup {NoMachine}]
      BY DEF Init
    <2>4. \A h \in Actors : apc[h] = "insert" => cur[h] \in Machines
      BY DEF Init
    <2>. QED
      BY <2>1, <2>2, <2>3, <2>4 DEF ConsoleOK
  <1>4. AgentsOK(Len(cmds))
    BY <1>1 DEF Init, AgentsOK
  <1>. QED
    BY <1>2, <1>3, <1>4, TypeSplit

\* Rows are only ever added: what the agents hold stays in range.
LEMMA QueueGrows ==
    ASSUME TypeOK, QueueOK', ConsoleOK', Len(cmds') >= Len(cmds),
           UNCHANGED <<agents, inventory, served>>
    PROVE  TypeOK'
  <1>1. Len(cmds) \in Nat /\ Len(cmds') \in Nat
    BY DEF TypeOK, QueueOK
  <1>2. 1 .. Len(cmds) \subseteq 1 .. Len(cmds') /\ 0 .. Len(cmds) \subseteq 0 .. Len(cmds')
    BY <1>1
  <1>3. AgentsOK(Len(cmds))'
    BY <1>2 DEF TypeOK, AgentsOK, agents
  <1>. QED
    BY <1>3, TypeSplit

LEMMA ConsoleType == TypeOK /\ Console => TypeOK'
  <1>. SUFFICES ASSUME TypeOK, Console PROVE TypeOK'
    OBVIOUS
  <1>0. cmds \in Seq(Command) /\ Len(cmds) \in Nat /\ QueueOK /\ ConsoleOK
    BY TypeSplit DEF QueueOK
  <1>1. ASSUME NEW m \in Machines, NEW kind \in {"scan_and_sync", "probe"},
               Room(1), cmds' = Append(cmds, New(m, kind)), UNCHANGED aged
        PROVE  QueueOK' /\ Len(cmds') >= Len(cmds)
    <2>1. New(m, kind) \in Command
      BY DEF New, Command
    <2>. QED
      BY <1>0, <1>1, <2>1, AppendCommand DEF QueueOK, Room
  <1>2. ASSUME NEW m \in Machines, PullMachine(m) PROVE TypeOK'
    <2>1. QueueOK' /\ Len(cmds') >= Len(cmds)
      BY <1>1, <1>2 DEF PullMachine
    <2>2. ConsoleOK'
      BY <1>0, <1>2 DEF PullMachine, ConsoleOK, console, clock
    <2>. QED
      BY <1>2, <2>1, <2>2, QueueGrows DEF PullMachine
  <1>3. ASSUME NEW h \in Actors, StartScope(h) PROVE TypeOK'
    BY <1>3 DEF StartScope, TypeOK, clock, agents
  <1>4. ASSUME NEW h \in Handlers, NEW ms \in SUBSET Machines, StartProbe(h, ms)
        PROVE  TypeOK'
    BY <1>4 DEF StartProbe, TypeOK, clock, agents, Actors
  <1>5. ASSUME NEW h \in Handlers, NEW m \in Machines, CheckRate(h, m)
        PROVE  TypeOK'
    <2>1. PICK l \in {"idle", "rate"} : l = IF todo[h] = {m} THEN "idle" ELSE "rate"
      OBVIOUS
    <2>2. CASE Cardinality(RecentProbes(m)) >= ProbeMax
      <3>1. /\ apc' = [apc EXCEPT ![h] = l]
            /\ todo' = [todo EXCEPT ![h] = todo[h] \ {m}] /\ UNCHANGED cur
        BY <1>5, <2>1, <2>2 DEF CheckRate
      <3>. QED
        BY <1>5, <3>1 DEF CheckRate, TypeOK, clock, agents, Actors
    <2>3. CASE ~(Cardinality(RecentProbes(m)) >= ProbeMax)
      <3>1. /\ apc' = [apc EXCEPT ![h] = "insert"]
            /\ cur' = [cur EXCEPT ![h] = m] /\ UNCHANGED todo
        BY <1>5, <2>3 DEF CheckRate
      <3>. QED
        BY <1>5, <3>1 DEF CheckRate, TypeOK, clock, agents, Actors
    <2>. QED
      BY <2>2, <2>3
  <1>6. ASSUME NEW h \in Handlers, InsertProbe(h) PROVE TypeOK'
    <2>1. cur[h] \in Machines
      BY <1>0, <1>6 DEF InsertProbe, ConsoleOK, Actors
    <2>2. QueueOK' /\ Len(cmds') >= Len(cmds)
      BY <1>1, <1>6, <2>1 DEF InsertProbe
    <2>3. ConsoleOK'
      BY <1>0, <1>6 DEF InsertProbe, ConsoleOK, clock, Actors
    <2>. QED
      BY <1>6, <2>2, <2>3, QueueGrows DEF InsertProbe
  <1>7. ASSUME NEW h \in Actors, InsertScope(h) PROVE TypeOK'
    <2>1. todo[h] \in SUBSET Machines
      BY <1>0 DEF ConsoleOK
    <2>2. Cardinality(todo[h]) \in Nat
      BY <2>1, FS_Subset, FS_CardinalityType
    <2>3. PICK f \in [1 .. Cardinality(todo[h]) -> todo[h]] :
             cmds' = cmds \o [i \in 1 .. Cardinality(todo[h]) |->
                                 New(f[i], "scan_and_sync")]
      BY <1>7 DEF InsertScope
    <2>4. [i \in 1 .. Cardinality(todo[h]) |-> New(f[i], "scan_and_sync")]
             \in [1 .. Cardinality(todo[h]) -> Command]
      BY <2>1, <2>3 DEF New, Command
    <2>5. cmds' \in Seq(Command) /\ Len(cmds') = Len(cmds) + Cardinality(todo[h])
      BY <1>0, <2>2, <2>3, <2>4, ConcatCommands
    <2>6. Len(cmds') =< MaxCommands
      BY <1>7, <2>5 DEF InsertScope, Room
    <2>7. QueueOK' /\ Len(cmds') >= Len(cmds)
      BY <1>0, <1>7, <2>2, <2>5, <2>6 DEF InsertScope, QueueOK
    <2>8. ConsoleOK'
      BY <1>0, <1>7 DEF InsertScope, ConsoleOK, Actors
    <2>. QED
      BY <1>7, <2>7, <2>8, QueueGrows DEF InsertScope
  <1>8. ASSUME NEW h \in Actors, HandlerFails(h) PROVE TypeOK'
    BY <1>8 DEF HandlerFails, Fault, TypeOK, clock, agents
  <1>9. CASE SetProbePolicy
    BY <1>9 DEF SetProbePolicy, TypeOK, clock, console, agents
  <1>10. CASE TogglePullSchedule
    BY <1>10 DEF TogglePullSchedule, TypeOK, clock, console, agents
  <1>11. Handlers \subseteq Actors
    BY DEF Actors
  <1>. QED
    BY <1>2, <1>3, <1>4, <1>5, <1>6, <1>7, <1>8, <1>9, <1>10, <1>11 DEF Console

LEMMA SchedulerType ==
    TypeOK /\ (Scheduler \/ LeaveWindow \/ RestartServer) => TypeOK'
  <1>. SUFFICES ASSUME TypeOK, Scheduler \/ LeaveWindow \/ RestartServer
                PROVE  TypeOK'
    OBVIOUS
  <1>1. CASE StartTick
    BY <1>1 DEF StartTick, StartScope, TypeOK, clock, agents, Actors
  <1>2. CASE MarkRun
    BY <1>2 DEF MarkRun, TypeOK, clock, agents, Actors
  <1>3. CASE MinuteComes
    BY <1>3 DEF MinuteComes, TypeOK, console, agents
  <1>4. CASE MinuteGoes
    BY <1>4 DEF MinuteGoes, TypeOK, console, agents
  <1>5. CASE LeaveWindow
    BY <1>5 DEF LeaveWindow, TypeOK, clock, console, agents
  <1>6. CASE RestartServer
    BY <1>6 DEF RestartServer, Fault, TypeOK, clock
  <1>. QED
    BY <1>1, <1>2, <1>3, <1>4, <1>5, <1>6 DEF Scheduler

LEMMA PollerType ==
    ASSUME TypeOK, NEW p \in Pollers,
           Server(p) \/ Agent(p) \/ GuiTimerSync(p) \/ UserScan(p) \/ SyncDue(p)
              \/ SyncFails(p) \/ DropCommands(p)
    PROVE  TypeOK'
  <1>0. cmds \in Seq(Command) /\ Len(cmds) \in Nat /\ HostOf[p] \in Machines
    BY DEF TypeOK
  <1>1. CASE PollSelect(p)
    BY <1>0, <1>1 DEF PollSelect, Pending, TypeOK, clock, console
  <1>2. CASE PollNothing(p)
    BY <1>2 DEF PollNothing, Label, TypeOK, clock, console
  <1>3. CASE PollMark(p)
    <2>1. cmds' = Marked(cmds, got[p])
      BY <1>3 DEF PollMark, Marked
    <2>2. cmds' \in Seq(Command) /\ Len(cmds') = Len(cmds)
      BY <1>0, <2>1, MarkCommands
    <2>. QED
      BY <1>3, <2>2 DEF PollMark, TypeOK, clock, console
  <1>4. CASE Deliver(p)
    BY <1>4 DEF Deliver, TypeOK, clock, console
  <1>5. CASE DropCommands(p)
    BY <1>0, <1>5 DEF DropCommands, Fault, Label, TypeOK, clock, console
  <1>6. ASSUME NEW rest \in SUBSET got[p], NEW label \in {"upload", "daily"},
               BeginScan(p, rest, label),
               UNCHANGED <<cmds, aged, enabled, schedule, clock, console,
                           received, due, scanning, inventory, served, faults>>
        PROVE  TypeOK'
    BY <1>0, <1>6 DEF BeginScan, TypeOK, clock, console
  <1>7. CASE DaemonPull(p)
    BY <1>6, <1>7 DEF DaemonPull
  <1>8. CASE DaemonProbe(p)
    BY <1>0, <1>8 DEF DaemonProbe, Label, TypeOK, clock, console
  <1>9. CASE GuiProbe(p)
    BY <1>0, <1>9 DEF GuiProbe, Label, TypeOK, clock, console
  <1>10. CASE GuiPull(p)
    <2>1. CASE scanning[p]
      BY <1>0, <1>10, <2>1 DEF GuiPull, TypeOK, clock, console
    <2>2. CASE ~scanning[p]
      BY <1>6, <1>10, <2>2 DEF GuiPull
    <2>. QED
      BY <2>1, <2>2
  <1>11. CASE GuiTimerSync(p)
    BY <1>6, <1>11 DEF GuiTimerSync
  <1>12. CASE UserScan(p)
    BY <1>12 DEF UserScan, TypeOK, clock, console
  <1>13. CASE SyncDue(p)
    BY <1>13 DEF SyncDue, TypeOK, clock, console
  <1>14. CASE DaemonTimer(p)
    <2>1. CASE due[p]
      BY <1>6, <1>14, <2>1 DEF DaemonTimer
    <2>2. CASE ~due[p]
      BY <1>14, <2>2 DEF DaemonTimer, TypeOK, clock, console
    <2>. QED
      BY <2>1, <2>2
  <1>15. CASE Upload(p)
    BY <1>0, <1>15 DEF Upload, SyncEnds, Label, TypeOK, clock, console
  <1>16. CASE SyncFails(p)
    BY <1>0, <1>16 DEF SyncFails, SyncEnds, Fault, Label, TypeOK, clock, console
  <1>. QED
    BY <1>1, <1>2, <1>3, <1>4, <1>5, <1>7, <1>8, <1>9, <1>10, <1>11, <1>12,
       <1>13, <1>14, <1>15, <1>16 DEF Server, Agent

LEMMA NextType == TypeOK /\ [Next]_vars => TypeOK'
  <1>. SUFFICES ASSUME TypeOK, [Next]_vars PROVE TypeOK'
    OBVIOUS
  <1>1. CASE UNCHANGED vars
    BY <1>1 DEF vars, TypeOK, clock, console, agents
  <1>. QED
    BY <1>1, ConsoleType, SchedulerType, PollerType DEF Next

\* Type correctness: whatever the console, the agents and the failures do, every
\* variable keeps its type, and no poller holds a command that does not exist.
THEOREM TypeCorrect == Spec => []TypeOK
  BY InitType, NextType, PTL DEF Spec

-----------------------------------------------------------------------------
(* What a step does to fleet_commands and to the polls in progress.          *)

\* Nothing, but that polls may end.
Quiet ==
    /\ UNCHANGED <<cmds, received>>
    /\ \A p \in Pollers : pc'[p] \in {"selected", "marked"} =>
                             pc'[p] = pc[p] /\ got'[p] = got[p]

\* Pending rows are added.
Grow ==
    /\ cmds' \in Seq(Command) /\ Len(cmds') >= Len(cmds)
    /\ \A c \in 1 .. Len(cmds) : cmds'[c] = cmds[c]
    /\ \A c \in 1 .. Len(cmds') : c > Len(cmds) => cmds'[c].status = "pending"
    /\ UNCHANGED <<pc, got, received>>

LEMMA AppendGrows ==
    ASSUME TypeOK, NEW m \in Machines, NEW kind \in {"scan_and_sync", "probe"},
           cmds' = Append(cmds, New(m, kind)), UNCHANGED <<pc, got, received>>
    PROVE  Grow /\ Len(cmds') = Len(cmds) + 1 /\ cmds'[Len(cmds) + 1] = New(m, kind)
  <1>1. cmds \in Seq(Command) /\ Len(cmds) \in Nat /\ New(m, kind) \in Command
    BY DEF TypeOK, New, Command
  <1>2. /\ cmds' \in Seq(Command) /\ Len(cmds') = Len(cmds) + 1
        /\ \A i \in 1 .. Len(cmds) : cmds'[i] = cmds[i]
        /\ cmds'[Len(cmds) + 1] = New(m, kind)
    BY <1>1, AppendCommand
  <1>3. New(m, kind).status = "pending"
    BY DEF New
  <1>. QED
    BY <1>1, <1>2, <1>3 DEF Grow

LEMMA ScopeGrows ==
    ASSUME TypeOK, NEW h \in Actors, InsertScope(h)
    PROVE  Grow /\ \A c \in 1 .. Len(cmds') :
                      c > Len(cmds) => cmds'[c].kind = "scan_and_sync"
  <1>0. cmds \in Seq(Command) /\ Len(cmds) \in Nat /\ todo[h] \in SUBSET Machines
    BY DEF TypeOK
  <1>1. Cardinality(todo[h]) \in Nat
    BY <1>0, FS_Subset, FS_CardinalityType
  <1>2. PICK f \in [1 .. Cardinality(todo[h]) -> todo[h]] :
           cmds' = cmds \o [i \in 1 .. Cardinality(todo[h]) |->
                               New(f[i], "scan_and_sync")]
    BY DEF InsertScope
  <1>. DEFINE t == [i \in 1 .. Cardinality(todo[h]) |-> New(f[i], "scan_and_sync")]
  <1>3. /\ t \in [1 .. Cardinality(todo[h]) -> Command]
        /\ \A i \in 1 .. Cardinality(todo[h]) :
              t[i].status = "pending" /\ t[i].kind = "scan_and_sync"
    BY <1>0, <1>2 DEF New, Command
  <1>4. /\ cmds' \in Seq(Command)
        /\ Len(cmds') = Len(cmds) + Cardinality(todo[h])
        /\ \A i \in 1 .. Len(cmds) : cmds'[i] = cmds[i]
        /\ \A i \in 1 .. Cardinality(todo[h]) : cmds'[Len(cmds) + i] = t[i]
    <2>1. cmds' = cmds \o t
      BY <1>2
    <2>2. t \in [1 .. Cardinality(todo[h]) -> Command]
      BY <1>3
    <2>. HIDE DEF t
    <2>3. /\ cmds \o t \in Seq(Command)
          /\ Len(cmds \o t) = Len(cmds) + Cardinality(todo[h])
          /\ \A i \in 1 .. Len(cmds) : (cmds \o t)[i] = cmds[i]
          /\ \A i \in 1 .. Cardinality(todo[h]) : (cmds \o t)[Len(cmds) + i] = t[i]
      BY <1>0, <1>1, <2>2, ConcatCommands
    <2>. QED
      BY <2>1, <2>3
  <1>5. ASSUME NEW c \in 1 .. Len(cmds'), c > Len(cmds)
        PROVE  cmds'[c].status = "pending" /\ cmds'[c].kind = "scan_and_sync"
    <2>1. c - Len(cmds) \in 1 .. Cardinality(todo[h])
      BY <1>0, <1>1, <1>4, <1>5
    <2>2. cmds'[c] = t[c - Len(cmds)]
      BY <1>0, <1>4, <2>1
    <2>. QED
      BY <1>3, <2>1, <2>2
  <1>6. UNCHANGED <<pc, got, received>>
    BY DEF InsertScope, agents
  <1>. QED
    BY <1>0, <1>1, <1>4, <1>5, <1>6 DEF Grow

LEMMA StepShape ==
    ASSUME TypeOK, [Next]_vars
    PROVE  \/ Quiet
           \/ Grow
           \/ \E p \in Pollers : PollSelect(p) \/ PollMark(p) \/ Deliver(p)
  <1>1. ASSUME UNCHANGED <<cmds, agents>> PROVE Quiet
    BY <1>1 DEF Quiet, agents
  <1>2. CASE UNCHANGED vars
    BY <1>1, <1>2 DEF vars
  <1>3. CASE Console
    <2>1. ASSUME NEW m \in Machines, PullMachine(m) PROVE Grow
      BY <2>1, AppendGrows DEF PullMachine, agents
    <2>2. ASSUME NEW h \in Handlers, InsertProbe(h) PROVE Grow
      <3>1. cur[h] \in Machines
        BY <2>2 DEF InsertProbe, TypeOK, Actors
      <3>. QED
        BY <2>2, <3>1, AppendGrows DEF InsertProbe, agents
    <2>3. ASSUME NEW h \in Actors, InsertScope(h) PROVE Grow
      BY <2>3, ScopeGrows
    <2>4. ASSUME NEW h \in Handlers, StartScope(h) PROVE Quiet
      BY <1>1, <2>4 DEF StartScope
    <2>5. ASSUME NEW h \in Handlers, NEW ms, StartProbe(h, ms) PROVE Quiet
      BY <1>1, <2>5 DEF StartProbe
    <2>6. ASSUME NEW h \in Handlers, NEW m, CheckRate(h, m) PROVE Quiet
      BY <1>1, <2>6 DEF CheckRate
    <2>7. ASSUME NEW h \in Actors, HandlerFails(h) PROVE Quiet
      BY <1>1, <2>7 DEF HandlerFails
    <2>8. CASE SetProbePolicy \/ TogglePullSchedule
      BY <1>1, <2>8 DEF SetProbePolicy, TogglePullSchedule
    <2>. QED
      BY <1>3, <2>1, <2>2, <2>3, <2>4, <2>5, <2>6, <2>7, <2>8 DEF Console
  <1>4. CASE Scheduler \/ LeaveWindow
    BY <1>1, <1>4 DEF Scheduler, StartTick, StartScope, MarkRun, MinuteComes,
                      MinuteGoes, LeaveWindow
  <1>5. CASE RestartServer
    BY <1>5 DEF RestartServer, Quiet, TypeOK
  <1>6. ASSUME NEW p \in Pollers,
               Server(p) \/ Agent(p) \/ GuiTimerSync(p) \/ UserScan(p)
                  \/ SyncDue(p) \/ SyncFails(p) \/ DropCommands(p)
        PROVE  Quiet \/ PollSelect(p) \/ PollMark(p) \/ Deliver(p)
    <2>1. ASSUME UNCHANGED <<cmds, received>>,
                 NEW l \in {"idle", "work", "upload", "timer", "daily"}, NEW g,
                 pc' = [pc EXCEPT ![p] = l],
                 got' = got \/ got' = [got EXCEPT ![p] = g]
          PROVE  Quiet
      BY <2>1 DEF Quiet, TypeOK
    <2>2. \A rest : Label(p, rest) \in {"idle", "work", "timer"}
      BY DEF Label
    <2>3. CASE PollNothing(p) \/ DropCommands(p)
      <3>1. CASE PollNothing(p)
        BY <2>1, <2>2, <3>1 DEF PollNothing
      <3>2. CASE DropCommands(p)
        <4>1. PICK l \in {"idle", "work", "timer"} : pc' = [pc EXCEPT ![p] = l]
          BY <2>2, <3>2 DEF DropCommands
        <4>. QED
          BY <2>1, <3>2, <4>1 DEF DropCommands
      <3>. QED
        BY <2>3, <3>1, <3>2
    <2>4. CASE DaemonPull(p) \/ DaemonTimer(p) \/ GuiPull(p) \/ GuiTimerSync(p)
      <3>1. \A rest, l : BeginScan(p, rest, l) =>
               pc' = [pc EXCEPT ![p] = l] /\ got' = [got EXCEPT ![p] = rest]
        BY DEF BeginScan
      <3>2. CASE DaemonPull(p) \/ GuiTimerSync(p)
        BY <2>1, <3>1, <3>2 DEF DaemonPull, GuiTimerSync
      <3>3. CASE DaemonTimer(p)
        BY <2>1, <3>1, <3>3 DEF DaemonTimer
      <3>4. CASE GuiPull(p)
        BY <2>1, <3>1, <3>4 DEF GuiPull
      <3>. QED
        BY <2>4, <3>2, <3>3, <3>4
    <2>5. CASE DaemonProbe(p) \/ GuiProbe(p)
      BY <2>1, <2>2, <2>5 DEF DaemonProbe, GuiProbe
    <2>6. CASE Upload(p) \/ SyncFails(p)
      BY <2>1, <2>2, <2>6 DEF Upload, SyncFails, SyncEnds
    <2>7. CASE UserScan(p) \/ SyncDue(p)
      BY <2>7 DEF UserScan, SyncDue, Quiet
    <2>. QED
      BY <1>6, <2>3, <2>4, <2>5, <2>6, <2>7 DEF Server, Agent
  <1>. QED
    BY <1>2, <1>3, <1>4, <1>5, <1>6 DEF Next

-----------------------------------------------------------------------------
(* The queue.                                                                *)

\* A command that a poller was given is off the queue; what it has fetched it
\* has not been given before; and what it is about to be given is off the queue.
QueueInv ==
    \A p \in Pollers : \A c \in 1 .. MaxCommands :
        /\ received[p][c] # 0 => c =< Len(cmds) /\ cmds[c].status = "dispatched"
        /\ (pc[p] \in {"selected", "marked"} /\ c \in got[p])
              => received[p][c] = 0
        /\ (pc[p] = "marked" /\ c \in got[p]) => cmds[c].status = "dispatched"

\* What a poller holds are commands.
LEMMA GotRange ==
    ASSUME TypeOK
    PROVE  /\ cmds \in Seq(Command) /\ Len(cmds) \in 0 .. MaxCommands
           /\ \A p \in Pollers : got[p] \subseteq 1 .. Len(cmds)
           /\ 1 .. Len(cmds) \subseteq 1 .. MaxCommands
           /\ received \in [Pollers -> [1 .. MaxCommands -> Nat]]
           /\ \A c \in 1 .. Len(cmds) : cmds[c] \in Command
  BY DEF TypeOK

\* The effect of the UPDATE.
LEMMA MarkEffect ==
    ASSUME TypeOK, NEW p \in Pollers, PollMark(p)
    PROVE  /\ cmds' \in Seq(Command) /\ Len(cmds') = Len(cmds)
           /\ \A c \in 1 .. Len(cmds) :
                 /\ cmds'[c].machine = cmds[c].machine
                 /\ cmds'[c].kind = cmds[c].kind
                 /\ cmds'[c].status =
                       IF c \in got[p] THEN "dispatched" ELSE cmds[c].status
  <1>1. cmds' = Marked(cmds, got[p])
    BY DEF PollMark, Marked
  <1>. QED
    BY <1>1, GotRange, MarkCommands

LEMMA QueueStep == TypeOK /\ QueueInv /\ [Next]_vars => QueueInv'
  <1>. SUFFICES ASSUME TypeOK, QueueInv, [Next]_vars PROVE QueueInv'
    OBVIOUS
  <1>1. CASE Quiet
    BY <1>1 DEF Quiet, QueueInv
  <1>2. CASE Grow
    <2>1. ASSUME NEW c \in 1 .. Len(cmds)
          PROVE  c =< Len(cmds') /\ cmds'[c] = cmds[c]
      BY <1>2, GotRange DEF Grow
    <2>. QED
      BY <1>2, <2>1, GotRange DEF Grow, QueueInv
  <1>3. ASSUME NEW p \in Pollers, PollSelect(p) PROVE QueueInv'
    <2>1. UNCHANGED <<cmds, received>>
      BY <1>3 DEF PollSelect
    <2>2. ASSUME NEW c \in Pending(HostOf[p]), c \in 1 .. MaxCommands
          PROVE  received[p][c] = 0
      BY <2>2 DEF QueueInv, Pending
    <2>3. \A q \in Pollers : q # p => pc'[q] = pc[q] /\ got'[q] = got[q]
      BY <1>3 DEF PollSelect, TypeOK
    <2>4. pc'[p] = "selected" /\ got'[p] = Pending(HostOf[p])
      BY <1>3 DEF PollSelect, TypeOK
    <2>. QED
      BY <2>1, <2>2, <2>3, <2>4 DEF QueueInv
  <1>4. ASSUME NEW p \in Pollers, PollMark(p) PROVE QueueInv'
    <2>1. /\ UNCHANGED <<got, received>>
          /\ pc'[p] = "marked" /\ pc[p] = "selected"
          /\ \A q \in Pollers : q # p => pc'[q] = pc[q]
      BY <1>4 DEF PollMark, TypeOK
    <2>2. ASSUME NEW q \in Pollers, NEW c \in 1 .. MaxCommands
          PROVE  /\ received'[q][c] # 0 =>
                       c =< Len(cmds') /\ cmds'[c].status = "dispatched"
                 /\ (pc'[q] \in {"selected", "marked"} /\ c \in got'[q])
                       => received'[q][c] = 0
                 /\ (pc'[q] = "marked" /\ c \in got'[q])
                       => cmds'[c].status = "dispatched"
      <3>1. received[q][c] # 0 => c \in 1 .. Len(cmds) /\ cmds[c].status = "dispatched"
        BY GotRange DEF QueueInv
      <3>2. c \in got[q] => c \in 1 .. Len(cmds)
        BY GotRange
      <3>3. Len(cmds') = Len(cmds) /\ \A d \in 1 .. Len(cmds) :
               cmds'[d].status = IF d \in got[p] THEN "dispatched" ELSE cmds[d].status
        BY <1>4, MarkEffect
      <3>4. /\ (pc[q] \in {"selected", "marked"} /\ c \in got[q]) => received[q][c] = 0
            /\ (pc[q] = "marked" /\ c \in got[q]) => cmds[c].status = "dispatched"
        BY DEF QueueInv
      <3>5. pc'[q] = pc[q] \/ (q = p /\ pc'[q] = "marked" /\ pc[q] = "selected")
        BY <2>1
      <3>6. c \in 1 .. Len(cmds) /\ c \in got[p] => cmds'[c].status = "dispatched"
        BY <3>3
      <3>7. c \in 1 .. Len(cmds) /\ cmds[c].status = "dispatched"
               => cmds'[c].status = "dispatched"
        BY <3>3
      <3>8. c \in 1 .. Len(cmds) => c =< Len(cmds)
        BY GotRange
      <3>. QED
        BY <2>1, <3>1, <3>2, <3>3, <3>4, <3>5, <3>6, <3>7, <3>8
    <2>. QED
      BY <2>2 DEF QueueInv
  <1>5. ASSUME NEW p \in Pollers, Deliver(p) PROVE QueueInv'
    <2>1. /\ UNCHANGED <<cmds, got>>
          /\ pc[p] = "marked" /\ pc'[p] = "work"
          /\ \A q \in Pollers : q # p => pc'[q] = pc[q] /\ received'[q] = received[q]
          /\ \A c \in 1 .. MaxCommands :
                received'[p][c] = IF c \in got[p] THEN received[p][c] + 1
                                                  ELSE received[p][c]
      BY <1>5 DEF Deliver, TypeOK
    <2>2. ASSUME NEW q \in Pollers, NEW c \in 1 .. MaxCommands
          PROVE  /\ received'[q][c] # 0 =>
                       c =< Len(cmds') /\ cmds'[c].status = "dispatched"
                 /\ (pc'[q] \in {"selected", "marked"} /\ c \in got'[q])
                       => received'[q][c] = 0
                 /\ (pc'[q] = "marked" /\ c \in got'[q])
                       => cmds'[c].status = "dispatched"
      <3>1. CASE q = p
        <4>1. c \in got[p] => c \in 1 .. Len(cmds) /\ c =< Len(cmds)
          BY GotRange
        <4>2. c \in got[p] => cmds[c].status = "dispatched"
          BY <2>1 DEF QueueInv
        <4>3. received[p][c] # 0 => c =< Len(cmds) /\ cmds[c].status = "dispatched"
          BY DEF QueueInv
        <4>. QED
          BY <2>1, <3>1, <4>1, <4>2, <4>3
      <3>2. CASE q # p
        BY <2>1, <3>2 DEF QueueInv
      <3>. QED
        BY <3>1, <3>2
    <2>. QED
      BY <2>2 DEF QueueInv
  <1>. QED
    BY <1>1, <1>2, <1>3, <1>4, <1>5, StepShape

LEMMA InitQueue == Init => QueueInv
  BY DEF Init, QueueInv

Taken == {c \in 1 .. Len(cmds) : cmds[c].status = "dispatched"}

LEMMA QueueNext ==
    TypeOK /\ TypeOK' /\ QueueInv /\ [Next]_vars => [Queue!Next]_(Queue!vars)
  <1>. SUFFICES ASSUME TypeOK, TypeOK', QueueInv, [Next]_vars
                PROVE  [Queue!Next]_(Queue!vars)
    OBVIOUS
  <1>0. Len(cmds) \in Nat /\ Len(cmds') \in Nat
    BY DEF TypeOK
  <1>. USE DEF Queue!vars
  <1>1. CASE Quiet
    BY <1>1 DEF Quiet
  <1>2. CASE Grow
    <2>1. Taken' = Taken
      BY <1>0, <1>2 DEF Grow, Taken
    <2>2. UNCHANGED received
      BY <1>2 DEF Grow
    <2>3. CASE Len(cmds') > Len(cmds)
      BY <1>0, <2>1, <2>2, <2>3 DEF Queue!Next, Queue!Enqueue, Taken
    <2>4. CASE Len(cmds') = Len(cmds)
      BY <2>1, <2>2, <2>4 DEF Taken
    <2>. QED
      BY <1>0, <1>2, <2>3, <2>4 DEF Grow
  <1>3. ASSUME NEW p \in Pollers, PollSelect(p) PROVE UNCHANGED Queue!vars
    BY <1>3 DEF PollSelect
  <1>4. ASSUME NEW p \in Pollers, PollMark(p) PROVE Queue!Take
    <2>1. Len(cmds') = Len(cmds) /\ Taken \subseteq Taken' /\ UNCHANGED received
      BY <1>0, <1>4, MarkEffect DEF Taken, PollMark
    <2>. QED
      BY <2>1 DEF Queue!Take, Taken
  <1>5. ASSUME NEW p \in Pollers, Deliver(p) PROVE Queue!Hand(p)
    <2>1. UNCHANGED cmds /\ pc[p] = "marked"
      BY <1>5 DEF Deliver
    <2>2. got[p] \in SUBSET {c \in Taken : received[p][c] = 0}
      BY <2>1, GotRange DEF QueueInv, Taken
    <2>3. received' = [received EXCEPT ![p] =
                         [c \in 1 .. MaxCommands |->
                             IF c \in got[p] THEN 1 ELSE received[p][c]]]
      <3>1. \A c \in 1 .. MaxCommands :
               (IF c \in got[p] THEN received[p][c] + 1 ELSE received[p][c])
                   = (IF c \in got[p] THEN 1 ELSE received[p][c])
        BY <2>2
      <3>2. received' = [received EXCEPT ![p] =
                           [c \in 1 .. MaxCommands |->
                               IF c \in got[p] THEN received[p][c] + 1
                                               ELSE received[p][c]]]
        BY <1>5 DEF Deliver
      <3>. QED
        BY <3>1, <3>2
    <2>. QED
      BY <2>1, <2>2, <2>3 DEF Queue!Hand, Taken
  <1>. QED
    BY <1>1, <1>2, <1>3, <1>4, <1>5, StepShape DEF Queue!Next

LEMMA QueueInit == Init => Queue!Init
  <1>. SUFFICES ASSUME Init PROVE Queue!Init
    OBVIOUS
  <1>1. Len(cmds) = 0
    BY DEF Init
  <1>. QED
    BY <1>1 DEF Init, Queue!Init

\* The command queue, its SELECT and UPDATE apart, the answer sent after both,
\* keeps what CommandQueue promises: no poller is handed a command twice, and
\* none is handed out while it is still pending.
THEOREM QueueImplemented == Spec => ImplementsQueue
  <1>1. Spec => [](TypeOK /\ QueueInv)
    <2>1. Init => TypeOK /\ QueueInv
      BY InitType, InitQueue
    <2>2. TypeOK /\ QueueInv /\ [Next]_vars => (TypeOK /\ QueueInv)'
      BY NextType, QueueStep
    <2>. QED
      BY <2>1, <2>2, PTL DEF Spec
  <1>2. TypeOK /\ TypeOK' /\ QueueInv /\ [Next]_vars => [Queue!Next]_(Queue!vars)
    BY QueueNext
  <1>. QED
    BY <1>1, <1>2, QueueInit, PTL DEF Spec, ImplementsQueue, Queue!Spec

-----------------------------------------------------------------------------
(* The rate limit.                                                           *)

\* The handlers that have found machine m below the limit and not yet inserted.
Passed(m) == {h \in Handlers : apc[h] = "insert" /\ cur[h] = m}

\* Each of them is one of the Cardinality(Handlers) that may have seen the last
\* free place.
RateInv ==
    \A m \in Machines :
        Cardinality(RecentProbes(m)) + Cardinality(Passed(m))
            =< ProbeMax + Cardinality(Handlers) - 1

LEMMA RateFinite ==
    ASSUME TypeOK, NEW m
    PROVE  /\ IsFiniteSet(RecentProbes(m)) /\ IsFiniteSet(Passed(m))
           /\ Cardinality(RecentProbes(m)) \in Nat
           /\ Cardinality(Passed(m)) \in Nat
           /\ Cardinality(Passed(m)) =< Cardinality(Handlers)
           /\ Cardinality(Handlers) \in Nat \ {0}
  <1>1. aged + 1 \in Int /\ Len(cmds) \in Int
    BY DEF TypeOK
  <1>2. IsFiniteSet((aged + 1) .. Len(cmds))
    BY <1>1, FS_Interval
  <1>3. RecentProbes(m) \subseteq (aged + 1) .. Len(cmds)
    BY DEF RecentProbes
  <1>4. Passed(m) \subseteq Handlers
    BY DEF Passed
  <1>5. IsFiniteSet(RecentProbes(m)) /\ IsFiniteSet(Passed(m))
    BY <1>2, <1>3, <1>4, FS_Subset
  <1>6. Cardinality(Passed(m)) =< Cardinality(Handlers)
    BY <1>4, FS_Subset
  <1>7. Cardinality(Handlers) \in Nat /\ Cardinality(Handlers) # 0
    BY FS_CardinalityType, FS_EmptySet
  <1>. QED
    BY <1>5, <1>6, <1>7, FS_CardinalityType

\* A step that adds to neither set keeps the sum below the bound.
LEMMA RateShrinks ==
    ASSUME TypeOK, TypeOK', NEW m \in Machines, RateInv,
           RecentProbes(m)' \subseteq RecentProbes(m),
           Passed(m)' \subseteq Passed(m)
    PROVE  Cardinality(RecentProbes(m)') + Cardinality(Passed(m)')
               =< ProbeMax + Cardinality(Handlers) - 1
  <1>1. IsFiniteSet(RecentProbes(m)) /\ IsFiniteSet(Passed(m))
    BY RateFinite
  <1>2. /\ Cardinality(RecentProbes(m)') =< Cardinality(RecentProbes(m))
        /\ Cardinality(Passed(m)') =< Cardinality(Passed(m))
        /\ Cardinality(RecentProbes(m)') \in Nat
        /\ Cardinality(Passed(m)') \in Nat
    BY <1>1, FS_Subset, FS_CardinalityType
  <1>3. Cardinality(RecentProbes(m)) \in Nat /\ Cardinality(Passed(m)) \in Nat
           /\ Cardinality(Handlers) \in Nat
    BY RateFinite
  <1>. QED
    BY <1>2, <1>3 DEF RateInv

\* Commands that are added and are not probes of m count nothing for m.
LEMMA GrowKeepsRecent ==
    ASSUME TypeOK, NEW m \in Machines, Grow, UNCHANGED aged,
           \A c \in 1 .. Len(cmds') : c > Len(cmds) =>
               cmds'[c].kind # "probe" \/ cmds'[c].machine # m
    PROVE  RecentProbes(m)' = RecentProbes(m)
  <1>1. Len(cmds) \in Nat /\ Len(cmds') \in Nat /\ aged \in Nat
    BY DEF TypeOK, Grow
  <1>2. ASSUME NEW c \in (aged + 1) .. Len(cmds'), c > Len(cmds)
        PROVE  cmds'[c].kind # "probe" \/ cmds'[c].machine # m
    BY <1>1, <1>2
  <1>3. \A c \in (aged + 1) .. Len(cmds) : cmds'[c] = cmds[c]
    BY <1>1 DEF Grow
  <1>. QED
    BY <1>1, <1>2, <1>3 DEF RecentProbes, Grow

\* one more command is at most one more recent probe
LEMMA AddOne ==
  ASSUME NEW S, NEW x, IsFiniteSet(S)
  PROVE  /\ IsFiniteSet(S \cup {x})
         /\ Cardinality(S \cup {x}) =< Cardinality(S) + 1
  <1>1. Cardinality(S) \in Nat
    BY FS_CardinalityType
  <1>2. CASE x \in S
    <2>1. S \cup {x} = S
      BY <1>2
    <2>2. IsFiniteSet(S \cup {x}) /\ Cardinality(S \cup {x}) = Cardinality(S)
      BY ONLY <2>1, IsFiniteSet(S), Zenon
    <2>. QED
      BY <1>1, <2>2
  <1>3. CASE x \notin S
    <2>1. /\ IsFiniteSet(S \cup {x})
          /\ Cardinality(S \cup {x}) = Cardinality(S) + 1
      BY <1>3, FS_AddElement
    <2>. QED
      BY <1>1, <2>1
  <1>. QED
    BY <1>2, <1>3

LEMMA RateStep == TypeOK /\ TypeOK' /\ RateInv /\ [Next]_vars => RateInv'
  <1>. SUFFICES ASSUME TypeOK, TypeOK', RateInv, [Next]_vars,
                       NEW m \in Machines
                PROVE  Cardinality(RecentProbes(m)') + Cardinality(Passed(m)')
                          =< ProbeMax + Cardinality(Handlers) - 1
    BY DEF RateInv
  <1>0. cmds \in Seq(Command) /\ Len(cmds) \in Nat /\ aged \in Nat
    BY DEF TypeOK
  <1>1. ASSUME UNCHANGED <<cmds, aged>>, Passed(m)' \subseteq Passed(m)
        PROVE  Cardinality(RecentProbes(m)') + Cardinality(Passed(m)')
                  =< ProbeMax + Cardinality(Handlers) - 1
    BY <1>1, RateShrinks DEF RecentProbes
  <1>2. ASSUME UNCHANGED <<apc, cur>> PROVE Passed(m)' = Passed(m)
    BY <1>2 DEF Passed
  <1>3. CASE UNCHANGED vars
    BY <1>1, <1>2, <1>3 DEF vars, console
  <1>4. ASSUME NEW n \in Machines, PullMachine(n)
        PROVE  Cardinality(RecentProbes(m)') + Cardinality(Passed(m)')
                  =< ProbeMax + Cardinality(Handlers) - 1
    <2>1. Grow /\ Len(cmds') = Len(cmds) + 1
             /\ cmds'[Len(cmds) + 1] = New(n, "scan_and_sync")
      BY <1>4, AppendGrows DEF PullMachine, agents
    <2>2. \A c \in 1 .. Len(cmds') : c > Len(cmds) => cmds'[c].kind # "probe"
      BY <1>0, <2>1 DEF New
    <2>3. RecentProbes(m)' = RecentProbes(m)
      BY <1>4, <2>1, <2>2, GrowKeepsRecent DEF PullMachine
    <2>. QED
      BY <1>2, <1>4, <2>3, RateShrinks DEF PullMachine, console
  <1>5. ASSUME NEW h \in Actors, InsertScope(h)
        PROVE  Cardinality(RecentProbes(m)') + Cardinality(Passed(m)')
                  =< ProbeMax + Cardinality(Handlers) - 1
    <2>1. RecentProbes(m)' = RecentProbes(m)
      BY <1>5, ScopeGrows, GrowKeepsRecent DEF InsertScope
    <2>2. Passed(m)' \subseteq Passed(m)
      BY <1>5 DEF InsertScope, Passed, TypeOK
    <2>. QED
      BY <2>1, <2>2, RateShrinks
  <1>6. ASSUME NEW h \in Handlers, InsertProbe(h)
        PROVE  Cardinality(RecentProbes(m)') + Cardinality(Passed(m)')
                  =< ProbeMax + Cardinality(Handlers) - 1
    <2>1. cur[h] \in Machines
      BY <1>6 DEF InsertProbe, TypeOK, Actors
    <2>2. Grow /\ Len(cmds') = Len(cmds) + 1
             /\ cmds'[Len(cmds) + 1] = New(cur[h], "probe")
      BY <1>6, <2>1, AppendGrows DEF InsertProbe, agents
    <2>3. CASE cur[h] # m
      <3>1. \A c \in 1 .. Len(cmds') : c > Len(cmds) => cmds'[c].machine # m
        BY <1>0, <2>2, <2>3 DEF New
      <3>2. RecentProbes(m)' = RecentProbes(m)
        BY <1>6, <2>2, <3>1, GrowKeepsRecent DEF InsertProbe
      <3>3. Passed(m)' \subseteq Passed(m)
        BY <1>6, <2>3 DEF InsertProbe, Passed, TypeOK, Actors
      <3>. QED
        BY <3>2, <3>3, RateShrinks
    <2>4. CASE cur[h] = m
      <3>1. RecentProbes(m)' \subseteq RecentProbes(m) \cup {Len(cmds) + 1}
        BY <1>0, <1>6, <2>2 DEF RecentProbes, Grow, InsertProbe
      <3>2. h \in Passed(m) /\ Passed(m)' \subseteq Passed(m) \ {h}
        BY <1>6, <2>4 DEF InsertProbe, Passed, TypeOK, Actors
      <3>3. /\ IsFiniteSet(RecentProbes(m)) /\ IsFiniteSet(Passed(m))
            /\ Cardinality(RecentProbes(m)) \in Nat /\ Cardinality(Passed(m)) \in Nat
            /\ Cardinality(Handlers) \in Nat
        BY RateFinite
      <3>4. /\ IsFiniteSet(RecentProbes(m) \cup {Len(cmds) + 1})
            /\ Cardinality(RecentProbes(m) \cup {Len(cmds) + 1})
                  =< Cardinality(RecentProbes(m)) + 1
        BY <3>3, AddOne
      <3>5. /\ IsFiniteSet(Passed(m) \ {h})
            /\ Cardinality(Passed(m) \ {h}) = Cardinality(Passed(m)) - 1
        BY <3>2, <3>3, FS_RemoveElement
      <3>6. /\ Cardinality(RecentProbes(m)') =< Cardinality(RecentProbes(m)) + 1
            /\ Cardinality(RecentProbes(m)') \in Nat
        <4>1. /\ Cardinality(RecentProbes(m)')
                    =< Cardinality(RecentProbes(m) \cup {Len(cmds) + 1})
              /\ IsFiniteSet(RecentProbes(m)')
          BY <3>1, <3>4, FS_Subset
        <4>2. /\ Cardinality(RecentProbes(m)') \in Nat
              /\ Cardinality(RecentProbes(m) \cup {Len(cmds) + 1}) \in Nat
          BY <3>4, <4>1, FS_CardinalityType
        <4>. QED
          BY <3>3, <3>4, <4>1, <4>2
      <3>7. /\ Cardinality(Passed(m)') =< Cardinality(Passed(m)) - 1
            /\ Cardinality(Passed(m)') \in Nat
        BY <3>2, <3>5, FS_Subset, FS_CardinalityType
      <3>. QED
        BY <3>3, <3>6, <3>7 DEF RateInv
    <2>. QED
      BY <2>3, <2>4
  <1>7. ASSUME NEW h \in Handlers, NEW n \in Machines, CheckRate(h, n)
        PROVE  Cardinality(RecentProbes(m)') + Cardinality(Passed(m)')
                  =< ProbeMax + Cardinality(Handlers) - 1
    <2>1. UNCHANGED <<cmds, aged>>
      BY <1>7 DEF CheckRate
    <2>2. CASE Cardinality(RecentProbes(n)) >= ProbeMax \/ n # m
      <3>1. Passed(m)' \subseteq Passed(m)
        BY <1>7, <2>2 DEF CheckRate, Passed, TypeOK, Actors
      <3>. QED
        BY <1>1, <2>1, <3>1
    <2>3. CASE ~(Cardinality(RecentProbes(n)) >= ProbeMax) /\ n = m
      <3>1. RecentProbes(m)' = RecentProbes(m)
        BY <2>1 DEF RecentProbes
      <3>2. /\ Cardinality(RecentProbes(m)) \in Nat
            /\ Cardinality(Handlers) \in Nat
        BY RateFinite
      <3>3. /\ Cardinality(Passed(m)') \in Nat
            /\ Cardinality(Passed(m)') =< Cardinality(Handlers)
        <4>1. Passed(m)' \subseteq Handlers
          BY DEF Passed
        <4>. QED
          BY <4>1, FS_Subset, FS_CardinalityType
      <3>. QED
        BY <2>3, <3>1, <3>2, <3>3
    <2>. QED
      BY <2>2, <2>3
  <1>8. ASSUME NEW h \in Actors, NEW l \in {"idle", "scope", "rate"},
               UNCHANGED <<cmds, aged>>, apc' = [apc EXCEPT ![h] = l],
               UNCHANGED cur \/ cur' = [cur EXCEPT ![h] = NoMachine]
        PROVE  Cardinality(RecentProbes(m)') + Cardinality(Passed(m)')
                  =< ProbeMax + Cardinality(Handlers) - 1
    <2>1. Passed(m)' \subseteq Passed(m)
      BY <1>8 DEF Passed, TypeOK, Actors
    <2>. QED
      BY <1>1, <1>8, <2>1
  <1>9. ASSUME NEW h \in Actors, StartScope(h) \/ HandlerFails(h)
        PROVE  Cardinality(RecentProbes(m)') + Cardinality(Passed(m)')
                  =< ProbeMax + Cardinality(Handlers) - 1
    BY <1>8, <1>9 DEF StartScope, HandlerFails
  <1>10. ASSUME NEW h \in Handlers, NEW ms, StartProbe(h, ms)
         PROVE  Cardinality(RecentProbes(m)') + Cardinality(Passed(m)')
                  =< ProbeMax + Cardinality(Handlers) - 1
    BY <1>8, <1>10 DEF StartProbe, Actors
  <1>11. CASE SetProbePolicy \/ TogglePullSchedule
    BY <1>1, <1>2, <1>11 DEF SetProbePolicy, TogglePullSchedule, console
  <1>12. CASE Console
    BY <1>4, <1>5, <1>6, <1>7, <1>9, <1>10, <1>11, <1>12 DEF Console, Actors
  <1>13. CASE Scheduler
    <2>1. Tick \in Actors
      BY DEF Actors
    <2>2. CASE StartTick
      BY <1>9, <2>1, <2>2 DEF StartTick
    <2>3. CASE MarkRun
      BY <1>8, <2>1, <2>3 DEF MarkRun
    <2>4. CASE MinuteComes \/ MinuteGoes
      BY <1>1, <1>2, <2>4 DEF MinuteComes, MinuteGoes, console
    <2>. QED
      BY <1>13, <2>2, <2>3, <2>4 DEF Scheduler
  <1>14. CASE LeaveWindow
    <2>1. RecentProbes(m)' \subseteq RecentProbes(m)
      BY <1>0, <1>14 DEF LeaveWindow, RecentProbes
    <2>. QED
      BY <1>2, <1>14, <2>1, RateShrinks DEF LeaveWindow, console
  <1>15. CASE RestartServer
    <2>1. Passed(m)' \subseteq Passed(m)
      BY <1>15 DEF RestartServer, Passed, Actors
    <2>. QED
      BY <1>1, <1>15, <2>1 DEF RestartServer
  <1>16. ASSUME NEW p \in Pollers, PollMark(p)
         PROVE  Cardinality(RecentProbes(m)') + Cardinality(Passed(m)')
                  =< ProbeMax + Cardinality(Handlers) - 1
    <2>1. UNCHANGED aged
      BY <1>16 DEF PollMark
    <2>2. \A c \in (aged + 1) .. Len(cmds) : c \in 1 .. Len(cmds)
      BY <1>0
    <2>3. RecentProbes(m)' = RecentProbes(m)
      BY <1>16, <2>1, <2>2, MarkEffect DEF RecentProbes
    <2>. QED
      BY <1>2, <1>16, <2>3, RateShrinks DEF PollMark, console
  <1>17. ASSUME NEW p \in Pollers,
                Server(p) \/ Agent(p) \/ GuiTimerSync(p) \/ UserScan(p)
                  \/ SyncDue(p) \/ SyncFails(p) \/ DropCommands(p),
                ~PollMark(p)
         PROVE  UNCHANGED <<cmds, aged, apc, cur>>
    BY <1>17 DEF Server, Agent, Deliver, PollSelect, PollNothing, DaemonTimer,
        DaemonPull, DaemonProbe, GuiProbe, GuiPull, Upload, SyncEnds, SyncFails,
        GuiTimerSync, UserScan, SyncDue, DropCommands, console
  <1>. QED
    BY <1>1, <1>2, <1>3, <1>12, <1>13, <1>14, <1>15, <1>16, <1>17 DEF Next

LEMMA InitRate == Init => RateInv
  <1>. SUFFICES ASSUME Init, NEW m \in Machines
                PROVE  Cardinality(RecentProbes(m)) + Cardinality(Passed(m))
                          =< ProbeMax + Cardinality(Handlers) - 1
    BY DEF RateInv
  <1>1. RecentProbes(m) = {} /\ Passed(m) = {}
    <2>1. Len(cmds) = 0 /\ aged = 0
      BY DEF Init
    <2>2. RecentProbes(m) = {}
      BY <2>1 DEF RecentProbes
    <2>3. Passed(m) = {}
      BY DEF Init, Passed, Actors
    <2>. QED
      BY <2>2, <2>3
  <1>2. Cardinality(Handlers) \in Nat \ {0}
    BY InitType, RateFinite
  <1>. QED
    BY <1>1, <1>2, FS_EmptySet

\* The rate limit of probes: with n handlers no machine ever has more than n - 1
\* probes above the limit in the window, for any limit, machines and handlers.
THEOREM ProbesBounded == Spec => []ProbeRateBounded
  <1>1. Spec => [](TypeOK /\ RateInv)
    <2>1. Init => TypeOK /\ RateInv
      BY InitType, InitRate
    <2>2. TypeOK /\ RateInv /\ [Next]_vars => (TypeOK /\ RateInv)'
      BY NextType, RateStep
    <2>. QED
      BY <2>1, <2>2, PTL DEF Spec
  <1>2. TypeOK /\ RateInv => ProbeRateBounded
    <2>. SUFFICES ASSUME TypeOK, RateInv, NEW m \in Machines
                  PROVE  Cardinality(RecentProbes(m))
                            =< ProbeMax + Cardinality(Handlers) - 1
      BY DEF ProbeRateBounded
    <2>. QED
      BY RateFinite DEF RateInv
  <1>. QED
    BY <1>1, <1>2, PTL

-----------------------------------------------------------------------------
(* The schedule.                                                             *)

\* What is left of the minute's one pull: a tick that is about to insert has
\* seen last_run_at unset, and while it is unset and no tick runs, every pull
\* queued so far lost its UPDATE of last_run_at to a failure.
ScheduleInv ==
    /\ fired =< 1 + faults
    /\ apc[Tick] = "scope" => fired =< faults
    /\ apc[Tick] = "idle" /\ ~ran => fired =< faults

LEMMA InitSchedule == Init => ScheduleInv
  BY DEF Init, ScheduleInv, Actors

LEMMA ScheduleStep == TypeOK /\ ScheduleInv /\ [Next]_vars => ScheduleInv'
  <1>. SUFFICES ASSUME TypeOK, ScheduleInv, [Next]_vars PROVE ScheduleInv'
    OBVIOUS
  <1>0. fired \in Nat /\ faults \in Nat /\ Tick \in Actors /\ Handlers \subseteq Actors
    BY DEF TypeOK, Actors
  <1>1. ASSUME UNCHANGED <<fired, faults, ran>>, apc'[Tick] = apc[Tick]
        PROVE  ScheduleInv'
    BY <1>1 DEF ScheduleInv
  <1>2. CASE UNCHANGED vars
    BY <1>1, <1>2 DEF vars, clock, console
  <1>3. ASSUME NEW h \in Handlers, NEW m, NEW ms,
               StartScope(h) \/ StartProbe(h, ms) \/ CheckRate(h, m) \/ InsertProbe(h)
        PROVE  ScheduleInv'
    <2>1. UNCHANGED <<fired, faults, ran>>
      BY <1>3 DEF StartScope, StartProbe, CheckRate, InsertProbe, clock
    <2>2. h # Tick
      OBVIOUS
    <2>3. apc'[Tick] = apc[Tick]
      BY <1>0, <1>3, <2>2 DEF StartScope, StartProbe, CheckRate, InsertProbe, TypeOK
    <2>. QED
      BY <1>1, <2>1, <2>3
  <1>4. ASSUME NEW h \in Actors, InsertScope(h) PROVE ScheduleInv'
    <2>1. CASE h = Tick
      BY <1>0, <1>4, <2>1 DEF InsertScope, ScheduleInv, TypeOK
    <2>2. CASE h # Tick
      BY <1>0, <1>1, <1>4, <2>2 DEF InsertScope, TypeOK
    <2>. QED
      BY <2>1, <2>2
  <1>5. ASSUME NEW h \in Actors, HandlerFails(h) PROVE ScheduleInv'
    BY <1>0, <1>5 DEF HandlerFails, Fault, ScheduleInv, TypeOK, clock
  <1>6. ASSUME NEW m \in Machines, PullMachine(m) PROVE ScheduleInv'
    BY <1>1, <1>6 DEF PullMachine, clock, console
  <1>7. CASE SetProbePolicy \/ TogglePullSchedule \/ LeaveWindow
    BY <1>1, <1>7 DEF SetProbePolicy, TogglePullSchedule, LeaveWindow, clock, console
  <1>8. CASE StartTick
    BY <1>0, <1>8 DEF StartTick, StartScope, ScheduleInv, TypeOK, clock
  <1>9. CASE MarkRun
    BY <1>0, <1>9 DEF MarkRun, ScheduleInv, TypeOK
  <1>10. CASE MinuteComes \/ MinuteGoes
    BY <1>0, <1>10 DEF MinuteComes, MinuteGoes, ScheduleInv, console
  <1>11. CASE RestartServer
    BY <1>0, <1>11 DEF RestartServer, Fault, ScheduleInv, clock
  <1>12. ASSUME NEW p \in Pollers,
                Server(p) \/ Agent(p) \/ GuiTimerSync(p) \/ UserScan(p)
                  \/ SyncDue(p) \/ SyncFails(p) \/ DropCommands(p)
         PROVE  UNCHANGED <<fired, ran, apc>> /\ faults' \in {faults, faults + 1}
    BY <1>12 DEF Server, Agent, PollMark, Deliver, PollSelect, PollNothing,
        DaemonTimer, DaemonPull, DaemonProbe, GuiProbe, GuiPull, Upload, SyncEnds,
        SyncFails, GuiTimerSync, UserScan, SyncDue, DropCommands, Fault, clock,
        console
  <1>13. ASSUME UNCHANGED <<fired, ran, apc>>, faults' \in {faults, faults + 1}
         PROVE  ScheduleInv'
    <2>1. faults =< faults' /\ faults' \in Nat
      BY <1>0, <1>13
    <2>2. fired' = fired /\ ran' = ran /\ apc' = apc
      BY <1>13
    <2>3. ASSUME NEW i \in Nat, NEW j \in Nat, NEW k \in Nat, i =< j
          PROVE  (k =< i => k =< j) /\ (k =< 1 + i => k =< 1 + j)
      BY <2>3
    <2>4. (fired =< faults => fired' =< faults')
             /\ (fired =< 1 + faults => fired' =< 1 + faults')
      BY <1>0, <2>1, <2>2, <2>3
    <2>. QED
      BY <2>2, <2>4 DEF ScheduleInv
  <1>14. CASE Console
    BY <1>3, <1>4, <1>5, <1>6, <1>7, <1>14 DEF Console
  <1>15. CASE Scheduler
    BY <1>8, <1>9, <1>10, <1>15 DEF Scheduler
  <1>. QED
    BY <1>2, <1>7, <1>11, <1>12, <1>13, <1>14, <1>15 DEF Next

\* last_run_at does its work: however often the tick comes within the minute, the
\* pulls of a schedule are queued once, and again only after a failure that hit
\* the tick between the INSERT and the UPDATE.
THEOREM FiresOnce == Spec => []ScheduleFiresOnce
  <1>1. TypeOK /\ ScheduleInv /\ [Next]_vars => (TypeOK /\ ScheduleInv)'
    BY NextType, ScheduleStep
  <1>2. Init => TypeOK /\ ScheduleInv
    BY InitType, InitSchedule
  <1>3. TypeOK /\ ScheduleInv => ScheduleFiresOnce
    BY DEF ScheduleInv, ScheduleFiresOnce
  <1>. QED
    BY <1>1, <1>2, <1>3, PTL DEF Spec
-----------------------------------------------------------------------------
(***************************************************************************)
(* What becomes of a command that has left the queue.  PullsServed, that a  *)
(* pull is followed by an upload, is a liveness property, beyond the        *)
(* prover; what it rests on is not: between the queue and the upload a pull *)
(* is always in some poller's hands, and each way to lose it is known.      *)
(***************************************************************************)

\* Command c is in the queue, or a poller of its machine has it to do, or is
\* uploading a scan that began after c was queued.
Carried(c) ==
    \/ cmds[c].status = "pending"
    \/ \E p \in Pollers : /\ HostOf[p] = cmds[c].machine
                          /\ c \in got[p] \/ asof[p] >= c

\* The GUI gives up the pulls it has fetched while the user's scan runs.
Dropped(c) ==
    \E p \in Guis : pc[p] = "work" /\ scanning[p] /\ c \in got[p]

PullsKept ==
    [][\A c \in 1 .. Len(cmds) :
          (~IsProbe(c) /\ Carried(c) /\ ~Carried(c)')
              => \/ served'[cmds[c].machine] >= c
                 \/ faults' = faults + 1
                 \/ Dropped(c)]_vars

\* A poller holds commands of its machine, none while it is idle and some while
\* it works, and works on what it was given.
HeldBy(p) ==
    /\ pc[p] \in {"idle", "timer", "daily"} => got[p] = {}
    /\ pc[p] \in {"selected", "marked", "work"} => got[p] # {}
    /\ pc[p] \in {"work", "upload"} => \A c \in got[p] : received[p][c] # 0
    /\ \A c \in got[p] : cmds[c].machine = HostOf[p]

HeldInv == \A p \in Pollers : HeldBy(p)

\* The console, the schedule and the rate window only add commands.
LEMMA ServerShape ==
    ASSUME TypeOK, Console \/ Scheduler \/ LeaveWindow
    PROVE  /\ UNCHANGED <<agents, inventory, served>>
           /\ cmds' = cmds \/ Grow
  <1>1. ASSUME NEW m \in Machines, PullMachine(m)
        PROVE  UNCHANGED <<agents, inventory, served>> /\ Grow
    BY <1>1, AppendGrows DEF PullMachine, agents
  <1>2. ASSUME NEW h \in Handlers, InsertProbe(h)
        PROVE  UNCHANGED <<agents, inventory, served>> /\ Grow
    <2>1. cur[h] \in Machines
      BY <1>2 DEF InsertProbe, TypeOK, Actors
    <2>. QED
      BY <1>2, <2>1, AppendGrows DEF InsertProbe, agents
  <1>3. ASSUME NEW h \in Actors, InsertScope(h)
        PROVE  UNCHANGED <<agents, inventory, served>> /\ Grow
    BY <1>3, ScopeGrows DEF InsertScope
  <1>4. ASSUME NEW h \in Actors,
               StartScope(h) \/ HandlerFails(h)
        PROVE  UNCHANGED <<agents, inventory, served, cmds>>
    BY <1>4 DEF StartScope, HandlerFails
  <1>5. ASSUME NEW h \in Handlers, NEW ms, StartProbe(h, ms)
        PROVE  UNCHANGED <<agents, inventory, served, cmds>>
    BY <1>5 DEF StartProbe
  <1>6. ASSUME NEW h \in Handlers, NEW m, CheckRate(h, m)
        PROVE  UNCHANGED <<agents, inventory, served, cmds>>
    BY <1>6 DEF CheckRate
  <1>7. ASSUME SetProbePolicy \/ TogglePullSchedule \/ LeaveWindow
                  \/ MarkRun \/ MinuteComes \/ MinuteGoes
        PROVE  UNCHANGED <<agents, inventory, served, cmds>>
    BY <1>7 DEF SetProbePolicy, TogglePullSchedule, LeaveWindow, MarkRun,
                MinuteComes, MinuteGoes
  <1>8. CASE Console
    BY <1>8, <1>1, <1>2, <1>3, <1>4, <1>5, <1>6, <1>7 DEF Console, Actors
  <1>9. CASE Scheduler
    BY <1>9, <1>4, <1>7 DEF Scheduler, StartTick, Actors
  <1>. QED
    BY <1>7, <1>8, <1>9

\* The steps of a poller, and what is common to them: what the others hold is
\* theirs, and no command changes its machine.
PollerStep(p) ==
    \/ Server(p) \/ Agent(p) \/ GuiTimerSync(p) \/ UserScan(p)
    \/ SyncDue(p) \/ SyncFails(p) \/ DropCommands(p)

OwnStep(p) ==
    /\ \A q \in Pollers : q # p =>
          /\ pc'[q] = pc[q] /\ got'[q] = got[q] /\ asof'[q] = asof[q]
          /\ received'[q] = received[q]
    /\ \A c \in 1 .. Len(cmds) : /\ cmds'[c].machine = cmds[c].machine
                                 /\ cmds'[c].kind = cmds[c].kind

LEMMA PollerOwnStep ==
    ASSUME TypeOK, NEW p \in Pollers, PollerStep(p)
    PROVE  OwnStep(p)
  <1>1. CASE PollMark(p)
    BY <1>1, MarkEffect DEF PollMark, OwnStep, TypeOK
  <1>2. CASE Deliver(p) \/ PollSelect(p) \/ PollNothing(p)
    BY <1>2 DEF Deliver, PollSelect, PollNothing, OwnStep, TypeOK
  <1>3. CASE DaemonPull(p) \/ GuiPull(p) \/ GuiTimerSync(p) \/ DaemonTimer(p)
    BY <1>3 DEF DaemonPull, GuiPull, GuiTimerSync, DaemonTimer, BeginScan,
                OwnStep, TypeOK
  <1>4. CASE DaemonProbe(p) \/ GuiProbe(p)
    BY <1>4 DEF DaemonProbe, GuiProbe, OwnStep, TypeOK
  <1>5. CASE Upload(p) \/ SyncFails(p)
    BY <1>5 DEF Upload, SyncFails, SyncEnds, OwnStep, TypeOK
  <1>6. CASE UserScan(p) \/ SyncDue(p) \/ DropCommands(p)
    BY <1>6 DEF UserScan, SyncDue, DropCommands, OwnStep, TypeOK
  <1>. QED
    BY <1>1, <1>2, <1>3, <1>4, <1>5, <1>6 DEF PollerStep, Server, Agent

\* The cases of a step.
LEMMA StepCases ==
    ASSUME TypeOK, [Next]_vars
    PROVE  \/ UNCHANGED <<agents, inventory, served, faults>> /\ cmds' = cmds
           \/ UNCHANGED <<agents, inventory, served>> /\ (cmds' = cmds \/ Grow)
           \/ RestartServer
           \/ \E p \in Pollers : PollerStep(p)
  BY ServerShape DEF Next, vars, PollerStep

LEMMA HeldStep ==
    ASSUME TypeOK, HeldInv, [Next]_vars
    PROVE  HeldInv'
  <1>0. /\ cmds \in Seq(Command) /\ Len(cmds) \in Nat
        /\ \A p \in Pollers : got[p] \subseteq 1 .. Len(cmds)
    BY GotRange
  <1>1. CASE UNCHANGED agents /\ cmds' = cmds
    BY <1>1 DEF HeldInv, HeldBy, agents
  <1>2. CASE UNCHANGED agents /\ Grow
    BY <1>0, <1>2 DEF HeldInv, HeldBy, agents, Grow
  <1>3. CASE RestartServer
    <2>1. ASSUME NEW p \in Pollers PROVE HeldBy(p)'
      <3>1. HeldBy(p)
        BY DEF HeldInv
      <3>2. /\ pc'[p] = IF pc[p] \in {"selected", "marked"} THEN "idle" ELSE pc[p]
            /\ got'[p] = IF pc[p] \in {"selected", "marked"} THEN {} ELSE got[p]
            /\ UNCHANGED <<cmds, received>>
        BY <1>3 DEF RestartServer
      <3>. QED
        BY <3>1, <3>2 DEF HeldBy
    <2>. QED
      BY <2>1 DEF HeldInv
  <1>4. ASSUME NEW p \in Pollers, PollerStep(p) PROVE HeldInv'
    <2>1. OwnStep(p)
      BY <1>4, PollerOwnStep
    <2>2. ASSUME NEW q \in Pollers, q # p PROVE HeldBy(q)'
      BY <1>0, <2>1, <2>2 DEF HeldInv, HeldBy, OwnStep
    <2>3. HeldBy(p)'
      <3>. DEFINE m == HostOf[p]
      <3>1. HeldBy(p)
        BY DEF HeldInv
      <3>2. \A c \in got[p] : cmds'[c].machine = m
        BY <1>0, <2>1, <3>1 DEF OwnStep, HeldBy
      <3>3. CASE PollSelect(p)
        <4>1. /\ pc'[p] = "selected" /\ got'[p] = Pending(m) /\ got'[p] # {}
              /\ cmds' = cmds
          BY <3>3 DEF PollSelect, TypeOK
        <4>. QED
          BY <4>1 DEF HeldBy, Pending
      <3>4. CASE PollNothing(p) \/ PollMark(p)
        <4>1. /\ UNCHANGED <<got, received>>
              /\ \/ pc'[p] \in {"idle", "timer"} /\ pc[p] = "idle"
                 \/ pc'[p] = "marked" /\ pc[p] = "selected"
          BY <3>4 DEF PollNothing, PollMark, Label, TypeOK
        <4>. QED
          BY <3>1, <3>2, <4>1 DEF HeldBy
      <3>5. CASE Deliver(p)
        <4>1. /\ pc[p] = "marked" /\ pc'[p] = "work" /\ got' = got
              /\ \A c \in got[p] : received'[p][c] = received[p][c] + 1
                                   /\ received[p][c] \in Nat
          BY <3>5, GotRange DEF Deliver, TypeOK
        <4>. QED
          BY <3>1, <3>2, <4>1 DEF HeldBy
      <3>6. ASSUME received' = received, pc[p] = "work", got'[p] \subseteq got[p],
                   \/ pc'[p] = "upload"
                   \/ pc'[p] = Label(p, got'[p])
                   \/ got'[p] = {} /\ pc'[p] = "idle"
            PROVE  HeldBy(p)'
        BY <3>1, <3>2, <3>6 DEF HeldBy, Label
      <3>7. CASE DaemonPull(p)
        <4>1. got'[p] = got[p] \ {Least(got[p])} /\ pc'[p] = "upload"
          BY <3>7 DEF DaemonPull, BeginScan, TypeOK
        <4>. QED
          BY <3>6, <3>7, <4>1 DEF DaemonPull
      <3>8. CASE DaemonProbe(p)
        <4>1. /\ got'[p] = got[p] \ {Least(got[p])}
              /\ pc'[p] = Label(p, got[p] \ {Least(got[p])})
          BY <3>8 DEF DaemonProbe, TypeOK
        <4>. QED
          BY <3>6, <3>8, <4>1 DEF DaemonProbe
      <3>9. CASE GuiProbe(p)
        <4>1. /\ got'[p] = {c \in got[p] : ~IsProbe(c)}
              /\ pc'[p] = Label(p, {c \in got[p] : ~IsProbe(c)})
          BY <3>9 DEF GuiProbe, TypeOK
        <4>. QED
          BY <3>6, <3>9, <4>1 DEF GuiProbe
      <3>10. CASE GuiPull(p)
        <4>1. got'[p] = {} /\ pc'[p] \in {"idle", "upload"}
          BY <3>10 DEF GuiPull, BeginScan, TypeOK
        <4>. QED
          BY <3>6, <3>10, <4>1 DEF GuiPull
      <3>11. CASE GuiTimerSync(p) \/ DaemonTimer(p)
        <4>1. /\ pc[p] \in {"idle", "timer"} /\ UNCHANGED received
              /\ pc'[p] \in {"upload", "daily", "idle"}
              /\ got'[p] \in {{}, got[p]}
          BY <3>11 DEF GuiTimerSync, DaemonTimer, BeginScan, TypeOK
        <4>. QED
          BY <3>1, <4>1 DEF HeldBy
      <3>12. CASE UserScan(p) \/ SyncDue(p)
        <4>1. UNCHANGED <<pc, got, received>>
          BY <3>12 DEF UserScan, SyncDue
        <4>. QED
          BY <3>1, <3>2, <4>1 DEF HeldBy
      <3>13. CASE Upload(p) \/ SyncFails(p)
        <4>1. /\ pc[p] \in {"upload", "daily"} /\ UNCHANGED <<got, received>>
              /\ pc'[p] = IF pc[p] = "daily" THEN "idle" ELSE Label(p, got[p])
          BY <3>13 DEF Upload, SyncFails, SyncEnds, TypeOK
        <4>. QED
          BY <3>1, <3>2, <4>1 DEF HeldBy, Label
      <3>14. CASE DropCommands(p)
        <4>1. pc'[p] \in {"idle", "timer"} /\ got'[p] = {} /\ cmds' = cmds
          BY <3>14 DEF DropCommands, Label, TypeOK
        <4>. QED
          BY <4>1 DEF HeldBy
      <3>. QED
        BY <1>4, <3>3, <3>4, <3>5, <3>7, <3>8, <3>9, <3>10, <3>11, <3>12, <3>13,
           <3>14 DEF PollerStep, Server, Agent
    <2>. QED
      BY <2>2, <2>3 DEF HeldInv
  <1>. QED
    BY <1>1, <1>2, <1>3, <1>4, StepCases

\* A pull that has left the queue is not lost: it stays in the hands of a poller
\* of its machine until an upload serves it, unless a failure loses it or the
\* GUI gives it up because the user is scanning.
THEOREM PullsAreKept == Spec => PullsKept
  <1>1. Init => HeldInv
    BY DEF Init, HeldInv, HeldBy
  <1>2. TypeOK /\ HeldInv /\ [Next]_vars =>
          [\A c \in 1 .. Len(cmds) :
             (~IsProbe(c) /\ Carried(c) /\ ~Carried(c)')
                 => \/ served'[cmds[c].machine] >= c
                    \/ faults' = faults + 1
                    \/ Dropped(c)]_vars
    <2>. SUFFICES ASSUME TypeOK, HeldInv, Next, NEW c \in 1 .. Len(cmds),
                         ~IsProbe(c), Carried(c), ~Carried(c)',
                         faults' # faults + 1, ~Dropped(c)
                  PROVE  served'[cmds[c].machine] >= c
      OBVIOUS
    <2>. DEFINE m == cmds[c].machine
                Has(p) == HostOf[p] = m /\ (c \in got[p] \/ asof[p] >= c)
    <2>0. /\ cmds \in Seq(Command) /\ Len(cmds) \in Nat /\ m \in Machines
          /\ c \in Nat
      BY GotRange DEF Command
    <2>1. ASSUME UNCHANGED agents, cmds'[c] = cmds[c] PROVE FALSE
      BY <2>1 DEF Carried, agents
    <2>2. ~RestartServer
      BY DEF RestartServer, Fault
    <2>3. PICK p \in Pollers : PollerStep(p)
      <3>1. ASSUME Grow PROVE cmds'[c] = cmds[c]
        BY <3>1 DEF Grow
      <3>. QED
        BY <2>1, <2>2, <3>1, StepCases
    <2>4. OwnStep(p) /\ cmds'[c].machine = m
      BY <2>3, PollerOwnStep DEF OwnStep
    <2>5. \A q \in Pollers : ~(HostOf[q] = m /\ (c \in got'[q] \/ asof'[q] >= c))
      BY <2>4 DEF Carried
    <2>6. cmds[c].status # "pending"
      <3>1. ASSUME cmds[c].status = "pending" PROVE FALSE
        <4>1. cmds'[c].status # "pending"
          BY DEF Carried
        <4>2. ASSUME cmds' = cmds PROVE FALSE
          BY <3>1, <4>1, <4>2
        <4>3. PollMark(p)
          BY <2>3, <4>2 DEF PollerStep, Server, Agent, Deliver, PollSelect,
             PollNothing, DaemonTimer, DaemonPull, DaemonProbe, GuiProbe, GuiPull,
             Upload, SyncEnds, GuiTimerSync, UserScan, SyncDue, SyncFails,
             DropCommands
        <4>4. c \in got[p] /\ got' = got
          BY <3>1, <4>1, <4>3, MarkEffect DEF PollMark
        <4>. QED
          BY <2>5, <4>4 DEF HeldInv, HeldBy
      <3>. QED
        BY <3>1
    <2>7. Has(p)
      BY <2>4, <2>5, <2>6 DEF Carried, OwnStep
    <2>8. HeldBy(p)
      BY DEF HeldInv
    <2>9. CASE Server(p) \/ PollSelect(p) \/ PollNothing(p) \/ UserScan(p)
                 \/ SyncDue(p)
      <3>1. asof' = asof /\ (got' = got \/ got[p] = {})
        BY <2>8, <2>9 DEF Server, PollMark, Deliver, PollSelect, PollNothing,
                          UserScan, SyncDue, HeldBy
      <3>. QED
        BY <2>5, <2>7, <3>1
    <2>10. ASSUME asof'[p] = Len(cmds) PROVE FALSE
      BY <2>0, <2>5, <2>7, <2>10
    <2>11. CASE DaemonPull(p) \/ GuiTimerSync(p)
      BY <2>10, <2>11 DEF DaemonPull, GuiTimerSync, BeginScan, TypeOK
    <2>12. CASE DaemonTimer(p)
      BY <2>5, <2>7, <2>10, <2>12 DEF DaemonTimer, BeginScan, TypeOK
    <2>13. CASE DaemonProbe(p) \/ GuiProbe(p)
      <3>1. asof' = asof /\ (c \in got[p] => c \in got'[p])
        BY <2>13 DEF DaemonProbe, GuiProbe, TypeOK
      <3>. QED
        BY <2>5, <2>7, <3>1
    <2>14. CASE GuiPull(p)
      <3>1. ~scanning[p]
        <4>1. ASSUME scanning[p] PROVE asof' = asof /\ c \notin got[p]
          BY <2>14, <4>1 DEF GuiPull, Dropped
        <4>. QED
          BY <2>5, <2>7, <4>1
      <3>. QED
        BY <2>10, <2>14, <3>1 DEF GuiPull, BeginScan, TypeOK
    <2>15. ~SyncFails(p) /\ ~DropCommands(p)
      BY DEF SyncFails, DropCommands, Fault
    <2>16. CASE Upload(p)
      <3>1. got' = got
        BY <2>16 DEF Upload, SyncEnds
      <3>2. asof[p] >= c /\ HostOf[p] = m
        BY <2>5, <2>7, <3>1
      <3>3. /\ asof[p] \in Int /\ served[m] \in Int
            /\ served'[m] = IF asof[p] > served[m] THEN asof[p] ELSE served[m]
        BY <2>0, <2>16, <3>2 DEF Upload, TypeOK
      <3>. QED
        BY <2>0, <3>2, <3>3
    <2>. QED
      BY <2>3, <2>9, <2>11, <2>12, <2>13, <2>14, <2>15, <2>16
         DEF PollerStep, Agent
  <1>3. TypeOK /\ HeldInv /\ [Next]_vars => (TypeOK /\ HeldInv)'
    BY NextType, HeldStep
  <1>. QED
    BY <1>1, <1>2, <1>3, InitType, PTL DEF Spec, PullsKept
-----------------------------------------------------------------------------
(***************************************************************************)
(* What overwrites a machine's inventory.  A probe's findings replace the   *)
(* stored scan, which the code says they do not; nothing else does.         *)
(***************************************************************************)

\* A stored scan gives way only to the findings of a probe that a poller of the
\* machine was handed.
ScansGoByProbes ==
    [][\A m \in Machines : (inventory[m] = "scan" /\ inventory'[m] # "scan") =>
          \E p \in Pollers : \E c \in got[p] :
              HostOf[p] = m /\ IsProbe(c) /\ received[p][c] # 0]_vars

\* The daemon's next command is one that it has.
Before == {ss \in Nat \X Nat : ss[1] < ss[2]}

LEMMA LeastIsIn ==
    ASSUME NEW S \in SUBSET Nat, S # {}
    PROVE  Least(S) \in S
  <1>1. IsWellFoundedOn(Before, Nat)
    BY NatLessThanWellFounded DEF OpToRel, Before
  <1>2. PICK c \in S : \A d \in S : ~(<<d, c>> \in Before)
    BY <1>1, WFMin
  <1>3. ASSUME NEW d \in S PROVE c =< d
    <2>1. <<d, c>> \in Nat \X Nat
      OBVIOUS
    <2>2. ~(<<d, c>>[1] < <<d, c>>[2])
      BY <1>2, <2>1 DEF Before
    <2>. QED
      BY <2>2
  <1>. QED
    BY <1>3 DEF Least

\* The extent of what the run commands_probe finds: an inventory that came from a
\* scan is replaced by less only when a delivered probe answers.  No pull, no
\* schedule, no failure and no restart costs a machine its scan.
THEOREM ScansLostToProbesOnly == Spec => ScansGoByProbes
  <1>1. Init => HeldInv
    BY DEF Init, HeldInv, HeldBy
  <1>2. TypeOK /\ HeldInv /\ [Next]_vars =>
          [\A m \in Machines : (inventory[m] = "scan" /\ inventory'[m] # "scan") =>
             \E p \in Pollers : \E c \in got[p] :
                 HostOf[p] = m /\ IsProbe(c) /\ received[p][c] # 0]_vars
    <2>. SUFFICES ASSUME TypeOK, HeldInv, Next, NEW m \in Machines,
                         inventory[m] = "scan", inventory'[m] # "scan"
                  PROVE  \E p \in Pollers : \E c \in got[p] :
                            HostOf[p] = m /\ IsProbe(c) /\ received[p][c] # 0
      OBVIOUS
    <2>1. PICK p \in Pollers : PollerStep(p)
      BY StepCases DEF RestartServer
    <2>2. HeldBy(p) /\ got[p] \subseteq Nat
      BY GotRange DEF HeldInv
    <2>3. CASE DaemonProbe(p)
      <3>1. /\ pc[p] = "work" /\ IsProbe(Least(got[p]))
            /\ HostOf[p] = m
        BY <2>3 DEF DaemonProbe, TypeOK
      <3>2. Least(got[p]) \in got[p]
        BY <2>2, <3>1, LeastIsIn DEF HeldBy
      <3>. QED
        BY <2>2, <3>1, <3>2 DEF HeldBy
    <2>4. CASE GuiProbe(p)
      <3>1. pc[p] = "work" /\ HostOf[p] = m /\ \E c \in got[p] : IsProbe(c)
        BY <2>4 DEF GuiProbe, TypeOK
      <3>. QED
        BY <2>2, <3>1 DEF HeldBy
    <2>5. CASE Upload(p)
      BY <2>5 DEF Upload, TypeOK
    <2>. QED
      BY <2>1, <2>3, <2>4, <2>5
         DEF PollerStep, Server, Agent, PollMark, Deliver, PollSelect, PollNothing,
             DaemonTimer, DaemonPull, GuiPull, GuiTimerSync, UserScan, SyncDue,
             SyncFails, DropCommands
  <1>3. TypeOK /\ HeldInv /\ [Next]_vars => (TypeOK /\ HeldInv)'
    BY NextType, HeldStep
  <1>. QED
    BY <1>1, <1>2, <1>3, InitType, PTL DEF Spec, ScansGoByProbes
-----------------------------------------------------------------------------
(***************************************************************************)
(* Why a daemon polls again, which PendingFetched and PullsServed rest on:  *)
(* what is left of its round shrinks with its every step, whether the step  *)
(* succeeds or fails, and nobody else's makes it grow.                      *)
(***************************************************************************)

\* The steps that p has, at most, until it waits for its next poll.
Left(p) ==
    LET n == Cardinality(got[p])
    IN  CASE pc[p] = "idle"     -> 0
          [] pc[p] = "daily"    -> 1
          [] pc[p] = "timer"    -> 2
          [] pc[p] = "work"     -> 2 * n + 2
          [] pc[p] = "upload"   -> 2 * n + 3
          [] pc[p] = "marked"   -> 2 * MaxCommands + 4
          [] pc[p] = "selected" -> 2 * MaxCommands + 5

\* While a daemon is on its round, every step brings it nearer to its end or leaves
\* it where it is.
DaemonsComeRound ==
    [][\A p \in Daemons : pc[p] # "idle" =>
          Left(p)' < Left(p) \/ UNCHANGED <<pc[p], got[p]>>]_vars

LEMMA GotCount ==
    ASSUME TypeOK, NEW p \in Pollers
    PROVE  /\ IsFiniteSet(got[p]) /\ got[p] \subseteq Nat
           /\ Cardinality(got[p]) \in 0 .. MaxCommands
           /\ got[p] # {} => Cardinality(got[p]) >= 1
           /\ \A c \in got[p] :
                 Cardinality(got[p] \ {c}) = Cardinality(got[p]) - 1
           /\ Left(p) \in Nat
  <1>1. IsFiniteSet(1 .. MaxCommands) /\ Cardinality(1 .. MaxCommands) = MaxCommands
    BY FS_Interval
  <1>2. got[p] \subseteq 1 .. MaxCommands
    BY GotRange
  <1>3. IsFiniteSet(got[p]) /\ Cardinality(got[p]) =< MaxCommands
    BY <1>1, <1>2, FS_Subset
  <1>4. Cardinality(got[p]) \in 0 .. MaxCommands
    BY <1>3, FS_CardinalityType
  <1>5. got[p] # {} => Cardinality(got[p]) >= 1
    BY <1>3, <1>4, FS_EmptySet
  <1>6. \A c \in got[p] : Cardinality(got[p] \ {c}) = Cardinality(got[p]) - 1
    BY <1>3, FS_RemoveElement
  <1>7. Left(p) \in Nat
    <2>1. pc[p] \in {"idle", "selected", "marked", "work", "upload", "timer", "daily"}
      BY DEF TypeOK
    <2>2. /\ 2 * Cardinality(got[p]) + 2 \in Nat /\ 2 * Cardinality(got[p]) + 3 \in Nat
          /\ 2 * MaxCommands + 4 \in Nat /\ 2 * MaxCommands + 5 \in Nat
      BY <1>4
    <2>. QED
      BY <2>1, <2>2 DEF Left
  <1>. QED
    BY <1>2, <1>3, <1>4, <1>5, <1>6, <1>7

\* A daemon is never lost on its round: it comes back to its poll within as many
\* of its own steps as are left, however the commands, the scheduled sync, the
\* failures and the restarts fall.
THEOREM DaemonsPollAgain == Spec => DaemonsComeRound
  <1>1. Init => HeldInv
    BY DEF Init, HeldInv, HeldBy
  <1>2. TypeOK /\ HeldInv /\ [Next]_vars =>
          [\A p \in Daemons : pc[p] # "idle" =>
             Left(p)' < Left(p) \/ UNCHANGED <<pc[p], got[p]>>]_vars
    <2>. SUFFICES ASSUME TypeOK, HeldInv, Next, NEW p \in Daemons, pc[p] # "idle",
                         ~UNCHANGED <<pc[p], got[p]>>
                  PROVE  Left(p)' < Left(p)
      OBVIOUS
    <2>. DEFINE n == Cardinality(got[p])
    <2>0. p \in Pollers /\ p \notin Guis
      BY DEF Pollers
    <2>1. /\ n \in Nat /\ n =< MaxCommands /\ Left(p) \in Nat
          /\ got[p] # {} => n >= 1
      BY <2>0, GotCount
    <2>2. HeldBy(p)
      BY <2>0 DEF HeldInv
    <2>3. pc[p] \in {"selected", "marked", "work", "upload", "timer", "daily"}
      BY <2>0 DEF TypeOK
    <2>4. ASSUME pc'[p] = "idle" PROVE Left(p)' < Left(p)
      BY <2>1, <2>3, <2>4 DEF Left
    <2>5. CASE RestartServer
      BY <2>0, <2>4, <2>5 DEF RestartServer
    <2>6. ~UNCHANGED agents
      BY DEF agents
    <2>7. CASE PollerStep(p)
      <3>1. CASE PollMark(p)
        BY <2>0, <2>1, <3>1 DEF PollMark, Left, TypeOK
      <3>2. CASE Deliver(p)
        BY <2>0, <2>1, <3>2 DEF Deliver, Left, TypeOK
      <3>3. CASE DaemonTimer(p)
        BY <2>0, <2>1, <3>3 DEF DaemonTimer, BeginScan, Left, TypeOK
      <3>4. ASSUME pc[p] = "work"
            PROVE  Cardinality(got[p] \ {Least(got[p])}) = n - 1 /\ n >= 1
        BY <2>0, <2>1, <2>2, <3>4, GotCount, LeastIsIn DEF HeldBy
      <3>5. CASE DaemonPull(p)
        <4>1. /\ pc[p] = "work" /\ pc'[p] = "upload"
              /\ got'[p] = got[p] \ {Least(got[p])}
          BY <2>0, <3>5 DEF DaemonPull, BeginScan, TypeOK
        <4>. QED
          BY <2>1, <3>4, <4>1 DEF Left
      <3>6. CASE DaemonProbe(p)
        <4>1. /\ pc[p] = "work" /\ got'[p] = got[p] \ {Least(got[p])}
              /\ pc'[p] = "work" \/ pc'[p] = "timer"
          BY <2>0, <3>6 DEF DaemonProbe, Label, TypeOK
        <4>. QED
          BY <2>1, <3>4, <4>1 DEF Left
      <3>7. CASE Upload(p) \/ SyncFails(p)
        <4>1. /\ got'[p] = got[p]
              /\ \/ pc[p] = "daily" /\ pc'[p] = "idle"
                 \/ pc[p] = "upload" /\ pc'[p] \in {"work", "timer"}
          BY <2>0, <3>7 DEF Upload, SyncFails, SyncEnds, Label, TypeOK
        <4>2. CASE pc[p] = "upload" /\ pc'[p] \in {"work", "timer"}
          <5>1. Left(p) = 2 * n + 3 /\ (Left(p)' = 2 * n + 2 \/ Left(p)' = 2)
            BY <4>1, <4>2 DEF Left
          <5>. QED
            BY <2>1, <5>1
        <4>. QED
          BY <2>4, <4>1, <4>2
      <3>8. CASE DropCommands(p)
        <4>1. \/ pc[p] \in {"selected", "marked"} /\ pc'[p] = "timer"
              \/ pc'[p] = "idle"
          BY <2>0, <3>8 DEF DropCommands, Label, TypeOK
        <4>2. CASE pc[p] \in {"selected", "marked"} /\ pc'[p] = "timer"
          <5>1. Left(p)' = 2 /\ Left(p) >= 2 * MaxCommands + 4
            BY <4>2 DEF Left
          <5>. QED
            BY <2>1, <5>1
        <4>. QED
          BY <2>4, <4>1, <4>2
      <3>9. ~(\/ PollSelect(p) \/ PollNothing(p) \/ GuiProbe(p) \/ GuiPull(p)
              \/ GuiTimerSync(p) \/ UserScan(p) \/ SyncDue(p))
        BY <2>0 DEF PollSelect, PollNothing, GuiProbe, GuiPull, GuiTimerSync,
                    UserScan, SyncDue
      <3>. QED
        BY <2>7, <3>1, <3>2, <3>3, <3>5, <3>6, <3>7, <3>8, <3>9
           DEF PollerStep, Server, Agent
    <2>8. ASSUME NEW q \in Pollers, q # p, PollerStep(q) PROVE FALSE
      BY <2>0, <2>8, PollerOwnStep DEF OwnStep
    <2>. QED
      BY <2>5, <2>6, <2>7, <2>8, StepCases
  <1>3. TypeOK /\ HeldInv /\ [Next]_vars => (TypeOK /\ HeldInv)'
    BY NextType, HeldStep
  <1>. QED
    BY <1>1, <1>2, <1>3, InitType, PTL DEF Spec, DaemonsComeRound
=============================================================================
