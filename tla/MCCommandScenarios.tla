------------------------- MODULE MCCommandScenarios -------------------------
(* One run of three scenarios, chosen at the start: two probe handlers, the  *)
(* kill switch and a daemon; the daily schedule, pulls by hand and a daemon; *)
(* pulls and probes for a daemon and a GUI on one machine.                   *)
EXTENDS MCFleetCommands

CONSTANTS h1, h2, daemon, gui

VARIABLE scenario

MCInit == Init /\ scenario \in {"probes", "schedule", "agents"}

Idle(h) == apc'[h] = "idle"
Silent(p) == pc'[p] = "idle" /\ ~scanning'[p]

\* SyncDue stays out of the first two, whose behaviours are then not fair: the
\* liveness properties are about the third.
Within ==
    CASE scenario = "probes" ->
            /\ Silent(gui) /\ ~due'[daemon] /\ Idle(Tick) /\ ~minute'
            /\ schedule' /\ apc'[h1] # "scope" /\ apc'[h2] # "scope"
            /\ \A m \in Machines : ~PullMachine(m)
      [] scenario = "schedule" ->
            /\ Silent(gui) /\ ~due'[daemon] /\ Idle(h1) /\ Idle(h2)
            /\ aged' = 0 /\ enabled'
      [] scenario = "agents" ->
            /\ Idle(h2) /\ Idle(Tick) /\ ~minute' /\ schedule' /\ enabled'
            /\ aged' = 0 /\ Len(cmds') =< 2

MCNext == Next /\ Within /\ UNCHANGED scenario

MCSpec == MCInit /\ [][MCNext]_<<vars, scenario>> /\ Fairness
=============================================================================
