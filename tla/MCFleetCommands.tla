--------------------------- MODULE MCFleetCommands ---------------------------
(* Instances of FleetCommands for TLC.                                       *)
EXTENDS FleetCommands, TLC

CONSTANTS m1, m2

\* Every poller runs on m1; m2 has none.
MCHostOf == [p \in Pollers |-> m1]
=============================================================================
