---------------------------- MODULE CommandQueue ----------------------------
(***************************************************************************)
(* What the command queue of a fleet promises its agents, as an abstract   *)
(* specification that FleetCommands implements: a command that has been     *)
(* queued is handed to a poller at most once, and only after it has been    *)
(* taken off the queue, so that no later poll hands it out again.  It may   *)
(* be taken off and never handed out: delivery is at most once.             *)
(***************************************************************************)
EXTENDS Naturals

CONSTANTS Pollers, Commands

VARIABLES
    length,   \* commands 1 .. length have been queued
    taken,    \* those that are no longer pending
    handed    \* how often each poller has been given each command

vars == <<length, taken, handed>>

Init ==
    /\ length = 0
    /\ taken = {}
    /\ handed = [p \in Pollers |-> [c \in Commands |-> 0]]

Enqueue ==
    /\ length' \in Nat
    /\ length' > length
    /\ UNCHANGED <<taken, handed>>

Take ==
    /\ taken' \in SUBSET (1 .. length)
    /\ taken \subseteq taken'
    /\ UNCHANGED <<length, handed>>

Hand(p) ==
    /\ \E C \in SUBSET {c \in taken : handed[p][c] = 0} :
          handed' = [handed EXCEPT ![p] =
                       [c \in Commands |-> IF c \in C THEN 1 ELSE @[c]]]
    /\ UNCHANGED <<length, taken>>

Next == Enqueue \/ Take \/ \E p \in Pollers : Hand(p)

Spec == Init /\ [][Next]_vars
=============================================================================
