---------------------------- MODULE MCThreatGraph ----------------------------
(* Instances of ThreatGraph for TLC.                                         *)
EXTENDS ThreatGraph, TLC

CONSTANTS f1, f2

\* Always the same finding: what changes is only when it was read.
OneFinding == {<<f1>>}

\* Two findings, or one of them.
TwoFindings == {<<f1, f2>>, <<f1>>, <<f2>>}

\* Callers are alike.
Alike == Permutations(Callers)
=============================================================================
