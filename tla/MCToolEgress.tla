---------------------------- MODULE MCToolEgress ----------------------------
(* Small instances of ToolEgress for TLC.                                   *)
EXTENDS ToolEgress, TLC

\* No constant set has a distinguished element.  Used by the runs without
\* liveness properties only.
Symmetry ==
  Permutations(Launch) \cup Permutations(Turn) \cup Permutations(Body)
    \cup Permutations(Call) \cup Permutations(Receipt)
=============================================================================
