----------------------------- MODULE MCChatTurn -----------------------------
(* Small instances of ChatTurn for TLC.                                     *)
EXTENDS ChatTurn, TLC

\* Used by the runs without liveness properties only.
Symmetry == Permutations(Turn)
=============================================================================
