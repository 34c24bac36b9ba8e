----------------------------- MODULE MCWorkspace -----------------------------
(* Workspace in instances small enough to enumerate.                         *)
EXTENDS Workspace
=============================================================================
