---------------------------- MODULE ReceiptLedger ----------------------------
(***************************************************************************)
(* What the tool-egress audit trail promises, body by body.                *)
(*                                                                         *)
(* A provider body that carries repository excerpts is first recorded,     *)
(* then possibly transmitted, then possibly answered; its record is closed *)
(* exactly once, and a closed record never contradicts the network: a      *)
(* Failed body was never transmitted and never will be, a Sent body was    *)
(* answered.  Everything else is OutcomeUnknown.                           *)
(*                                                                         *)
(* ToolEgress is shown to implement this specification.                    *)
(***************************************************************************)

CONSTANT Body

VARIABLES
  record,     \* what the ledger says of each body
  wire,       \* bodies of which bytes reached the network
  answered    \* bodies whose response headers came back

vars == <<record, wire, answered>>

Closed == {"Sent", "Failed", "OutcomeUnknown"}

Init ==
  /\ record = [b \in Body |-> "Unrecorded"]
  /\ wire = {}
  /\ answered = {}

Record(b) ==
  /\ record[b] = "Unrecorded"
  /\ record' = [record EXCEPT ![b] = "Prepared"]
  /\ UNCHANGED <<wire, answered>>

\* Only an open record may be transmitted: closing it Failed is final.
Transmit(b) ==
  /\ record[b] = "Prepared"
  /\ wire' = wire \cup {b}
  /\ UNCHANGED <<record, answered>>

\* One step closes every body of B the same way: the batch of one request, or
\* everything an earlier launch left open.
Close(B, s) ==
  /\ \A b \in B : record[b] = "Prepared"
  /\ s = "Failed" => B \cap wire = {}
  /\ s = "Sent" => B \subseteq answered'
  /\ record' = [b \in Body |-> IF b \in B THEN s ELSE record[b]]
  /\ wire' = wire

\* The response to b; its record may be closed in the same step.
Answer(b) ==
  /\ b \in wire
  /\ answered' = answered \cup {b}

Next ==
  \/ \E b \in Body : Record(b) \/ Transmit(b)
  \/ \E b \in Body : Answer(b) /\ UNCHANGED <<record, wire>>
  \/ \E b \in Body, s \in Closed : Answer(b) /\ Close({b}, s)
  \/ \E B \in SUBSET Body, s \in Closed : Close(B, s) /\ answered' = answered

Spec == Init /\ [][Next]_vars
=============================================================================
