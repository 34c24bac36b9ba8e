---------------------------- MODULE TurnLifecycle ----------------------------
(***************************************************************************)
(* What the store promises about every submitted turn: it is begun, grows  *)
(* while the answer streams, ends exactly once, and from then on neither   *)
(* its status nor its text changes until its conversation is erased.       *)
(*                                                                         *)
(* ChatTurn is shown to implement this specification.                      *)
(***************************************************************************)
EXTENDS Naturals

CONSTANT Turn

VARIABLES
  row,    \* what is stored of each turn
  text    \* how much of the answer is stored with it

vars == <<row, text>>

Ended == {"Completed", "Cancelled", "Failed"}
Open(t) == row[t] = "Open"

Init ==
  /\ row = [t \in Turn |-> "Absent"]
  /\ text = [t \in Turn |-> 0]

Begin(t) ==
  /\ row[t] = "Absent"
  /\ row' = [row EXCEPT ![t] = "Open"]
  /\ UNCHANGED text

Grow(t) ==
  /\ Open(t)
  /\ text'[t] > text[t]
  /\ text' = [text EXCEPT ![t] = text'[t]]
  /\ UNCHANGED row

\* The answer that ends a turn replaces the streamed text.
End(t) ==
  /\ Open(t)
  /\ row'[t] \in Ended
  /\ row' = [row EXCEPT ![t] = row'[t]]
  /\ text' = [text EXCEPT ![t] = text'[t]]

\* A later launch fails whatever an earlier one left open, all at once.
Interrupt ==
  /\ \E t \in Turn : Open(t)
  /\ row' = [t \in Turn |-> IF Open(t) THEN "Failed" ELSE row[t]]
  /\ text' = [t \in Turn |-> IF Open(t) THEN 0 ELSE text[t]]

\* Deleting a conversation erases its turns.
Erase ==
  LET T == {t \in Turn : row'[t] = "Erased"}
  IN /\ \E t \in T : row[t] # "Erased"
     /\ \A t \in T : row[t] # "Absent"
     /\ row' = [t \in Turn |-> IF t \in T THEN "Erased" ELSE row[t]]
     /\ text' = [t \in Turn |-> IF t \in T THEN 0 ELSE text[t]]

Next ==
  \/ \E t \in Turn : Begin(t) \/ Grow(t) \/ End(t)
  \/ Interrupt
  \/ Erase

Spec == Init /\ [][Next]_vars
=============================================================================
