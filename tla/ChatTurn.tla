------------------------------ MODULE ChatTurn ------------------------------
(***************************************************************************)
(* One submitted question, from the composer to its stored answer.         *)
(*                                                                         *)
(* Actors: the UI thread (chat_app.rs), which begins turns, drains the     *)
(* event channel and writes every terminal state; one worker per turn,     *)
(* which runs the agent; one delta writer per worker (stream_store.rs),    *)
(* which appends the streamed text to the stored message; the process,     *)
(* which may die and be started again.  They meet in the event channel and *)
(* in the database (conversation.rs, db.rs).                               *)
(*                                                                         *)
(* The user may replace or delete the conversation under a running worker, *)
(* so several workers may be alive while at most one turn is active.       *)
(***************************************************************************)
EXTENDS Naturals, Sequences, FiniteSets, FiniteSetsExt

CONSTANTS
  Turn,         \* submissions
  MaxConv,      \* bound on the conversations ever created
  MaxDelta,     \* bound on the text deltas of one answer
  DbMayFail,    \* whether a statement may fail
  None          \* no turn

ASSUME NoneAssumption == None \notin Turn
ASSUME BoundAssumption == MaxConv \in Nat /\ MaxDelta \in Nat
ASSUME DbAssumption == DbMayFail \in BOOLEAN

VARIABLES
  up,         \* the process runs and owns the database
  store,      \* self.storage is Some: the launch is not session-only
  conv,       \* self.conversation.id, 0 when it has no row
  shown,      \* the turns of self.conversation.messages, in order
  view,       \* [Turn]: status of the assistant message in memory
  stage,      \* turn inside submit_chat, between begin_turn and the spawn
  active,     \* active_turn
  completion, \* active_turn.pending_completion is Some
  cancelled,  \* [Turn]: its stream_cancel token
  queue,      \* async_rx: events sent by the workers
  worker,     \* [Turn]: the spawned task
  outcome,    \* [Turn]: what AgentLoop::run returned
  produced,   \* [Turn]: text deltas emitted
  buffer,     \* [Turn]: deltas the writer holds
  writer,     \* [Turn]: persist_deltas is running, has failed, or has no storage
  made,       \* conversation ids handed out so far
  kept,       \* rows of conversations
  row,        \* [Turn]: status column of the assistant message
  closed,     \* [Turn]: completed_at of conversation_turns is set
  text,       \* [Turn]: deltas in the markdown column
  place,      \* [Turn]: conversation and sequence number, both UNIQUE together
  grounded,   \* [Turn]: the turn has a repository snapshot
  trace       \* [Turn]: its row of grounding_traces

screen == <<conv, shown, view, stage, active, completion>>
tasks == <<worker, outcome, produced, buffer, writer>>
answer == <<row, closed, text, trace>>
db == <<made, kept, answer, place, grounded>>
vars == <<up, store, screen, cancelled, queue, tasks, db>>

Terminal == {"Completed", "Cancelled", "Failed"}
OpenRow == {"Pending", "Streaming"}
NoPlace == <<0, 0>>

Init ==
  /\ up = FALSE /\ store = FALSE
  /\ conv = 0 /\ shown = <<>> /\ view = [t \in Turn |-> "None"]
  /\ stage = None /\ active = None /\ completion = FALSE
  /\ cancelled = [t \in Turn |-> FALSE]
  /\ queue = <<>>
  /\ worker = [t \in Turn |-> "None"]
  /\ outcome = [t \in Turn |-> "None"]
  /\ produced = [t \in Turn |-> 0]
  /\ buffer = [t \in Turn |-> 0]
  /\ writer = [t \in Turn |-> "None"]
  /\ made = 0 /\ kept = {}
  /\ row = [t \in Turn |-> "Absent"]
  /\ closed = [t \in Turn |-> FALSE]
  /\ text = [t \in Turn |-> 0]
  /\ place = [t \in Turn |-> NoPlace]
  /\ grounded = [t \in Turn |-> FALSE]
  /\ trace = [t \in Turn |-> "None"]

-----------------------------------------------------------------------------
(* Transactions of conversation.rs and db.rs.                               *)

\* Turns stored in conversation c.
RowsOf(c) == {t \in Turn : place[t][1] = c /\ row[t] \notin {"Absent", "Erased"}}

\* What finish_turn leaves in the markdown column: the whole answer so far, or
\* the message that explains the failure.
FinalText(t, s) == IF s = "Failed" THEN 0 ELSE produced[t]

\* apply_terminal_update: message and turn leave the open state together.
TerminalTx(t, s) ==
  /\ row[t] \in OpenRow /\ ~closed[t]
  /\ row' = [row EXCEPT ![t] = s]
  /\ closed' = [closed EXCEPT ![t] = TRUE]
  /\ text' = [text EXCEPT ![t] = FinalText(t, s)]

\* A transaction that conflicts or fails changes nothing.
TxFails(t) == (row[t] \notin OpenRow \/ closed[t] \/ DbMayFail) /\ UNCHANGED answer

\* finish_turn, whose result several callers drop.
FinishTurn(t, s) ==
  IF ~store THEN UNCHANGED answer
  ELSE \/ TerminalTx(t, s) /\ UNCHANGED trace
       \/ TxFails(t)

\* delete_conversation: the rows of the conversation go with it (ON DELETE CASCADE).
EraseRows(c) ==
  LET gone == RowsOf(c)
  IN /\ row' = [t \in Turn |-> IF t \in gone THEN "Erased" ELSE row[t]]
     /\ text' = [t \in Turn |-> IF t \in gone THEN 0 ELSE text[t]]
     /\ trace' = [t \in Turn |-> IF t \in gone THEN "None" ELSE trace[t]]

\* ensure_durable_conversation: a new conversation, or a session-only launch.
EnsureConversation(otherwise) ==
  IF ~store THEN conv' = otherwise /\ UNCHANGED <<store, made, kept>>
  ELSE \/ /\ made < MaxConv
          /\ made' = made + 1
          /\ kept' = kept \cup {made'}
          /\ conv' = made'
          /\ UNCHANGED store
       \/ /\ DbMayFail
          /\ store' = FALSE
          /\ conv' = otherwise
          /\ UNCHANGED <<made, kept>>

-----------------------------------------------------------------------------
(* submit_chat.                                                             *)

Idle == up /\ stage = None

\* begin_turn inserts the turn and both messages at the ordinal the screen
\* suggests; a taken ordinal, a conversation that is no longer stored or a failed
\* statement abandons the submission.
SubmitBegin(t, g) ==
  /\ Idle /\ active = None
  /\ row[t] = "Absent" /\ worker[t] = "None"
  /\ IF shown = <<>> THEN EnsureConversation(conv) ELSE UNCHANGED <<store, conv, made, kept>>
  /\ LET spot == <<conv', Len(shown) + 1>>
         taken == \E u \in RowsOf(conv') : place[u] = spot
     IN \/ /\ store' /\ ~taken /\ conv' \in kept'
           /\ row' = [row EXCEPT ![t] = "Pending"]
           /\ place' = [place EXCEPT ![t] = spot]
           /\ grounded' = [grounded EXCEPT ![t] = g]
           /\ stage' = t
        \/ /\ store' /\ (taken \/ conv' \notin kept' \/ DbMayFail)
           /\ UNCHANGED <<row, place, grounded, stage>>
        \/ /\ ~store'
           /\ stage' = t
           /\ UNCHANGED <<row, place, grounded>>
  /\ UNCHANGED <<up, shown, view, active, completion, cancelled, queue, tasks,
                 closed, text, trace>>

\* The trace row and the consent scope are stored; the messages go on screen and
\* the worker starts with its own handle of the storage.
SubmitReady(t) ==
  /\ up /\ stage = t
  /\ trace' = IF grounded[t] THEN [trace EXCEPT ![t] = "Empty"] ELSE trace
  /\ shown' = Append(shown, t)
  /\ view' = [view EXCEPT ![t] = "Pending"]
  /\ active' = t
  /\ completion' = FALSE
  /\ worker' = [worker EXCEPT ![t] = "running"]
  /\ writer' = [writer EXCEPT ![t] = IF store THEN "open" ELSE "session"]
  /\ stage' = None
  /\ UNCHANGED <<up, store, conv, cancelled, queue, outcome, produced, buffer, made,
                 kept, row, closed, text, place, grounded>>

\* Preparing the trace or the consent scope fails: the stored turn is failed, if
\* that works, and the screen never shows it.
SubmitFails(t) ==
  /\ up /\ stage = t /\ grounded[t] /\ DbMayFail
  /\ \E prepared \in {"None", "Empty"} : trace' = [trace EXCEPT ![t] = prepared]
  /\ \/ TerminalTx(t, "Failed")
     \/ UNCHANGED <<row, closed, text>>
  /\ stage' = None
  /\ UNCHANGED <<up, store, conv, shown, view, active, completion, cancelled, queue,
                 tasks, made, kept, place, grounded>>

-----------------------------------------------------------------------------
(* The worker and its delta writer.                                         *)

\* A TextDelta goes to the writer, if it still listens, and to the UI thread.
Delta(t) ==
  /\ worker[t] = "running" /\ produced[t] < MaxDelta
  /\ produced' = [produced EXCEPT ![t] = @ + 1]
  /\ buffer' = [buffer EXCEPT ![t] = IF writer[t] = "open" THEN @ + 1 ELSE @]
  /\ queue' = Append(queue, [turn |-> t, kind |-> "Delta"])
  /\ UNCHANGED <<up, store, screen, cancelled, worker, outcome, writer, db>>

\* Slip: append_assistant_delta without its condition on the status.
FlushAnyRow(t) ==
  /\ writer[t] = "open" /\ buffer[t] > 0
  /\ buffer' = [buffer EXCEPT ![t] = 0]
  /\ text' = [text EXCEPT ![t] = @ + buffer[t]]
  /\ UNCHANGED <<up, store, screen, cancelled, queue, worker, outcome, produced, writer,
                 made, kept, row, closed, place, grounded, trace>>

\* flush: the batch is appended to an open row; an ended or erased row, or a
\* failed statement, ends the writer with an error.
Flush(t) ==
  /\ writer[t] = "open" /\ buffer[t] > 0
  /\ buffer' = [buffer EXCEPT ![t] = 0]
  /\ \/ /\ row[t] \in OpenRow
        /\ row' = [row EXCEPT ![t] = "Streaming"]
        /\ text' = [text EXCEPT ![t] = @ + buffer[t]]
        /\ UNCHANGED writer
     \/ /\ row[t] \notin OpenRow \/ DbMayFail
        /\ writer' = [writer EXCEPT ![t] = "failed"]
        /\ UNCHANGED <<row, text>>
  /\ UNCHANGED <<up, store, screen, cancelled, queue, worker, outcome, produced,
                 made, kept, closed, place, grounded, trace>>

\* AgentLoop::run returns its last event, or an error; only a cancelled token
\* makes it Cancelled.
RunEnds(t, o) ==
  /\ worker[t] = "running"
  /\ o = "Cancelled" => cancelled[t]
  /\ outcome' = [outcome EXCEPT ![t] = o]
  /\ worker' = [worker EXCEPT ![t] = "draining"]
  /\ UNCHANGED <<up, store, screen, cancelled, queue, produced, buffer, writer, db>>

Event(t, k) == [turn |-> t, kind |-> k]

\* Slip: an error is only logged.
DrainedSilentError(t) ==
  /\ worker[t] = "draining" /\ buffer[t] = 0
  /\ worker' = [worker EXCEPT ![t] = "done"]
  /\ queue' = IF writer[t] = "failed" \/ outcome[t] = "Error" THEN queue
              ELSE queue \o <<Event(t, outcome[t]), Event(t, "Finished")>>
  /\ UNCHANGED <<up, store, screen, cancelled, outcome, produced, buffer, writer, db>>

\* The writer has drained its channel: the terminal event is sent, then the
\* outcome.  A failed writer turns any outcome into an error.
Drained(t) ==
  /\ worker[t] = "draining" /\ buffer[t] = 0
  /\ worker' = [worker EXCEPT ![t] = "done"]
  /\ queue' = queue \o
       IF writer[t] = "failed" \/ outcome[t] = "Error"
       THEN <<Event(t, "Failed"), Event(t, "FinishedError")>>
       ELSE <<Event(t, outcome[t]), Event(t, "Finished")>>
  /\ UNCHANGED <<up, store, screen, cancelled, outcome, produced, buffer, writer, db>>

-----------------------------------------------------------------------------
(* The UI thread: one event of the channel at a time.                       *)

\* Take the head of the channel when it is an event e of the active turn.
Receive(e) == Idle /\ queue # <<>> /\ Head(queue) = e /\ queue' = Tail(queue)

OnDelta(t) ==
  /\ Receive(Event(t, "Delta")) /\ active = t
  /\ view' = [view EXCEPT ![t] = "Streaming"]
  /\ UNCHANGED <<up, store, conv, shown, stage, active, completion, cancelled, tasks, db>>

OnCompleted(t) ==
  /\ Receive(Event(t, "Completed")) /\ active = t
  /\ completion' = TRUE
  /\ UNCHANGED <<up, store, conv, shown, view, stage, active, cancelled, tasks, db>>

\* The message is marked first; the result of finish_turn is dropped.
OnStopped(t, s) ==
  /\ s \in {"Cancelled", "Failed"}
  /\ Receive(Event(t, s)) /\ active = t
  /\ view' = [view EXCEPT ![t] = s]
  /\ FinishTurn(t, s)
  /\ active' = None
  /\ UNCHANGED <<up, store, conv, shown, stage, completion, cancelled, tasks, made, kept,
                 place, grounded>>

\* finish_turn_with_grounding: the final trace and the terminal state together.
Complete(t) ==
  /\ TerminalTx(t, "Completed")
  /\ trace' = [trace EXCEPT ![t] = IF grounded[t] THEN "Final" ELSE @]

\* Slip: the outcome is applied to whatever turn is active.
OnFinishedAnyTurn(t) ==
  /\ \E u \in Turn : Receive(Event(u, "Finished"))
  /\ active = t
  /\ view' = [view EXCEPT ![t] = "Completed"]
  /\ store /\ Complete(t)
  /\ active' = None /\ completion' = FALSE
  /\ UNCHANGED <<up, store, conv, shown, stage, cancelled, tasks, made, kept, place, grounded>>

\* finish_agent_outcome: the pending completion is stored and shown, or, when
\* that fails or none is pending, the turn is failed as well as possible.
OnFinished(t) ==
  /\ Receive(Event(t, "Finished")) /\ active = t
  /\ \/ /\ completion
        /\ IF store THEN Complete(t) ELSE UNCHANGED answer
        /\ view' = [view EXCEPT ![t] = "Completed"]
     \/ /\ ~completion \/ (store /\ (DbMayFail \/ row[t] \notin OpenRow))
        /\ FinishTurn(t, "Failed")
        /\ view' = [view EXCEPT ![t] = "Failed"]
  /\ active' = None /\ completion' = FALSE
  /\ UNCHANGED <<up, store, conv, shown, stage, cancelled, tasks, made, kept, place, grounded>>

\* Events of any other turn are dropped.
OnStale ==
  /\ Idle /\ queue # <<>> /\ Head(queue).turn # active
  /\ queue' = Tail(queue)
  /\ UNCHANGED <<up, store, screen, cancelled, tasks, db>>

-----------------------------------------------------------------------------
(* The UI thread: controls.                                                 *)

Cancel ==
  /\ Idle /\ active # None
  /\ cancelled' = [cancelled EXCEPT ![active] = TRUE]
  /\ UNCHANGED <<up, store, screen, queue, tasks, db>>

CancelActive == cancelled' = [t \in Turn |-> cancelled[t] \/ t = active]

\* The end of start_new_conversation.
FreshConversation ==
  /\ EnsureConversation(0)
  /\ shown' = <<>>
  /\ view' = [t \in Turn |-> "None"]

\* Slip: the replaced turn is left open.
NewConversationLeavesTurn ==
  /\ Idle
  /\ CancelActive /\ active' = None /\ completion' = FALSE
  /\ FreshConversation
  /\ UNCHANGED <<up, stage, queue, tasks, answer, place, grounded>>

\* start_new_conversation: the active turn is cancelled, dropped and failed in
\* the database; if that last step fails the old conversation stays on screen.  A
\* failed revocation of the remembered consent scope returns before all of it.
NewConversation ==
  /\ Idle
  /\ CancelActive /\ active' = None /\ completion' = FALSE
  /\ \/ /\ \/ (active = None \/ ~store) /\ UNCHANGED answer
           \/ /\ active # None /\ store
              /\ TerminalTx(active, "Failed") /\ UNCHANGED trace
        /\ FreshConversation
     \/ /\ active # None /\ store /\ TxFails(active)
        /\ UNCHANGED <<store, conv, shown, view, made, kept>>
  /\ UNCHANGED <<up, stage, queue, tasks, place, grounded>>

\* delete_current_conversation of an idle conversation; a worker of an earlier
\* turn of it may still be alive.  A failed deletion changes nothing.  After the
\* rows are gone start_new_conversation may still return at the revocation of a
\* remembered consent scope: the deleted conversation then stays on screen.
DeleteConversation ==
  /\ Idle /\ active = None /\ store /\ conv \in kept
  /\ EraseRows(conv)
  /\ \/ /\ \/ /\ made < MaxConv
              /\ made' = made + 1 /\ conv' = made'
              /\ kept' = (kept \ {conv}) \cup {made'}
              /\ UNCHANGED store
           \/ /\ DbMayFail
              /\ store' = FALSE /\ conv' = 0
              /\ kept' = kept \ {conv}
              /\ UNCHANGED made
        /\ shown' = <<>> /\ view' = [t \in Turn |-> "None"]
     \/ /\ DbMayFail /\ \E t \in RowsOf(conv) : grounded[t]
        /\ kept' = kept \ {conv}
        /\ UNCHANGED <<store, conv, made, shown, view>>
  /\ UNCHANGED <<up, stage, active, completion, cancelled, queue, tasks, closed, place,
                 grounded>>

-----------------------------------------------------------------------------
(* The process.                                                             *)

Exit ==
  /\ up
  /\ up' = FALSE /\ store' = FALSE
  /\ conv' = 0 /\ shown' = <<>> /\ view' = [t \in Turn |-> "None"]
  /\ stage' = None /\ active' = None /\ completion' = FALSE
  /\ queue' = <<>>
  /\ worker' = [t \in Turn |-> IF worker[t] = "None" THEN "None" ELSE "done"]
  /\ buffer' = [t \in Turn |-> 0]
  /\ writer' = [t \in Turn |-> IF writer[t] = "open" THEN "failed" ELSE writer[t]]
  /\ UNCHANGED <<cancelled, outcome, produced, db>>

Interrupted(t) == row[t] \in OpenRow

\* The turns of conversation c in the order of their sequence numbers.
InOrder(c) ==
  [n \in 1..Cardinality(RowsOf(c)) |->
     CHOOSE t \in RowsOf(c) :
       Cardinality({u \in RowsOf(c) : place[u][2] < place[t][2]}) = n - 1]

\* Slip: the recovery spells a status its own way.
StartMisspelt ==
  /\ ~up /\ up' = TRUE
  /\ store' \in IF DbMayFail THEN BOOLEAN ELSE {TRUE}
  /\ row' = [t \in Turn |-> IF Interrupted(t) THEN "Interrupted" ELSE row[t]]
  /\ closed' = [t \in Turn |-> closed[t] \/ Interrupted(t)]
  /\ text' = [t \in Turn |-> IF Interrupted(t) THEN 0 ELSE text[t]]
  /\ conv' = 0 /\ shown' = <<>> /\ UNCHANGED view
  /\ UNCHANGED <<stage, active, completion, cancelled, queue, tasks, made, kept, place,
                 grounded, trace>>

\* SqliteStorage::open fails whatever an earlier launch left open; then the most
\* recent conversation is loaded, or an unsaved one takes its place.  A prompt that
\* cannot be restored makes the launch session-only after that.
Start ==
  /\ ~up /\ up' = TRUE
  /\ store' \in IF DbMayFail THEN BOOLEAN ELSE {TRUE}
  /\ row' = [t \in Turn |-> IF Interrupted(t) THEN "Failed" ELSE row[t]]
  /\ closed' = [t \in Turn |-> closed[t] \/ Interrupted(t)]
  /\ text' = [t \in Turn |-> IF Interrupted(t) THEN 0 ELSE text[t]]
  /\ \/ /\ kept # {}
        /\ conv' = Max(kept)
        /\ shown' = InOrder(Max(kept))
        /\ view' = [t \in Turn |-> IF t \in RowsOf(Max(kept)) THEN row'[t] ELSE "None"]
     \/ /\ kept = {} \/ DbMayFail
        /\ conv' = 0 /\ shown' = <<>> /\ UNCHANGED view
  /\ UNCHANGED <<stage, active, completion, cancelled, queue, tasks, made, kept, place,
                 grounded, trace>>

-----------------------------------------------------------------------------
Submit ==
  \E t \in Turn :
    \/ \E g \in BOOLEAN : SubmitBegin(t, g)
    \/ SubmitReady(t) \/ SubmitFails(t)

Task(t) ==
  \/ Delta(t) \/ Flush(t) \/ Drained(t)
  \/ \E o \in Terminal \cup {"Error"} : RunEnds(t, o)

Poll ==
  \/ \E t \in Turn : OnDelta(t) \/ OnCompleted(t) \/ OnFinished(t)
  \/ \E t \in Turn, s \in Terminal : OnStopped(t, s)
  \/ OnStale

Control == Cancel \/ NewConversation \/ DeleteConversation

Next == Submit \/ (\E t \in Turn : Task(t)) \/ Poll \/ Control \/ Exit \/ Start

Spec == Init /\ [][Next]_vars

\* The runtime polls every spawned task, run() is bounded by its timeout, and
\* the UI thread finishes submit_chat and drains the channel every frame.
\* Nothing is promised of the user or of the process.
Fairness ==
  /\ \A t \in Turn :
       WF_vars(Delta(t) \/ Flush(t)) /\ WF_vars(Drained(t))
         /\ WF_vars(\E o \in Terminal \cup {"Error"} : RunEnds(t, o))
         /\ WF_vars(SubmitReady(t) \/ SubmitFails(t))
  /\ WF_vars(Poll)

FairSpec == Spec /\ Fairness

-----------------------------------------------------------------------------
(* Properties.                                                              *)

TypeOK ==
  /\ up \in BOOLEAN /\ store \in BOOLEAN
  /\ conv \in 0..MaxConv /\ made \in 0..MaxConv /\ kept \subseteq 1..MaxConv
  /\ shown \in Seq(Turn)
  /\ view \in [Turn -> {"None"} \cup OpenRow \cup Terminal]
  /\ stage \in Turn \cup {None} /\ active \in Turn \cup {None}
  /\ completion \in BOOLEAN
  /\ cancelled \in [Turn -> BOOLEAN]
  /\ queue \in Seq([turn : Turn,
                    kind : {"Delta", "Finished", "FinishedError"} \cup Terminal])
  /\ worker \in [Turn -> {"None", "running", "draining", "done"}]
  /\ outcome \in [Turn -> {"None", "Error"} \cup Terminal]
  /\ produced \in [Turn -> 0..MaxDelta] /\ buffer \in [Turn -> 0..MaxDelta]
  /\ writer \in [Turn -> {"None", "open", "failed", "session"}]
  /\ row \in [Turn -> {"Absent", "Erased"} \cup OpenRow \cup Terminal]
  /\ closed \in [Turn -> BOOLEAN]
  /\ text \in [Turn -> 0..MaxDelta]
  /\ place \in [Turn -> (0..MaxConv) \X Nat]
  /\ grounded \in [Turn -> BOOLEAN]
  /\ trace \in [Turn -> {"None", "Empty", "Final"}]

\* A stored turn is complete exactly when its assistant message is in a terminal
\* state, across conflicts, crashes and the recovery of the next start.
TurnAndMessageAgree ==
  \A t \in Turn : row[t] # "Erased" => (closed[t] <=> row[t] \in Terminal)

\* An answer with repository evidence and its final GroundingTrace are stored
\* together or not at all.
CompletedIsGrounded ==
  \A t \in Turn : grounded[t] => (trace[t] = "Final" <=> row[t] = "Completed")

\* A turn is stored as Completed only when its own run completed: no event of a
\* replaced or deleted conversation completes another turn.
CompletedByOwnRun ==
  \A t \in Turn : row[t] = "Completed" => outcome[t] = "Completed"

\* What the screen shows as Completed is stored as Completed, except for a deleted
\* conversation that a failed revocation left on screen: it is not stored at all,
\* and no turn is stored under it again.
ShownCompletedIsStored ==
  \A t \in Turn : store /\ view[t] = "Completed" =>
    \/ row[t] = "Completed"
    \/ /\ row[t] = "Erased" /\ place[t][1] = conv
       /\ conv \notin kept /\ RowsOf(conv) = {}

\* The five places that know how a turn ended, its row, its message, its trace,
\* its run and the screen, never contradict each other about a completed answer.
EndsAreConsistent ==
  TurnAndMessageAgree /\ CompletedIsGrounded /\ CompletedByOwnRun /\ ShownCompletedIsStored

\* Without database faults, nothing is open while no turn is active: replaced
\* conversations, late workers and restarts leave no message in Streaming.
IdleMeansClosed ==
  up /\ stage = None /\ active = None => \A t \in Turn : row[t] \notin OpenRow

\* Without database faults the screen holds exactly the stored turns of its
\* conversation, in order, so the ordinal of the next submission is free.
ScreenMatchesStore ==
  up /\ stage = None => shown = InOrder(conv)

\* Whenever the composer is free, screen and store agree and nothing is open.
IdleIsSettled == IdleMeansClosed /\ ScreenMatchesStore

\* The stored turns implement the lifecycle: one end, and no delta after it.
Lifecycle == INSTANCE TurnLifecycle
  WITH row <- [t \in Turn |-> IF row[t] \in OpenRow THEN "Open" ELSE row[t]]
ImplementsLifecycle == Lifecycle!Spec

\* Without database faults every begun turn ends, as long as the process runs.
TurnEnds == \A t \in Turn : row[t] \in OpenRow ~> row[t] \notin OpenRow \/ ~up
=============================================================================
