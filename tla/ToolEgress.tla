----------------------------- MODULE ToolEgress -----------------------------
(***************************************************************************)
(* Sending repository excerpts to a cloud provider.                        *)
(*                                                                         *)
(* Actors: the launches of the desktop program that share one AppData      *)
(* database; in each, the UI thread (chat_app.rs) and one worker per       *)
(* submitted turn, which runs the agent rounds through a provider adapter  *)
(* (openai_adapter.rs, gemini_adapter.rs) and the durable gate             *)
(* (tool_egress_gate.rs); the network.  A body that carries tool results   *)
(* needs one receipt per result, written Prepared before the first byte    *)
(* leaves and closed Sent, Failed or OutcomeUnknown afterwards.            *)
(*                                                                         *)
(* Every database call may fail: the failing outcome is a disjunct.        *)
(* Durable: consent, status, seal.  In memory: the rest, except the lock,  *)
(* which the kernel holds, and the network's wire and answered.            *)
(***************************************************************************)
EXTENDS FiniteSets

CONSTANTS
  Launch,     \* runs of the program, each with its own runtime owner id
  Turn,       \* submitted turns; each has its own cancel token and consent scope
  Body,       \* exact provider bodies that carry tool results
  Call,       \* tool calls a turn may execute, and their results
  Receipt,    \* receipt ids
  DbMayFail,  \* whether a statement after startup may fail
  None        \* absence of a launch, turn or body

ASSUME NoneAssumption == None \notin Launch \cup Turn \cup Body
ASSUME DbAssumption == DbMayFail \in BOOLEAN

VARIABLES
  lock,       \* launch whose process holds the exclusive runtime lock file
  run,        \* [Launch]: how far the launch is
  busy,       \* [Launch]: active_turn is Some
  active,     \* [Launch]: turn whose token is in stream_cancel
  appScope,   \* [Launch]: turn whose scope is in active_consent_scope
  frame,      \* [Launch]: where the UI thread is: about to run the top of
              \* poll_async, inside start_new_conversation, or anywhere else
  host,       \* [Turn]: launch that runs the turn's worker
  phase,      \* [Turn]: how far the worker is in its current round
  cancelled,  \* [Turn]: the token shared by stream_cancel, adapter and capability
  results,    \* [Turn]: calls whose result is in request.messages
  body,       \* [Turn]: body of the current round
  consent,    \* [Turn]: row of repository_consent_scopes
  status,     \* [Receipt]: status column of tool_egress_receipts
  seal,       \* [Receipt]: the immutable columns
  carried,    \* [Body]: results serialized into the body
  wire,       \* bodies of which bytes reached the provider
  answered    \* bodies whose response headers arrived

durable == <<consent, status, seal>>
net == <<wire, answered>>
ui == <<busy, active, appScope, frame>>
mem == <<host, phase, cancelled, results, body>>
vars == <<lock, run, ui, mem, durable, carried, net>>

RunStates == {"new", "locked", "owner", "closing", "gone"}
Phases == {"unborn", "round", "authorize", "pending", "checked", "send",
           "polled", "inflight", "stream", "done"}
Statuses == {"Absent", "Prepared", "Sent", "Failed", "OutcomeUnknown"}
NoSeal == [turn |-> None, body |-> None, call |-> None]

Live(t) == phase[t] \notin {"unborn", "done"}
Workers(p) == {t \in Turn : host[t] = p /\ Live(t)}

\* Receipts of the body of turn t: the ids PendingEgress holds.
Batch(t) == {r \in Receipt : status[r] # "Absent" /\ seal[r].body = body[t]}

Init ==
  /\ lock = None
  /\ run = [p \in Launch |-> "new"]
  /\ busy = [p \in Launch |-> FALSE]
  /\ active = [p \in Launch |-> None]
  /\ appScope = [p \in Launch |-> None]
  /\ frame = [p \in Launch |-> "open"]
  /\ host = [t \in Turn |-> None]
  /\ phase = [t \in Turn |-> "unborn"]
  /\ cancelled = [t \in Turn |-> FALSE]
  /\ results = [t \in Turn |-> {}]
  /\ body = [t \in Turn |-> None]
  /\ consent = [t \in Turn |-> "Absent"]
  /\ status = [r \in Receipt |-> "Absent"]
  /\ seal = [r \in Receipt |-> NoSeal]
  /\ carried = [b \in Body |-> {}]
  /\ wire = {}
  /\ answered = {}

-----------------------------------------------------------------------------
(* The runtime lock and startup recovery (db.rs, platform lib.rs).          *)

\* Slip: the lock goes with the app's handle, whatever the workers still do.
LockAfterApp(p, stillApp, workers) ==
  lock' = IF lock = p /\ ~stillApp THEN None ELSE lock

\* The lock handle is shared by every clone of the storage: the kernel frees
\* it when the launch has dropped its handle and its last worker has ended.
LockAfter(p, stillApp, workers) ==
  lock' = IF lock = p /\ ~stillApp /\ workers = {} THEN None ELSE lock

\* SqliteStorage::open takes the lock before it touches the database.  A lock
\* held elsewhere makes the launch session-only: it never owns the storage.
AcquireLock(p) ==
  /\ run[p] = "new"
  /\ \/ /\ lock = None
        /\ lock' = p
        /\ run' = [run EXCEPT ![p] = "locked"]
     \/ /\ lock # None
        /\ run' = [run EXCEPT ![p] = "gone"]
        /\ UNCHANGED lock
  /\ UNCHANGED <<ui, mem, durable, carried, net>>

\* Migration or the ownership transaction fails: open returns and frees the lock.
OpenFails(p) ==
  /\ run[p] = "locked"
  /\ run' = [run EXCEPT ![p] = "gone"]
  /\ lock' = None
  /\ UNCHANGED <<ui, mem, durable, carried, net>>

\* Slips: a status outside the enumeration; no WHERE clause.
RecoverMisspelt(p) ==
  /\ run[p] = "locked"
  /\ run' = [run EXCEPT ![p] = "owner"]
  /\ status' = [r \in Receipt |-> IF status[r] = "Prepared" THEN "Unknown" ELSE status[r]]
  /\ UNCHANGED <<lock, ui, mem, consent, seal, carried, net>>

RecoverAll(p) ==
  /\ run[p] = "locked"
  /\ run' = [run EXCEPT ![p] = "owner"]
  /\ status' = [r \in Receipt |-> IF status[r] = "Absent" THEN "Absent" ELSE "OutcomeUnknown"]
  /\ UNCHANGED <<lock, ui, mem, consent, seal, carried, net>>

\* acquire_runtime_ownership: one transaction closes whatever is still Prepared.
Recover(p) ==
  /\ run[p] = "locked"
  /\ run' = [run EXCEPT ![p] = "owner"]
  /\ status' = [r \in Receipt |->
                  IF status[r] = "Prepared" THEN "OutcomeUnknown" ELSE status[r]]
  /\ UNCHANGED <<lock, ui, mem, consent, seal, carried, net>>

ForgetUi(p) ==
  /\ busy' = [busy EXCEPT ![p] = FALSE]
  /\ active' = [active EXCEPT ![p] = None]
  /\ appScope' = [appScope EXCEPT ![p] = None]
  /\ frame' = [frame EXCEPT ![p] = "open"]

\* Orderly exit: the app is dropped (its Drop cancels the stream token) while
\* workers may still be running on their own clones of the storage.
Close(p) ==
  /\ run[p] = "owner"
  /\ run' = [run EXCEPT ![p] = "closing"]
  /\ cancelled' = [t \in Turn |-> cancelled[t] \/ t = active[p]]
  /\ ForgetUi(p)
  /\ LockAfter(p, FALSE, Workers(p))
  /\ UNCHANGED <<host, phase, results, body, durable, carried, net>>

\* The process dies: its memory is gone and the kernel frees the lock.
Crash(p) ==
  /\ run[p] \in {"locked", "owner", "closing"}
  /\ run' = [run EXCEPT ![p] = "gone"]
  /\ lock' = IF lock = p THEN None ELSE lock
  /\ phase' = [t \in Turn |-> IF t \in Workers(p) THEN "done" ELSE phase[t]]
  /\ ForgetUi(p)
  /\ UNCHANGED <<host, cancelled, results, body, durable, carried, net>>

-----------------------------------------------------------------------------
(* The UI thread (chat_app.rs).  A frame runs poll_async, top to bottom, and *)
(* then the controls.                                                        *)

AtUi(p) == run[p] = "owner" /\ frame[p] = "open"

\* submit_chat with a tool-capable cloud model: the consent scope is durable
\* before the worker exists.  It replaces the scope id the app remembered.
BeginTurn(p, t) ==
  /\ AtUi(p) /\ ~busy[p]
  /\ phase[t] = "unborn"
  /\ consent' = [consent EXCEPT ![t] = "Granted"]
  /\ host' = [host EXCEPT ![t] = p]
  /\ phase' = [phase EXCEPT ![t] = "round"]
  /\ busy' = [busy EXCEPT ![p] = TRUE]
  /\ active' = [active EXCEPT ![p] = t]
  /\ appScope' = [appScope EXCEPT ![p] = t]
  /\ UNCHANGED <<lock, run, frame, cancelled, results, body, status, seal, carried, net>>

\* The top of poll_async: a cancelled stream token takes the remembered scope
\* and revokes it; take() forgets the scope even when the update fails.
PollTop(p) ==
  /\ run[p] = "owner" /\ frame[p] \in {"open", "top"}
  /\ active[p] # None /\ cancelled[active[p]]
  /\ frame' = [frame EXCEPT ![p] = "open"]
  /\ appScope' = [appScope EXCEPT ![p] = None]
  /\ \/ consent' = IF appScope[p] = None THEN consent
                   ELSE [consent EXCEPT ![appScope[p]] = "Revoked"]
     \/ DbMayFail /\ UNCHANGED consent
  /\ UNCHANGED <<lock, run, busy, active, mem, status, seal, carried, net>>

\* Further down poll_async: the watcher saw the repository change.
RepositoryChanged(p) ==
  /\ AtUi(p) /\ active[p] # None
  /\ cancelled' = [cancelled EXCEPT ![active[p]] = TRUE]
  /\ UNCHANGED <<lock, run, ui, host, phase, results, body, durable, carried, net>>

\* Slip: terminal events drained before the top of the frame.
UiTerminalFirst(p) ==
  /\ run[p] = "owner" /\ frame[p] # "replacing"
  /\ busy[p] /\ active[p] # None /\ phase[active[p]] = "done"
  /\ busy' = [busy EXCEPT ![p] = FALSE]
  /\ active' = [active EXCEPT ![p] = None]
  /\ frame' = [frame EXCEPT ![p] = "open"]
  /\ UNCHANGED <<lock, run, appScope, mem, durable, carried, net>>

\* ... and the terminal event of the finished worker is drained from the queue.
UiTerminal(p) ==
  /\ AtUi(p)
  /\ busy[p] /\ active[p] # None /\ phase[active[p]] = "done"
  /\ busy' = [busy EXCEPT ![p] = FALSE]
  /\ active' = [active EXCEPT ![p] = None]
  /\ UNCHANGED <<lock, run, appScope, frame, mem, durable, carried, net>>

\* Controls: Stop, Escape, consent cleared, provider or model changed.  Each
\* cancels the shared token and nothing else; the next frame starts at its top.
Withdraw(p) ==
  /\ AtUi(p) /\ active[p] # None
  /\ cancelled' = [cancelled EXCEPT ![active[p]] = TRUE]
  /\ frame' = [frame EXCEPT ![p] = "top"]
  /\ UNCHANGED <<lock, run, busy, active, appScope, host, phase, results, body,
                 durable, carried, net>>

\* start_new_conversation, up to the revoke: a failed update returns at once.
NewConversationRevoke(p) ==
  /\ AtUi(p)
  /\ appScope' = [appScope EXCEPT ![p] = None]
  /\ \/ /\ consent' = IF appScope[p] = None THEN consent
                      ELSE [consent EXCEPT ![appScope[p]] = "Revoked"]
        /\ frame' = [frame EXCEPT ![p] = "replacing"]
     \/ /\ DbMayFail /\ appScope[p] # None
        /\ UNCHANGED <<consent, frame>>
  /\ UNCHANGED <<lock, run, busy, active, mem, status, seal, carried, net>>

\* Slip: the turn and its token are dropped without cancelling the token.
NewConversationForgetsToken(p) ==
  /\ run[p] = "owner" /\ frame[p] = "replacing"
  /\ busy' = [busy EXCEPT ![p] = FALSE]
  /\ active' = [active EXCEPT ![p] = None]
  /\ frame' = [frame EXCEPT ![p] = "open"]
  /\ UNCHANGED <<lock, run, appScope, mem, durable, carried, net>>

\* ... and the rest: cancel the token, drop active_turn, close its row and, when
\* that succeeded, forget the token.
NewConversationCancel(p) ==
  /\ run[p] = "owner" /\ frame[p] = "replacing"
  /\ cancelled' = [t \in Turn |-> cancelled[t] \/ t = active[p]]
  /\ busy' = [busy EXCEPT ![p] = FALSE]
  /\ \/ active' = [active EXCEPT ![p] = None]
     \/ DbMayFail /\ busy[p] /\ UNCHANGED active
  /\ frame' = [frame EXCEPT ![p] = "open"]
  /\ UNCHANGED <<lock, run, appScope, host, phase, results, body, durable, carried, net>>

-----------------------------------------------------------------------------
(* The receipt ledger (grounding_store.rs) and the gate around it.          *)

\* The batch compare-and-set: all rows of B leave Prepared together or none do.
CasBatch(B, s) ==
  /\ B # {}
  /\ \A r \in B : status[r] = "Prepared"
  /\ status' = [r \in Receipt |-> IF r \in B THEN s ELSE status[r]]

\* A gate call of a turn whose token is cancelled first records the revocation.
RevokeIfCancelled(t) ==
  consent' = IF cancelled[t] THEN [consent EXCEPT ![t] = "Revoked"] ELSE consent

\* PendingEgress: finish(s), and if that fails, the OutcomeUnknown attempt of its
\* Drop, which may fail too and leaves the batch to the next startup.
FinishBatch(t, s) ==
  \/ CasBatch(Batch(t), s) /\ RevokeIfCancelled(t)
  \/ DbMayFail /\ CasBatch(Batch(t), "OutcomeUnknown") /\ RevokeIfCancelled(t)
  \/ DbMayFail /\ UNCHANGED status /\ (RevokeIfCancelled(t) \/ UNCHANGED consent)

\* fail_prepared: best effort, and nothing to do when no row was written.
FailPrepared(t) ==
  \/ CasBatch(Batch(t), "Failed")
  \/ (Batch(t) = {} \/ DbMayFail) /\ UNCHANGED status

\* run() returns or is dropped; the worker's clone of the storage goes with it.
WorkerEnds(t) ==
  /\ phase' = [phase EXCEPT ![t] = "done"]
  /\ LockAfter(host[t], run[host[t]] \in {"locked", "owner"}, Workers(host[t]) \ {t})

-----------------------------------------------------------------------------
(* The worker: one agent round after another, through the adapter.          *)

\* The loop stops: cancelled or out of rounds at the top of a round; the final
\* answer, a failed stream, a budget or the time limit later on.  A cancelled
\* round that carries no result may have asked the gate, which revokes.
RoundStops(t) ==
  /\ phase[t] \in {"round", "stream"}
  /\ WorkerEnds(t)
  /\ RevokeIfCancelled(t) \/ UNCHANGED consent
  /\ UNCHANGED <<run, ui, host, cancelled, results, body, status, seal, carried, net>>

\* The first round carries no tool result and needs no receipt.
SendPlain(t) ==
  /\ phase[t] = "round" /\ ~cancelled[t] /\ results[t] = {}
  /\ phase' = [phase EXCEPT ![t] = "stream"]
  /\ UNCHANGED <<lock, run, ui, host, cancelled, results, body, durable, carried, net>>

\* The provider asks for tools; the gateway runs them and the loop comes around.
ToolsExecuted(t, C) ==
  /\ phase[t] = "stream"
  /\ C # {} /\ C \cap results[t] = {}
  /\ results' = [results EXCEPT ![t] = @ \cup C]
  /\ phase' = [phase EXCEPT ![t] = "round"]
  /\ UNCHANGED <<lock, run, ui, host, cancelled, body, durable, carried, net>>

\* The adapter serializes every result so far and asks the gate to approve.
BeginAuthorize(t, b) ==
  /\ phase[t] = "round" /\ ~cancelled[t] /\ results[t] # {}
  /\ carried[b] = {}
  /\ body' = [body EXCEPT ![t] = b]
  /\ carried' = [carried EXCEPT ![b] = results[t]]
  /\ phase' = [phase EXCEPT ![t] = "authorize"]
  /\ UNCHANGED <<lock, run, ui, host, cancelled, results, durable, net>>

Unsealed(t) == carried[body[t]] \ {seal[r].call : r \in Batch(t)}

\* One turn of the loop of authorize_exact_body: prepare, verify, insert.
SealResult(t, c, r) ==
  /\ phase[t] = "authorize" /\ c \in Unsealed(t)
  /\ ~cancelled[t]
  /\ status[r] = "Absent"
  /\ status' = [status EXCEPT ![r] = "Prepared"]
  /\ seal' = [seal EXCEPT ![r] = [turn |-> t, body |-> body[t], call |-> c]]
  /\ UNCHANGED <<lock, run, ui, mem, consent, carried, net>>

\* A revoked capability or a failed insert: the rows already written are failed
\* and the adapter returns the error.
SealRefused(t) ==
  /\ phase[t] = "authorize" /\ Unsealed(t) # {}
  /\ cancelled[t] \/ DbMayFail
  /\ FailPrepared(t)
  /\ WorkerEnds(t)
  /\ UNCHANGED <<run, ui, host, cancelled, results, body, consent, seal, carried, net>>

Authorized(t) ==
  /\ phase[t] = "authorize" /\ Unsealed(t) = {}
  /\ phase' = [phase EXCEPT ![t] = "pending"]
  /\ UNCHANGED <<lock, run, ui, host, cancelled, results, body, durable, carried, net>>

\* The worker leaves the round with its batch closed as s where possible.
Abandon(t, s) ==
  /\ FinishBatch(t, s)
  /\ WorkerEnds(t)
  /\ UNCHANGED <<run, ui, host, cancelled, results, body, seal, carried, net>>

\* gate.check_authorized() before the send.
CheckAuthorized(t) ==
  /\ phase[t] = "pending"
  /\ \/ /\ ~cancelled[t]
        /\ phase' = [phase EXCEPT ![t] = "checked"]
        /\ UNCHANGED <<lock, run, ui, host, cancelled, results, body, durable, carried, net>>
     \/ cancelled[t] /\ Abandon(t, "Failed")

\* cancel_token.is_cancelled() before the send.
CheckCancelled(t) ==
  /\ phase[t] = "checked"
  /\ \/ /\ ~cancelled[t]
        /\ phase' = [phase EXCEPT ![t] = "send"]
        /\ UNCHANGED <<lock, run, ui, host, cancelled, results, body, durable, carried, net>>
     \/ cancelled[t] /\ Abandon(t, "Failed")

\* The biased select looks at the token first ...
PollToken(t) ==
  /\ phase[t] = "send" /\ ~cancelled[t]
  /\ phase' = [phase EXCEPT ![t] = "polled"]
  /\ UNCHANGED <<lock, run, ui, host, cancelled, results, body, durable, carried, net>>

\* ... and then starts the send future, even if a cancel came in between.
StartSend(t) ==
  /\ phase[t] = "polled"
  /\ phase' = [phase EXCEPT ![t] = "inflight"]
  /\ UNCHANGED <<lock, run, ui, host, cancelled, results, body, durable, carried, net>>

\* Slip: a cancelled send recorded as one that never happened.
SelectCancelledAsFailed(t) ==
  /\ phase[t] \in {"send", "inflight"} /\ cancelled[t]
  /\ Abandon(t, "Failed")

\* The token wins in every poll that finds it cancelled.
SelectCancelled(t) ==
  /\ phase[t] \in {"send", "inflight"} /\ cancelled[t]
  /\ Abandon(t, "OutcomeUnknown")

\* The send fails, or the time limit or the runtime drops the waiting future.
SendFails(t) == phase[t] = "inflight" /\ Abandon(t, "OutcomeUnknown")

Transmit(t) ==
  /\ phase[t] = "inflight" /\ body[t] \notin wire
  /\ wire' = wire \cup {body[t]}
  /\ UNCHANGED <<lock, run, ui, mem, durable, carried, answered>>

\* Response headers: the batch becomes Sent and the stream is read; a ledger
\* failure or an HTTP error status ends the run instead.
Response(t) ==
  /\ phase[t] = "inflight" /\ body[t] \in wire
  /\ answered' = answered \cup {body[t]}
  /\ \/ /\ CasBatch(Batch(t), "Sent")
        /\ RevokeIfCancelled(t)
        /\ phase' = [phase EXCEPT ![t] = "stream"]
        /\ UNCHANGED lock
     \/ FinishBatch(t, "Sent") /\ WorkerEnds(t)
  /\ UNCHANGED <<run, ui, host, cancelled, results, body, seal, carried, wire>>

-----------------------------------------------------------------------------
LaunchStep(p) ==
  AcquireLock(p) \/ OpenFails(p) \/ Recover(p) \/ Close(p) \/ Crash(p)

UiStep(p) ==
  \/ \E t \in Turn : BeginTurn(p, t)
  \/ PollTop(p) \/ RepositoryChanged(p) \/ UiTerminal(p) \/ Withdraw(p)
  \/ NewConversationRevoke(p) \/ NewConversationCancel(p)

RoundStep(t) ==
  \/ RoundStops(t) \/ SendPlain(t)
  \/ \E C \in SUBSET Call : ToolsExecuted(t, C)

AuthorizeStep(t) ==
  \/ \E b \in Body : BeginAuthorize(t, b)
  \/ \E c \in Call, r \in Receipt : SealResult(t, c, r)
  \/ SealRefused(t) \/ Authorized(t)

SendStep(t) ==
  \/ CheckAuthorized(t) \/ CheckCancelled(t)
  \/ PollToken(t) \/ StartSend(t) \/ SelectCancelled(t) \/ SendFails(t) \/ Response(t)

Worker(t) == RoundStep(t) \/ AuthorizeStep(t) \/ SendStep(t)

Next ==
  \/ \E p \in Launch : LaunchStep(p) \/ UiStep(p)
  \/ \E t \in Turn : Worker(t) \/ Transmit(t)

Spec == Init /\ [][Next]_vars

\* The runtime keeps polling a live worker, whose every wait is bounded by a
\* timeout, and the UI thread repaints while a turn is active.  Nothing is
\* promised of the network, the user, the launches or the watcher.
Fairness ==
  /\ \A t \in Turn : WF_vars(Worker(t))
  /\ \A p \in Launch : WF_vars(PollTop(p))

FairSpec == Spec /\ Fairness

-----------------------------------------------------------------------------
(* Properties.                                                              *)

TypeOK ==
  /\ lock \in Launch \cup {None}
  /\ run \in [Launch -> RunStates]
  /\ busy \in [Launch -> BOOLEAN]
  /\ active \in [Launch -> Turn \cup {None}]
  /\ appScope \in [Launch -> Turn \cup {None}]
  /\ frame \in [Launch -> {"open", "top", "replacing"}]
  /\ host \in [Turn -> Launch \cup {None}]
  /\ phase \in [Turn -> Phases]
  /\ cancelled \in [Turn -> BOOLEAN]
  /\ results \in [Turn -> SUBSET Call]
  /\ body \in [Turn -> Body \cup {None}]
  /\ consent \in [Turn -> {"Absent", "Granted", "Revoked"}]
  /\ status \in [Receipt -> Statuses]
  /\ seal \in [Receipt -> [turn : Turn, body : Body, call : Call] \cup {NoSeal}]
  /\ carried \in [Body -> SUBSET Call]
  /\ wire \in SUBSET Body
  /\ answered \in SUBSET Body

\* A receipt closed Failed says that nothing left: its body never reached the
\* network, before or after (gate fail_prepared, finish(Failed) of the adapters).
FailedNeverSent ==
  \A r \in Receipt : status[r] = "Failed" => seal[r].body \notin wire

\* A receipt closed Sent belongs to a body the provider answered, whatever
\* cancellation, timeout or crash happened around the answer.
SentWasAnswered ==
  \A r \in Receipt : status[r] = "Sent" => seal[r].body \in answered

\* Every tool result of a body on the network has a durable receipt for exactly
\* that body, and no such receipt claims that the body was not sent.
WireIsSealed ==
  \A b \in wire : \A c \in carried[b] : \E r \in Receipt :
    /\ seal[r].body = b /\ seal[r].call = c
    /\ status[r] \in {"Prepared", "Sent", "OutcomeUnknown"}

\* What the receipts say of the network is true, and nothing is on it without one.
ReceiptsMatchNetwork == FailedNeverSent /\ SentWasAnswered /\ WireIsSealed

\* The receipts of one body never disagree: a crash, a failed statement or a
\* startup reconciliation leaves no half-closed batch (batch compare-and-set).
BodyAgrees ==
  \A r, q \in Receipt :
    status[r] # "Absent" /\ status[q] # "Absent" /\ seal[r].body = seal[q].body
      => status[r] = status[q]

\* No other launch closes the batch of a request that is still being made: the
\* lock outlives the app's own handle for as long as a worker holds the storage.
LiveBatchPrepared ==
  \A t \in Turn : phase[t] \in {"authorize", "pending", "checked", "send", "polled", "inflight"}
    => \A r \in Batch(t) : status[r] = "Prepared"

\* Once a launch owns the storage, an open receipt is one of its own turns:
\* whatever an earlier launch left open was reconciled when the lock was taken.
RecoveredClean ==
  \A p \in Launch : run[p] = "owner" =>
    \A r \in Receipt : status[r] = "Prepared" => host[seal[r].turn] = p

\* A batch is opened and closed as one, by the launch whose request it is: neither
\* the app's exit under a running worker nor the recovery of the next start
\* touches the batch of another launch that may still be sending.
BatchesAreOwned == BodyAgrees /\ LiveBatchPrepared /\ RecoveredClean

\* start_new_conversation has written the revocation of t and is about to cancel
\* its token.
BeingReplaced(t) ==
  \E p \in Launch : run[p] = "owner" /\ frame[p] = "replacing" /\ active[p] = t

\* No worker goes on sending under a scope that is on record as revoked: its token
\* is cancelled as well, or the worker has ended, except within the one step of
\* start_new_conversation between the two.  It rests on the remembered scope never
\* outliving the turn in stream_cancel, whichever of poll_async, submit_chat, the
\* terminal event, a failed statement or the gate drops or replaces one of them.
RevokedMeansStopped ==
  \A t \in Turn :
    consent[t] = "Revoked" => cancelled[t] \/ ~Live(t) \/ BeingReplaced(t)

\* The receipts of each body implement the ledger: recorded in full before the
\* body is transmitted, closed once, never in contradiction with the network.
Recorded(b) == {r \in Receipt : status[r] # "Absent" /\ seal[r].body = b}
record == [b \in Body |->
  IF carried[b] # {} /\ carried[b] = {seal[r].call : r \in Recorded(b)}
  THEN status[CHOOSE r \in Recorded(b) : TRUE] ELSE "Unrecorded"]
Ledger == INSTANCE ReceiptLedger
ImplementsLedger == Ledger!Spec

\* Without database faults no receipt stays open for as long as its launch runs:
\* every way out of a round closes the batch (PendingEgress and its Drop).
BatchCloses ==
  \A r \in Receipt :
    status[r] = "Prepared" ~> status[r] # "Prepared" \/ run[host[seal[r].turn]] = "gone"

\* Without database faults a withdrawal by a control is recorded on the durable
\* scope while the launch runs, even if the turn has ended by the next frame.
WithdrawalRecorded ==
  \A p \in Launch, t \in Turn :
    run[p] = "owner" /\ frame[p] = "top" /\ active[p] = t
      ~> consent[t] = "Revoked" \/ run[p] # "owner"

\* Every open promise is settled by the launch that made it.
PromisesAreSettled == BatchCloses /\ WithdrawalRecorded
=============================================================================
