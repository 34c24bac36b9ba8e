----------------------------- MODULE AgentLoop ------------------------------
(***************************************************************************)
(* One run of the agent loop (mentat-analysis, agent_loop.rs): provider    *)
(* rounds alternating with repository tool calls, under the budgets of     *)
(* AgentLimits, one cancel token and one overall time limit.               *)
(*                                                                         *)
(* Actors: the worker that runs the loop, the provider behind the adapter, *)
(* and the UI thread, which cancels the token and marks the repository     *)
(* stale at any moment.  A text is the number of deltas it is made of: the *)
(* loop only concatenates texts, in order.                                 *)
(***************************************************************************)
EXTENDS Naturals, Sequences

CONSTANTS
  MaxRounds,    \* AgentLimits.max_rounds
  MaxCalls,     \* AgentLimits.max_tool_calls
  MaxBytes,     \* AgentLimits.max_tool_result_bytes
  Call,         \* fingerprints of tool calls: name, arguments, snapshot
  StatusCall,   \* those of repo_status, the one tool a stale snapshot serves
  Opens,        \* [Call]: how many files the call may open: none for a listing, one
                \* for read_file_lines, up to all of the snapshot for search_text
  Batch,        \* sequences of calls one round may request (a bound)
  MaxSize,      \* largest tool result (a bound)
  MaxDelta      \* text deltas of a whole run (a bound)

ASSUME LimitsAssumption ==
  /\ MaxRounds \in Nat /\ MaxCalls \in Nat /\ MaxBytes \in Nat
  /\ MaxSize \in Nat /\ MaxDelta \in Nat
ASSUME BatchAssumption == Batch \subseteq Seq(Call) \ {<<>>}
ASSUME OpensAssumption == Opens \in [Call -> SUBSET Nat]

VARIABLES
  at,         \* where the worker is: the top of a round, waiting for response
              \* headers, reading the stream, between calls, inside a call (see
              \* "Tool calls" below)
  audit,      \* the response contract asks for an AnswerBundle
  grounded,   \* the turn has a repository: context, trace and gateway
  cancelled,  \* the token
  stale,      \* RepositoryToolGateway.stale
  round,      \* the for loop's round
  prior,      \* prior_round_text
  text,       \* round_text, which is also the adapter's full_text
  shown,      \* text the event sink has handed to the UI and the delta writer
  streamed,   \* deltas the provider has sent
  total,      \* total_calls
  bytes,      \* total_result_bytes
  seen,       \* [Call]: fingerprints
  todo,       \* calls of this round not finished yet
  left,       \* files the running call has still to open
  ran,        \* executions the gateway has begun
  asked,      \* tool calls in request.messages
  given,      \* tool results in request.messages
  carried,    \* their bytes
  traced,     \* records in trace.tool_calls
  outcome,    \* what run returned, as the terminal event the UI is sent
  lateReads,    \* history: file reads begun since the cancel
  lateResults,  \* history: tool results added to the request since the cancel
  staleResults  \* history: those that describe the snapshot, since it was marked

env == <<audit, grounded, cancelled, stale>>
words == <<prior, text, shown, streamed>>
budget == <<round, total, bytes, seen, ran>>
pending == <<todo, left>>
late == <<lateReads, lateResults, staleResults>>
request == <<asked, given, carried, traced, late>>
vars == <<at, env, words, budget, pending, request, outcome>>

InTool == {"tool", "looked", "read"}
Places == {"top", "wait", "stream", "calls", "fresh", "returned"} \cup InTool
RepeatLimit == 3   \* *repeated >= 3

NoOutcome == [event |-> "none", code |-> "none", text |-> 0]
Codes == {"none", "CANCELLED", "AGENT_LOOP_LIMIT_REACHED", "AGENT_LOOP_REPEATED_CALL",
          "REPOSITORY_TOOL_UNAVAILABLE", "REPOSITORY_REINDEX_REQUIRED",
          "TOOL_RESULT_LIMIT_REACHED", "TOOL_FAILED", "PROVIDER_FAILED",
          "AUDIT_RESPONSE_INVALID"}

Init ==
  /\ at = "top"
  /\ audit \in BOOLEAN /\ grounded \in BOOLEAN
  /\ cancelled = FALSE /\ stale = FALSE
  /\ round = 1
  /\ prior = 0 /\ text = 0 /\ shown = 0 /\ streamed = 0
  /\ total = 0 /\ bytes = 0 /\ ran = 0
  /\ seen = [p \in Call |-> 0]
  /\ todo = <<>> /\ left = 0
  /\ asked = 0 /\ given = 0 /\ carried = 0 /\ traced = 0
  /\ lateReads = 0 /\ lateResults = 0 /\ staleResults = 0
  /\ outcome = NoOutcome

-----------------------------------------------------------------------------
(* Ways to return.                                                          *)

Return(event, code, payload) ==
  /\ at' = "returned"
  /\ outcome' = [event |-> event, code |-> code, text |-> payload]
  /\ UNCHANGED env

\* Err: chat_app sends the UI a Failed event and AgentFinished(Err).
Fails(code) == Return("Failed", code, 0)

\* cancellation_payload: an audit answer keeps nothing.
ReturnCancelled(partial) ==
  Return("Cancelled", "CANCELLED", IF audit THEN 0 ELSE partial)

-----------------------------------------------------------------------------
(* The top of a round.                                                      *)

CancelledAtTop ==
  /\ at = "top" /\ round <= MaxRounds /\ cancelled
  /\ ReturnCancelled(prior)
  /\ UNCHANGED <<words, budget, pending, request>>

RoundsExhausted ==
  /\ at = "top" /\ round > MaxRounds
  /\ Fails("AGENT_LOOP_LIMIT_REACHED")
  /\ UNCHANGED <<words, budget, pending, request>>

\* infer_round_stream_guarded: the whole request goes to the adapter.
RequestRound ==
  /\ at = "top" /\ round <= MaxRounds /\ ~cancelled
  /\ at' = "wait"
  /\ UNCHANGED <<env, words, budget, pending, request, outcome>>

-----------------------------------------------------------------------------
(* The adapter and the provider.                                            *)

Headers ==
  /\ at = "wait"
  /\ at' = "stream"
  /\ text' = 0
  /\ UNCHANGED <<env, prior, shown, streamed, budget, pending, request, outcome>>

\* The adapter or the gate returns an error, before or instead of a response.
RequestFails ==
  /\ at = "wait"
  /\ Fails("PROVIDER_FAILED")
  /\ UNCHANGED <<words, budget, pending, request>>

\* The adapter, or its gate, sees the token: MentatError::Cancelled, which ?
\* turns into the error of the whole run.
RequestCancelled ==
  /\ at = "wait" /\ cancelled
  /\ Fails("CANCELLED")
  /\ UNCHANGED <<words, budget, pending, request>>

\* One TextDelta.  The adapter's select is not biased, and the lines of one
\* chunk are yielded without looking at the token.
Delta ==
  /\ at = "stream" /\ streamed < MaxDelta
  /\ streamed' = streamed + 1
  /\ text' = text + 1
  /\ shown' = IF audit THEN shown ELSE shown + 1
  /\ UNCHANGED <<at, env, prior, budget, pending, request, outcome>>

\* The adapter's stream sees the token and yields Failed("CANCELLED").
StreamCancelled ==
  /\ at = "stream" /\ cancelled
  /\ ReturnCancelled(prior + text)
  /\ UNCHANGED <<words, budget, pending, request>>

\* A read error, a limit of the stream or a malformed tool call; a stream that
\* ends without a terminal event is an error of the run.
StreamFails ==
  /\ at = "stream"
  /\ Fails("PROVIDER_FAILED")
  /\ UNCHANGED <<words, budget, pending, request>>

\* RawCompleted under AdvisorMarkdown: every round's text is the answer.
Completed ==
  /\ at = "stream" /\ ~audit
  /\ Return("Completed", "none", prior + text)
  /\ UNCHANGED <<words, budget, pending, request>>

\* RawCompleted under AuditAnswerBundle: the bundle is checked against the
\* trace, which must exist; its content decides the rest.
AuditChecked ==
  /\ at = "stream" /\ audit
  /\ \/ grounded /\ Return("Completed", "none", 0)
     \/ Fails("AUDIT_RESPONSE_INVALID")
  /\ UNCHANGED <<words, budget, pending, request>>

-----------------------------------------------------------------------------
(* Tool calls.  The loop is at "calls" before it takes the next call, at      *)
(* "fresh" once execute has found the snapshot fresh, and in InTool once it   *)
(* has found the token alive too: at "tool" between two files, at "looked"    *)
(* when it has looked at the token again and is about to open a file, and at  *)
(* "read" until that file is read.  The token may be cancelled, and the       *)
(* snapshot marked, between any two of these.                                 *)

Requested ==
  /\ at = "stream"
  /\ prior' = prior + text
  /\ UNCHANGED <<text, shown, streamed>>

\* Refused before anything runs: no gateway, or too many calls in this run.
ToolCallsRefused(calls) ==
  /\ Requested
  /\ IF grounded
     THEN /\ total' = total + Len(calls) /\ total' > MaxCalls
          /\ Fails("AGENT_LOOP_LIMIT_REACHED")
     ELSE UNCHANGED total /\ Fails("REPOSITORY_TOOL_UNAVAILABLE")
  /\ UNCHANGED <<round, bytes, seen, ran, pending, request>>

\* Slip: the limit is applied to the batch.
ToolCallsPerBatch(calls) ==
  /\ Requested /\ grounded
  /\ Len(calls) <= MaxCalls
  /\ total' = total + Len(calls)
  /\ asked' = asked + Len(calls)
  /\ todo' = calls
  /\ at' = "calls"
  /\ UNCHANGED <<env, round, bytes, seen, ran, left, given, carried, traced, late, outcome>>

ToolCalls(calls) ==
  /\ Requested /\ grounded
  /\ total + Len(calls) <= MaxCalls
  /\ total' = total + Len(calls)
  /\ asked' = asked + Len(calls)
  /\ todo' = calls
  /\ at' = "calls"
  /\ UNCHANGED <<env, round, bytes, seen, ran, left, given, carried, traced, late, outcome>>

Count == seen' = [seen EXCEPT ![Head(todo)] = @ + 1]
Repeats == seen[Head(todo)] + 1 >= RepeatLimit
StaleRefuses == stale /\ Head(todo) \notin StatusCall

\* The call is refused: repeated, out of the tool's schema, or on a stale snapshot.
CallRefused ==
  /\ at = "calls"
  /\ Count
  /\ \/ Repeats /\ Fails("AGENT_LOOP_REPEATED_CALL")
     \/ ~Repeats /\ Fails("TOOL_FAILED")
     \/ ~Repeats /\ StaleRefuses /\ Fails("REPOSITORY_REINDEX_REQUIRED")
  /\ UNCHANGED <<words, round, total, bytes, ran, pending, request>>

\* execute finds the call well formed and the snapshot fresh.
SnapshotIsFresh ==
  /\ at = "calls"
  /\ ~Repeats /\ ~StaleRefuses
  /\ Count
  /\ at' = "fresh"
  /\ UNCHANGED <<env, words, round, total, bytes, ran, pending, request, outcome>>

\* execute looks at the token and begins; what it finds to open depends on the tool.
CallBegins ==
  /\ at = "fresh" /\ ~cancelled
  /\ ran' = ran + 1
  /\ left' \in Opens[Head(todo)]
  /\ at' = "tool"
  /\ UNCHANGED <<env, words, round, total, bytes, seen, todo, request, outcome>>

\* Slip: a call that has begun does not look at the token again.
TokenSeenOnce ==
  /\ at = "tool" /\ left > 0
  /\ left' = left - 1
  /\ at' = "looked"
  /\ UNCHANGED <<env, words, budget, todo, request, outcome>>

\* search_text looks at the token before every file, read_file_lines before its one.
TokenIsAlive ==
  /\ at = "tool" /\ left > 0 /\ ~cancelled
  /\ left' = left - 1
  /\ at' = "looked"
  /\ UNCHANGED <<env, words, budget, todo, request, outcome>>

\* Any of these looks finds the token cancelled, the ones at files a search does not
\* open included.
CallCancelled ==
  /\ cancelled
  /\ at = "fresh" \/ (at = "tool" /\ Opens[Head(todo)] # {0})
  /\ Fails("CANCELLED")
  /\ UNCHANGED <<words, budget, pending, request>>

\* read_file_content is called, and no longer looks at anything.
ReadBegins ==
  /\ at = "looked"
  /\ at' = "read"
  /\ lateReads' = IF cancelled THEN lateReads + 1 ELSE lateReads
  /\ UNCHANGED <<env, words, budget, pending, asked, given, carried, traced, lateResults,
                 staleResults, outcome>>

\* The file is read, or left out with an omission, and a search goes on, be it past
\* files it does not open.
NextFile ==
  /\ at = "read" /\ Opens[Head(todo)] # {1}
  /\ at' = "tool"
  /\ UNCHANGED <<env, words, budget, pending, request, outcome>>

\* A bad argument, a read error, a live hash that differs, a result over 64 KiB.
CallFails ==
  /\ at \in InTool
  /\ Fails("TOOL_FAILED")
  /\ UNCHANGED <<words, budget, pending, request>>

\* The call has opened all it had to open, or reached its limit of hits.
CallIsDone == at = "read" \/ (at = "tool" /\ left = 0)

ResultTooLarge(size) ==
  /\ CallIsDone
  /\ bytes' = bytes + size /\ bytes' > MaxBytes
  /\ Fails("TOOL_RESULT_LIMIT_REACHED")
  /\ UNCHANGED <<words, round, total, seen, ran, pending, request>>

\* Slip: the next round starts after the first result of a batch.
CallReturnsOne(size) ==
  /\ CallIsDone
  /\ bytes' = bytes + size /\ bytes' <= MaxBytes
  /\ given' = given + 1 /\ carried' = carried + size /\ traced' = traced + 1
  /\ todo' = <<>> /\ left' = 0
  /\ at' = "top" /\ round' = round + 1
  /\ UNCHANGED <<env, words, total, seen, ran, asked, late, outcome>>

\* The result is recorded in the trace, then joins the request; after the last
\* one of the batch the next round begins.
CallReturns(size) ==
  /\ CallIsDone
  /\ bytes' = bytes + size /\ bytes' <= MaxBytes
  /\ given' = given + 1 /\ carried' = carried + size /\ traced' = traced + 1
  /\ todo' = Tail(todo) /\ left' = 0
  /\ IF Tail(todo) = <<>> THEN at' = "top" /\ round' = round + 1
                          ELSE at' = "calls" /\ UNCHANGED round
  /\ lateResults' = IF cancelled THEN lateResults + 1 ELSE lateResults
  /\ staleResults' = IF StaleRefuses THEN staleResults + 1 ELSE staleResults
  /\ UNCHANGED <<env, words, total, seen, ran, asked, lateReads, outcome>>

-----------------------------------------------------------------------------
\* Slips: the time limit covers the request only; it has an event of its own.
TimeLimitRequestOnly ==
  /\ at = "wait"
  /\ Fails("AGENT_LOOP_LIMIT_REACHED")
  /\ UNCHANGED <<words, budget, pending, request>>

TimeLimitOwnEvent ==
  /\ at \in {"wait", "stream", "read"}
  /\ Return("TimedOut", "AGENT_LOOP_LIMIT_REACHED", 0)
  /\ UNCHANGED <<words, budget, pending, request>>

\* tokio::time::timeout around the whole run: it can strike at any await.
TimeLimit ==
  /\ at \in {"wait", "stream", "read"}
  /\ Fails("AGENT_LOOP_LIMIT_REACHED")
  /\ UNCHANGED <<words, budget, pending, request>>

\* The UI thread: any withdrawal cancels the token; the watcher's change marks
\* the gateway stale (and then cancels).
Cancel ==
  /\ at # "returned" /\ ~cancelled
  /\ cancelled' = TRUE
  /\ UNCHANGED <<at, audit, grounded, stale, words, budget, pending, request, outcome>>

MarkStale ==
  /\ at # "returned" /\ grounded /\ ~stale
  /\ stale' = TRUE
  /\ UNCHANGED <<at, audit, grounded, cancelled, words, budget, pending, request, outcome>>

\* Steps without an await: the worker takes them once it is scheduled.
Local ==
  \/ CancelledAtTop \/ RoundsExhausted \/ RequestRound
  \/ CallRefused \/ SnapshotIsFresh \/ CallBegins \/ CallCancelled
  \/ TokenIsAlive \/ ReadBegins

Provider ==
  \/ Headers \/ RequestFails \/ RequestCancelled
  \/ Delta \/ StreamCancelled \/ StreamFails \/ Completed \/ AuditChecked
  \/ \E calls \in Batch : ToolCallsRefused(calls) \/ ToolCalls(calls)

Repository ==
  \/ NextFile \/ CallFails
  \/ \E size \in 0..MaxSize : ResultTooLarge(size) \/ CallReturns(size)

Next == Local \/ Provider \/ Repository \/ TimeLimit \/ Cancel \/ MarkStale

Spec == Init /\ [][Next]_vars

\* The runtime runs the worker and its timer, and a call with nothing more to open
\* ends.  Nothing is promised of the provider, the disk or the user.
Fairness ==
  /\ WF_vars(Local) /\ WF_vars(TimeLimit)
  /\ WF_vars(at = "tool" /\ Repository)

FairSpec == Spec /\ Fairness

-----------------------------------------------------------------------------
(* Properties.                                                              *)

TypeOK ==
  /\ at \in Places
  /\ audit \in BOOLEAN /\ grounded \in BOOLEAN
  /\ cancelled \in BOOLEAN /\ stale \in BOOLEAN
  /\ round \in Nat
  /\ prior \in Nat /\ text \in Nat /\ shown \in Nat /\ streamed \in Nat
  /\ total \in Nat /\ bytes \in Nat /\ ran \in Nat
  /\ seen \in [Call -> Nat]
  /\ todo \in Seq(Call) /\ left \in Nat
  /\ asked \in Nat /\ given \in Nat /\ carried \in Nat /\ traced \in Nat
  /\ lateReads \in Nat /\ lateResults \in Nat /\ staleResults \in Nat
  /\ outcome \in [event : {"none", "Completed", "Cancelled", "Failed"},
                  code : Codes, text : Nat]

\* However the provider splits its requests over rounds, a run begins at most
\* MaxCalls tool executions, never runs the same call three times, makes no
\* request past MaxRounds and never sends more than MaxBytes of results.
BudgetsHold ==
  /\ ran <= MaxCalls
  /\ carried <= MaxBytes
  /\ at \in InTool => seen[Head(todo)] < RepeatLimit
  /\ at \in {"wait", "stream", "calls", "fresh"} \cup InTool => round <= MaxRounds

\* Every request that leaves the loop is complete: each tool call in it has its
\* result, each result was counted against the byte budget and has a record in
\* the grounding trace.
RequestComplete ==
  /\ at \in {"top", "wait", "stream"} => asked = given /\ carried = bytes
  /\ given = traced

\* The text of a completed or cancelled answer is exactly what was streamed to
\* the UI and the delta writer over all rounds; an audit answer streams nothing.
FinalTextIsShown ==
  /\ outcome.event \in {"Completed", "Cancelled"} => outcome.text = shown
  /\ audit => shown = 0

\* What the loop sends to the provider, and what it hands to the store, accounts
\* for every call, result and text of all rounds.
AccountsHold == RequestComplete /\ FinalTextIsShown

\* A stop takes hold within one step of the work it stops, wherever in the search, the
\* batch or the rounds it falls: after the cancel at most one more file is opened, by a
\* worker that had already looked, and at most one more result joins the request; once
\* the snapshot is marked, at most one more result describes it.
StopTakesHold == lateReads <= 1 /\ lateResults <= 1 /\ staleResults <= 1

\* The run returns, even if the provider or the disk never answers.
Returns == <>(at = "returned")
=============================================================================
