# Code Mentat: TLA+ models, checks and proofs

Code Mentat is a desktop chat program that answers questions about a local
repository.  A question becomes a *turn*; a worker runs an *agent loop* that
alternates provider rounds with read-only repository tool calls; excerpts that go
to a cloud provider are sealed by durable *receipts*; the answer streams to the
screen and to a SQLite store, with the evidence it rests on.  This directory models
the program from the opening of its database to the stored audit answer, wherever the
order of steps, a failure or a limit decides correctness.

## 1. Inventory

Paths are relative to `src/crates/`.

| Component | State it keeps | Operations | Hard behaviour |
|---|---|---|---|
| Tool egress: `mentat-app/src/tool_egress_gate.rs`, `mentat-storage/src/grounding_store.rs`, `mentat-analysis/src/tool_egress.rs`, `PendingEgress` in `mentat-inference/src/lib.rs`, the agent rounds of both adapters | receipts, consent scopes, the shared cancel token, the ids of the pending batch | approve an exact body, send, close the batch, revoke | cancel and withdrawal race with approval and sending; a dropped future; a failed statement; a dying process; two program starts |
| Runtime ownership: `mentat-storage/src/db.rs`, `mentat-platform/src/lib.rs` | lock file, owner row | open, recover, drop | the lock must live as long as any clone of the storage |
| Chat turn: `mentat-app/src/chat_app.rs`, `stream_store.rs`, `mentat-storage/src/conversation.rs` | the conversation on screen, `active_turn`, the event channel; conversations, turns, messages, traces | submit, stream, complete, cancel, fail, replace, delete, restart | the delta writer against the terminal update; events of replaced turns; a commit that fails; restart recovery |
| Agent loop: `mentat-analysis/src/agent_loop.rs` | round, budgets, fingerprints, request messages, trace, texts | round, tool call, return | cancel and stale mark between any two steps; a provider that splits its requests or never answers |
| Repository gateway: `mentat-analysis/src/repository_tools.rs`, redaction in `egress.rs` | snapshot, catalog, stale mark | six read-only tools | files that change under a search, hash mismatch, result bounds and what they leave out |
| Provider adapters: `mentat-inference-openai/src/` | the byte buffer and the collected calls of one response | agent round, chat, request encoding, discover, verify, tool probe, health | chunks cut anywhere, broken and oversized bodies, cancel against a received chunk, silence |
| Audit answers: `validate_audit_bundle` in `agent_loop.rs`, `compose_verified_answer` | the trace of the turn | validate, compose, store, load | evidence must come from this turn's results, stored and reloaded whole |
| Prompt store: `mentat-storage/src/prompt_store.rs`, settings panel | profile, revisions, contents; the draft on screen | seed, load, apply, reset, restore, discard | several rows per edit, a draft kept over leaving and closing, a turn that names its revision |
| Provider setup: `mentat-app/src/provider_setup.rs` | draft, catalog, verification, active profile | discover, select, verify, activate, edit | late results for an edited draft |
| Credentials: `mentat-app/src/credential_state.rs`, `mentat-storage/src/secret_preferences.rs` | native secret, reference row | persist, restore, delete | one of two stores fails |
| Repository attach and watch: `mentat-repository/src/`, `scan_repository_path` | session, snapshot, generation, watcher, freshness | choose, scan, stop, attach, watch, mark stale | a scan of a replaced conversation; a watcher that dies; a change during an answer |
| Opening, migration, quarantine: `mentat-storage/src/db.rs`, `chat_app.rs` | lock, schema version, backups, quarantine directories | open, migrate, back up, quarantine, session without storage, delete for privacy | a crash or a failure between any two steps |
| Core types | none | pure functions | none |
| Semantic kernel, detector, search, evidence | none | heuristics over file lists | none |
| Redaction packets and consent of the old window: `egress.rs`, `consent.rs` | - | - | not reached from the running window |
| Legacy `app.rs`, widgets, theme and hotkeys; local llama contract, fake backend, harness; xtask | - | - | not part of the running core |

How they interact: the UI thread runs `poll_async` and then the controls, once per
frame.  It talks to workers through one unbounded channel (`AsyncResult`) and one
`CancellationToken` per turn.  A worker owns clones of the storage, hands text to
its delta writer, and calls gate, adapter and gateway.  All writers meet in one
SQLite connection behind a mutex, so each transaction is atomic.

`PROJECT.json` lists every hazard at its line with the properties that cover it.

## 2. Modules

| Module | What it is |
|---|---|
| `ReceiptLedger` | abstract: what the audit trail promises of each provider body |
| `ToolEgress` | launches, UI thread, workers, gate, adapter and network around the receipts |
| `ToolEgressProofs` | inductive invariant of `ToolEgress`, the theorems drawn from it, and the refinement of `ReceiptLedger` |
| `TurnLifecycle` | abstract: what the store promises of each turn |
| `ChatTurn` | submission, worker, delta writer, event channel, terminal transactions, restart |
| `ChatTurnProofs` | two inductive invariants of `ChatTurn`, its theorems, and the refinement of `TurnLifecycle` |
| `AgentLoop` | one run of the loop under its budgets, cancel token and time limit |
| `AgentLoopProofs` | inductive invariant of `AgentLoop` and its theorems |
| `ProviderSetup` | the settings screen's draft, catalog and verification, the active AI, the remembered key, the reconnection at start, the consent box |
| `ProviderSetupProofs` | three inductive invariants of `ProviderSetup` and its theorems |
| `ProviderStream` | one response, from chunks to events, and the history sent with the next request; both adapters, both of their stream functions |
| `ProviderProbe` | discovery, verification, health and the tool probe, whose round is `ProviderStream`'s |
| `ProviderStreamProofs` | inductive invariants of `ProviderStream` and of `ProviderProbe`, and their theorems |
| `Workspace` | folder dialogs, scans, binding, watcher, stale marks, the freshness of answers |
| `WorkspaceProofs` | inductive invariant of `Workspace` and its theorems |
| `Ordering` | operator: the numbers of a set in their order, which both `ProviderStream` and `RepositoryTools` need |
| `RepositoryTools` | operators: what each of the six tools answers, with redaction, limits and omissions |
| `GroundedAnswer` | turns over `RepositoryTools`: trace, audit bundle, the storing transaction, reload |
| `GroundedAnswerProofs` | lemmas about the tools, inductive invariant of `GroundedAnswer` and its theorems |
| `PromptProfile` | operators: the transactions on the prompt history and what makes a history whole |
| `Startup` | opening the database, backup, migration, quarantine, privacy deletion, prompt settings over restarts |
| `StartupProofs` | theorems about the transactions of `PromptProfile`, inductive invariant of `Startup` and its theorems |
| `MC*` | small instances for TLC |

The `map` of `PROJECT.json` gives the source lines of every definition.
An operator under a comment that begins with `Slip` is a plausible mistake in the code beside
it; no action uses it, and put in place of the definition after it, it breaks a property.

### ToolEgress

Durable state is `consent` (`repository_consent_scopes`), `status` and `seal`
(`tool_egress_receipts`); it survives `Crash`.  `lock` is the kernel's file lock.
The rest is memory of a process or what the network has seen.

* `AcquireLock`, `OpenFails`, `Recover` are the three parts of
  `SqliteStorage::open`.  `Recover` is one transaction.  `LockAfter` is the `Arc`
  around the lock: freed only after the app's handle and the last worker's clone.
* A frame of the UI thread is one step per observable part: `PollTop` (revoke the
  remembered scope of a cancelled token), `RepositoryChanged`, `UiTerminal`, then
  the controls.  `Withdraw` stands for every control that cancels the token and does
  nothing else.  `start_new_conversation` is two steps because a worker can run
  between its revoke and its cancel.
* The worker is cut where another thread can act: between two inserts of
  `authorize_exact_body`, between the looks at the token (`CheckAuthorized`,
  `CheckCancelled`, `PollToken`), and around the send.  The biased select is two steps,
  `PollToken` and `StartSend`: a cancel between them does not hold the body back.  Three
  looks are one step with what they allow (`BeginAuthorize`, `SealResult`, `SendPlain`):
  what follows them touches nothing that the cancelling thread reads.  `Abandon` closes the
  batch the way `PendingEgress::finish` and its `Drop` do, with every combination of failing
  statements.
* The sealing digests are represented by what they bind: a receipt names its turn,
  body and call.  `SealResult` inserts only for the current body, as
  `verify_exact_body` makes sure.

### ChatTurn

Rows are `row` (message status), `closed` (`completed_at`), `text`, `place` (conversation
and sequence number, UNIQUE together), `trace`.  `TerminalTx` is
`apply_terminal_update_in_transaction`; `Complete` adds the final trace to the same
transaction; a transaction that conflicts or fails changes nothing. `SubmitBegin` and
`SubmitReady` are two steps because an old worker may run between `begin_turn` and the
spawn.  `OnStopped`, `OnFinished`, `OnStale` are the arms of `poll_async`; one event is one
step.  `NewConversation` and `DeleteConversation` leave the old worker running.
`DeleteConversation` may end with the rows erased and the screen as it was, when the
revocation inside `start_new_conversation` fails; `conv` is then no longer in `kept`, and
`SubmitBegin` fails there.  `Exit` stands for an orderly exit and for a crash: the store is
the same.  `Start` is `SqliteStorage::open` followed by the reload of the latest
conversation.

### AgentLoop

The variables are the locals of `run_bounded`.  Texts are counted in deltas, results
in bytes, calls are their fingerprints.  Provider, disk and user are the
environment.  A call passes the places of `at` one by one: `fresh` after the look at the stale
mark, `tool` after the look at the token, then for every file it opens (`Opens` says how many
a call may) `looked` after another look at the token and `read` while it is read; a cancel
or a mark may come between any two.  `lateReads`, `lateResults` and `staleResults` count
what happens after them.  A run that ends with an `Err` is recorded as the `Failed` event that
`submit_chat` makes of it.

### ProviderSetup

`draft`, `catalog`, `verified`, `active` and their capabilities are the fields of
`ProviderSetupState`; `asked` is what the spawned tasks carry until `poll_async` reads
their `AsyncResult`.  A target is a provider with its base URL.  A key is a model value
with the target it was typed for, so that a key in the wrong place shows; the list of
models and the capabilities carry the profile they were asked about, for the same
reason (the code does not keep these tags).

* One action per edit (`EditTarget`, `EditKey`, `ToggleRemember`, `SelectModel`) with
  all the frame does after it: `reconcile_edit`, the end of the proposed reconnection,
  the deletion of the key.
* `ActivateClicked` is `CredentialController::persist`, `save_backend_profile` with its
  compensation, and `activate`.  `FailedSaves` lists what each failing write leaves;
  `CrashWhileActivating` ends the process between two of the writes.
* `Start` restores row, preference and native item, falls back to `.env.local` for any
  Gemini profile without a key (`EnvKey`, whatever its base URL), and proposes the
  reconnection; `CatalogAccepted` and `VerdictAccepted` carry it on.
* `disk` is one record: the items are all stored under the id of the latest profile.

### ProviderStream and ProviderProbe

A response is a sequence of lines, a line two halves of which the second holds the
newline; `Chunk` delivers any number of halves.  `TakeLine` is one turn of the loop over
the buffer, `TakeDone` its end, `EndOfBody`, `ReadError` and `CancelSeen` the other arms
of the select.  A select that is not biased may take either ready arm.  `Body` is
`agent_wire.rs`: it may refuse a history, which `ResultsAnswerCalls` forbids.  The four
functions share the loop and differ in their decoders (`AddPiece`, `AddCall`) and their
endings (`FinishOpenAi`, `EndOfBody`).  `NextRound` sends the results with the history.

In `ProviderProbe`, `Ask` is everything up to the request, `HeadRefused`, `HeadAccepted`,
`HeadWithBody`, `Receive` and `BodyEnds` are the response and `parse_bounded_json`,
`NetworkFails` covers the per-request timeout, `RoundStep` the stream steps of the
tool probe, and `ProbeEnds` the verdict over its events.  A redirect is a refusal (the
client follows none).  The probe's token is never cancelled.

### Workspace

`gen` numbers the requests (`scan_generation`), `epoch` the conversations as the results
carry them, `job[g]` is a dialog or a scan with what it has read, `task[t]` a turn's worker.
A file is a version number.  `ScanFile` reads one file of a scan; the disk may change
between two of them.  `Attach` is the `RepositoryScanned` arm of `poll_async` to its end,
with the row of the recent list, the conversation's row and the start of a watcher;
`ScanNotKept` is the same arm when a statement fails.  Every failure spends one of
`MaxFaults` (`Fails`).  `recent` is a set of rows, each with the request that opened it
last, of which `list_recent_repos` returns the newest.  The watcher takes its first
signature on its own thread after the binding (`WatchStarts`), handles events one by one,
and may die.  `PollWatch` is the part of `poll_async` that marks the gateway stale, cancels
the turn and corrects the shown and stored freshness.

### RepositoryTools and GroundedAnswer

A file has a path, lines and what the scan said of it; on disk it is as scanned, changed or
gone.  A tool is a function from call and disk to a result with content, references and
omissions, its limits and `TOOL_RESULT_LIMIT_REACHED` included; only `search_text` takes
several steps (`BeginSearch`, `SearchFile`, `EndSearch`), because it opens one file after
the other.  Sizes are counted in lines, paths and references. Secrets are the classes of
text that the passes of the filter tell apart, so that their order matters (a block over
lines, then line by line, then random strings).  A second pass over what the first one left
changes nothing in the model (`RedactSettles`); in the code (`egress.rs:660`) it can only
remove more, which no property counts on not to happen.  What the code filters and sorts in
place is stated by what results: `Ascending` puts the numbers of a set in order, and
`Redact`, `Catalog` and `Hits` take lines and files in that order.

`CallTool` is one call with its record in the trace; a round has one call (batches, repeats
and budgets are `AgentLoop`'s).  `CompleteAudit` takes any bundle and does what
`validate_audit_bundle` and `compose_verified_answer` do.  `Finish` is the terminal
transaction with `write_grounding_trace_in_transaction`, `FinishFails` its rollback.
`Restart` recovers open turns and loads what the screen shows from the database.

### PromptProfile and Startup

`PromptProfile` holds the transactions of `prompt_store.rs` as functions on a history:
contents per layer, revisions, the active one.  `Startup` calls them: `Seed` and `Apply`
are one transaction each.  `panel` is the settings screen: the draft, whether it is dirty, and
the leaving or closing that waits for a decision about it.

`app.pc` is where `SqliteStorage::open` is: lock, file, backup, one migration per step,
integrity check, recovery, seeding; or in the quarantine, or running without storage.
`OpeningFails` is an error at any of them, `Crash` an end between any two, `Damage` the loss
of a page, of the header, or of the parent of a row.  `Migrate` may meet a damaged page or
not; only the last migration reports it as corruption.  `Discard` reads the stored texts
back, or fails to, counts the draft as clean, and takes the action asked for; a close may
fail and leave the window open.  `BeginDelete`, `RemoveCopy`, `CleanupStops`, `Erase` are
`delete_conversation` with `remove_privacy_backups`, one copy at a time.  Tables are sets of
names per version (`Version1` .. `Version6`), so a migration that forgets one shows.

## 3. Runs

Twelve runs; eleven must pass, one must be violated.

| Run | Question | Instance | Distinct states |
|---|---|---|---|
| `ToolEgressSafety` | Do receipts ever contradict the network, each other or the lock owner? Do they implement `ReceiptLedger`? Does a worker go on under a revoked scope? | 2 launches, 2 turns, 2 bodies, 2 calls, 2 receipts, faults, symmetry | 685,394 |
| `ToolEgressLiveness` | Is every batch closed, every withdrawal recorded? | 1 launch, 2 turns, no faults | 60,861 |
| `ChatTurnFaults` | Does Completed mean, stored and shown, that the turn's own run completed with its trace? Do the stored turns implement `TurnLifecycle` when any statement may fail? | 2 turns, 2 conversations, 1 delta, faults, symmetry | 3,566,318 |
| `ChatTurnScreen` | Does the idle screen agree with the store? Does every begun turn end? | 2 turns, 3 conversations, no faults | 563,344 |
| `AgentLoopSafety` | Budgets, complete requests, text accounts; how far does a stop let work go on? Does the run return? | 3 rounds, 4 calls, searches of up to 2 files, 3 bytes, 3 deltas | 425,438 |
| `ProviderSetupFaults` | Is a late answer ever taken for the present draft? Is one request in flight at most, and do the buttons come back? | 3 targets, 2 keys, 2 models, faults | 390,982 |
| `ProviderSetupKeys` | Does a key reach only its own target, over restarts? Do the two stores agree? | 4 targets, of which 2 Gemini's, 4 keys, 2 models, no faults, symmetry | 35,056 |
| `ProviderStream` | Is what reaches the loop, and what the settings are told, what the provider said, whole? Does silence end? | 4 functions, 3 lines, any chunks; bodies of up to 3 pieces with 2 entries | 332,891 |
| `Workspace` | Is the bound snapshot the present request's? Does any answer pass for fresh that is not? Are changes and scans taken up? | 1 git folder, 2 files of which 1 is ignored, 4 requests, 3 conversations, 1 turn, 1 edit, 1 fault | 435,721 |
| `WorkspaceReopened` | Is a folder known again when it is opened again? (violated) | 2 folders, a recent list of 1, no faults | |
| `Startup` | Is data lost or kept against the user's will, whatever breaks off? Is the prompt history whole? Does storage come back? | 1 conversation, versions 4 and 6, 3 revisions, 2 faults | 949,519 |
| `GroundedAnswer` | Is evidence what was scanned, are omissions said, do audit answers rest on their own turn, does what is stored stay? | 6 files, 17 calls of 6 tools, 2 turns with 2 calls in all, 1 fault | 654,912 |

Bounds.  Two launches are enough for one to recover what the other left, and for a
start that meets the lock.  Two turns give overlapping workers of a replaced
conversation.  Two receipts allow two bodies with one result each or one body with
both, the smallest batch that can disagree.  In `ChatTurn`, two turns in two or three
conversations give a second turn in the same conversation and in its replacement; one
delta is enough for a writer that appends before or after the end.  In `AgentLoop`,
four calls in three rounds cross every budget in the middle of a batch, and the same
call occurs twice in one batch and again in the next round; a search of two files has a
stop before, between and in its reads.  In `ProviderSetup` the
three targets are the default one, another remote one and one without a key;
`ProviderSetupKeys` adds Gemini with an edited URL and a key of `.env.local` next to the
typed one, so that a key changes without the target and the target without the key;
two models let the choice change within one list.
Edits, requests and restarts are not bounded in `ProviderSetup`.

Three lines, each cut in two, are enough for a call whose arguments come in two pieces
and its `[DONE]`, for a text torn by a chunk, and for a second round after a first one of
one line.  `MaxStream`, `MaxBuffer`, `ArgLimit` and `CallLimit` are so small that each limit
is met.  In `Workspace`, four requests in three conversations give a scan whose result
arrives after a newer request, after a replaced conversation and after it was stopped; the two
files are one the watcher sees and one it does not.  `WorkspaceReopened` has a list of one
row in place of ten, and two folders in place of eleven.  In `Startup` two faults allow a
failure inside the recovery from another; an older version that needs two migrations allows
a stop between them.  In `GroundedAnswer` the six files are one of each kind the tools
tell apart; the calls include the ones that are refused, hit a limit exactly or exceed
it; two turns suffice for evidence of an earlier turn and for a repeated call id.

Faults.  `DbMayFail` lets any statement fail.  The properties that hold only without
faults have runs of their own and say so: with faults, a batch whose closing fails
twice waits for the next start, and `submit_chat` may leave a stored turn that the
screen does not have.  `MayFail` does the same for the native credential store and the
tables of `ProviderSetup`, and lets the process end inside an activation.  `Workspace`,
`Startup` and `GroundedAnswer` count their faults; the fault may happen at any step.

Fairness.  Workers: the multi-threaded runtime polls every task, and every wait of a worker
is bounded (request timeout, `AgentLoop::run`'s timeout), so each live worker takes a step.
UI: `update` repaints every 16 ms while a turn is active and drains the channel in every
frame.  In `AgentLoop` only the worker's own steps, those of a call between two reads
included, and the timer are fair; a read may never end.  In `ProviderSetup` only the results
of requests are: discovery and verification have a client timeout, and every frame drains
the channel.  In `ProviderProbe` the timer of each request (clamped to 5..300 seconds) and
the polling of a stream that has something to take; in `Workspace` the scan's thread, the
watcher's handling of events that reached it, and the frames that take results; in `Startup`
the constructor's own steps. Nothing is assumed of network, provider, disk, user, operating
system's file events or process.

### Where code and documents disagree

One run ends in a violation: `WorkspaceReopened`.  `find_repo_by_root` searches
`list_recent_repos`, which returns ten rows (`db.rs:281`), so an eleventh folder makes the
first one unknown; opened again, it gets a new id, and the insert violates the unique
root path (`db.rs:696`).  `session.rs:77` says the id is reused.

The others have no run of their own; the models contain them, and the properties are
stated so that they hold beside them (the hazards of `PROJECT.json` say where):

* `start_new_conversation` revokes the durable scope before it cancels the token
  (`chat_app.rs:2223`); a body can be sent in between.  `SECURITY_PRIVACY.md:90` and
  `ROADMAP.md:35` promise otherwise.  `RevokedMeansStopped` excepts that window only.
* The result of the terminal update of a stopped turn is dropped (`chat_app.rs:1995`): the
  screen says Cancelled, the store may not (`MULTI_AUDIT_2_REMEDIATION.md:12`).
* A cancel before the response headers, or inside a tool, is an error of the run and is
  stored as Failed (`agent_loop.rs:118`, `SYSTEM_ARCHITECTURE.md:517`).
* An activation cut short between native item and profile row leaves a new target's key
  with the old target (`credential_state.rs:48`, `WINDOW_SETTINGS_PERSISTENCE_PLAN.md:161`).
* The consent box stays ticked when an activation replaces the AI it names
  (`chat_app.rs:807`, `:587`); the remember box can be unticked where no button applies it.
* `submit_chat` on an empty conversation stores it a second time and drops the repository
  binding of its row (`SYSTEM_ARCHITECTURE.md:594`).
* In a folder without git the scan reads files that the watcher's ignore rules leave
  out (`watcher.rs:22`, `:69`, `spec.md:116`).
* After the deletion of the conversation on screen, `start_new_conversation` may return
  at a failed revocation (`chat_app.rs:2224`) and leave it there, Completed answers included
  (`ShownCompletedIsStored` excepts a deleted conversation); submissions then fail on the
  foreign key until it is replaced.  `chat_app.rs:1583` returns after `begin_turn` and leaves the
  stored turn to the next start.
* Gemini's older chat stream can yield Completed after Failed
  (`SYSTEM_ARCHITECTURE.md:368`), which is why `RoundIsWhole` asks for a single end of agent
  rounds only.
* A quarantine cut short makes the next start create a new database without the notice.
* A damaged page met by a migration before the last is a `STORAGE_MIGRATION_Vn_FAILED`
  (`db.rs:1010`), a row without its parent a `STORAGE_FOREIGN_KEY_FAILED` (`db.rs:1101`);
  neither is quarantined, so every later start runs without storage.  `StorageComesBack`
  excepts these two and a version from the future (`NoWayOut`).
* A discarded draft counts as clean even if the stored texts could not be read back
  (`chat_app.rs:1231`); the draft is then still shown.
* The key of `.env.local` is loaded for a Gemini profile whose base URL was edited
  (`chat_app.rs:250`), and goes there; `OwnKeysOnly` excepts it.
* A search that has begun goes on reading after the snapshot was marked stale; each file is
  checked against its scanned hash, and `StopTakesHold` allows one such result.
* `search_text` that ends at its limit records no omission; `NothingSilentlyOmitted`
  excepts it.  A content cut to 64 KiB is refused afterwards by the limit of the whole
  result, so its omission reaches nobody (NFR-017, `spec.md:194`).  A file
  named as a private key block begins takes the names after it out of a list; that is the
  hypothesis `PlainNames` of section 4.
* `tool_call_records.call_id` is unique over all turns while providers choose the
  ids: a repeated one makes a completed turn fail.  `EvidenceIsKept` holds because of it.
* `SYSTEM_ARCHITECTURE.md:574` documents a table `tool_omissions` that no migration creates.

## 4. Proofs

TLAPS checks these for every value of the constants, from the modules' own
assumptions, which TLC evaluates in every run: distinct "none" values, natural bounds,
and of the scan (`ToolsAssumption`) that name, rank and path each identify a file.  `None` is
no error code and no refusal (`NoErrorAssumption`, `NoRefusalAssumption`,
`NoneAssumption`).  A theorem about runs without faults says so in its hypothesis
(`~DbMayFail`, `FaultFree`), and `ResultsTellWhatTheyOmit` has one about names
(`PlainNames`).  All 33 properties of the passing runs that are not liveness are theorems.

| Module | Theorems | Rest on |
|---|---|---|
| `ToolEgressProofs` | `TypeOK`, `ReceiptsMatchNetwork`, `BatchesAreOwned`, `RevokedMeansStopped`, `ImplementsLedger` | `IInv` |
| `AgentLoopProofs` | `TypeOK`, `BudgetsHold`, `AccountsHold`, `StopTakesHold` | `IInv` |
| `ProviderSetupProofs` | `TypeOK`, `OneRequest`, `SetupIsCurrent`; without faults `KeysStayPaired` | `IInv`, `KeyInv`, `PairInv` |
| `ChatTurnProofs` | `TypeOK`, `EndsAreConsistent`, `ImplementsLifecycle`, `Numbered`; without faults `IdleIsSettled` | `IInv`, `Settled` |
| `WorkspaceProofs` | `TypeOK`, `BindingIsCurrent`, `FreshnessHolds`, snapshots are final | `IInv` |
| `StartupProofs` | `TypeOK`, `DataIsKept`, `PromptsAgree`; operators: what a transaction writes | `IInv` |
| `ProviderStreamProofs` | `TypeOK`, `RoundIsWhole`, `ResultsAnswerCalls`; `ProbeTypeOK`, `VerdictIsEarned` | `IInv`, `ProbeInv` |
| `GroundedAnswerProofs` | `TypeOK`, `EvidenceIsOriginal`, `AuditIsGrounded`, `EvidenceIsKept`; if names are plain `NothingSilentlyOmitted` | `IInv` |

The inductive invariants were also checked by TLC on the instances of the runs.  Why they
are needed:

`ToolEgressProofs`.  `FailedNeverSent` needs to know
that a batch closed `Failed` belongs to a body that was not sent (`Approved`), that
two turns never share a body (`Bodies`), and that only the lock owner's recovery
touches other turns' receipts.  `LiveBatchPrepared` and `RecoveredClean` need
`Ownership`: a live worker's launch holds the lock.  `Receipts` binds every receipt to
an existing body.  The argument: `LedgerShape` shows that each step either leaves the
ledger alone, or is a recovery, a new body, a new receipt, a transmission or the
closing of one turn's batch; each property is then preserved case by case.
`ReceiptsImplementLedger` maps each kind to a step of `ReceiptLedger` or a stutter: the
record of a body is the status its receipts share (`RecordMeans`), which is a function only
because they never disagree (`BodyAgrees`), so the refinement rests on the safety theorems.
`RevokedTheorem` rests on `Remembered`, which ties the scope a window remembers to the turn
whose token it holds: a remembered scope is of that turn, or of one whose worker has
stopped or has a cancelled token.

`AgentLoopProofs`.  `IInv` adds `Calls` (asked = given +
queue, results traced and counted), `Budgets` (executions never exceed the accepted
calls) and `Texts` (what was shown is the text of the earlier rounds plus this
round's).  `StopTheorem` rests on `Stops`, which says for each place of `at` what may still be
counted there: at `looked` under a cancelled token the one late read is yet to come, at
`read` it may have been made, and anywhere the next look ends the run.

`ProviderSetupProofs`.  `IInv` adds `Asleep` (between launches nothing is in memory, so a
start begins anew) and `Graded` (a standing verification has a level), without which
`ActiveWasMeasured` is not inductive.  `OwnKeysTheorem` proves `OwnKeysOnly` from a second
invariant, `KeyInv`, under `FaultFree`: no store fails.  `KeyInv` says what the disk must hold
between launches: a stored key belongs to the target of the saved row, or is that of
`.env.local` and the row Gemini's.  With failing stores it does not hold (the torn
activation of section 3).  `PairedTheorem` rests
on a third invariant, `PairInv`: the remembered item and the row that
references it come and go together.

`ChatTurnProofs`.  `Ends` follows a completion from the run that returned (`EventsAreOwn`,
`HasOutcome`) over the event channel and the turn in the UI thread's hands (`CompletionIsOwn`,
`Staged`, `Activated`) to the row, and counts what the delta writer still holds (`Counted`).
`Order` is about sequence numbers: every conversation holds 1 to k (`Numbered`), nothing is
stored in one that was never created, and the screen's i-th turn has number i as long as the
conversation is kept (`Seated`); what has a view is in the list of the screen (`OnScreen`);
that is why `begin_turn` never meets the UNIQUE constraint.  Reloading the latest
conversation takes a largest id and sorts its rows, which is counted out in `MaxOfIds`
and `CountUpTo`.  `TurnsImplementLifecycle` goes through the actions: each writes the stored
turn as `TurnLifecycle` allows, or not at all.

`WorkspaceProofs`.  A result binds only if its request is the last (`Requests`: then the
window is busy with it and the conversation was not replaced) and its scan is whole
(`Snapshots`: what was read is what the folder holds).  Freshness needs to know who may still
answer (`Workers`), what the watcher has yet to report (`Watches`) and where the store may be
behind (`Answers`).

`StartupProofs`.  `Kept` is about what was ever stored: items are in the database or a copy
at each step of a migration, a quarantine and a deletion.  `Stored` carries the history of the
prompts through them, by the operator theorems at its head (`SeedIsWhole`,
`AppliedIsWhole`, `AppliedKeepsEarlier`, `AppliedSaysTheDraft`, for any texts, drafts
and histories of any length): the next version is the number of rows plus
one (`NextVersionCounts`), so a layer is kept or gets one row that fits (`LayerStep`), and
a whole history with one such step per layer and one revision more is whole.  `Seen` ties the
panel and the turn to the revision in use.

`GroundedAnswerProofs`.  The lemmas on the tools come first: `Ascending` puts each number at
the place that counts those up to it (`AscendingOK`); redaction leaves only marks and
harmless lines (`RedactOK`), so the second redaction at the end of `execute` changes nothing
(`RedactSettles`) and an excerpt stays what `source_ref` made it (`SealedOK`); read and search
return references to lines as scanned or none (`LinesOK`, `HitsOK`, `SearchSteps`).  Every step
of the specification is of one of eight kinds (`StepKinds`), and `IInv` is kept by each: the trace
holds original references, each in the record of a call (`Traced`); an answer is due exactly
to an audit and rests on the trace (`Running`); what is stored repeats it (`Stored`).
`ResultsTellWhatTheyOmit` adds what a search under way has told of the files it has passed
(`Covers`), and that sealing a result that fits neither shortens it nor changes its counts
(`SealedIsWhole`).  The hypothesis is needed: the names of a list are redacted as its lines
are, and after a name that begins a private key block the rest would be one mark.

`ProviderStreamProofs`.  A place of a response is a line and an item in it; `Reached` are
the places of the lines taken so far and of the items of the next one, and what was heard,
got and begun is read off them.  `Running` says that t lines have been taken, that the
buffer holds exactly the halves after them (`Taken`), and that texts, pieces and calls are
what those lines said (`Faithful`).  `DecodeOK` carries this over a line by `ItemOK`, item
after item: a line that is modelled has two at most. When the response has ended, `Closed`
lists the ways it may end.  `Counted` and `Numbered` say that calls are numbered over all
rounds and begun once, so two calls of a turn never share an id (`CallIdsDiffer`); `Talk`
pairs every message of calls with the results after it, from which `AnswersFollow` draws
what either encoder sends. `ProbeNext` is made of steps of `Next` and steps that leave the
stream alone (`ProbeIsNext`), so `IInv` holds of checks too; `ProbeInv` adds that a request
went only to a URL that was accepted, that the probe's round is the first of its
conversation (hence its only call has number 1), and that a verdict about a model stands.

Only model-checked:

* Liveness (`PromisesAreSettled`, `TurnEnds`, `Returns`, `SetupSettles`, `SilenceEnds`,
  `WorkIsTakenUp`, `StorageComesBack`): fairness and ENABLED are out of the prover's reach.

Induction over data needs theorems with an operator as parameter, which the provers cannot
instantiate.  The proofs do without: a recursive function is unfolded where its depth is
bounded (`Decode`), what the code filters and sorts is stated by what results (`Ascending`), and
`ChatTurnProofs` takes a least counterexample, for which the library's theorems on
well-founded relations suffice.

## 5. Not modelled

* Wording and layout: prompts, Markdown, widgets, theme, hotkeys, windows and their
  preferences; the JSON schemas of the tools and the wire formats below a line.
* Stateless heuristics over file lists: semantic kernel, detector, search, evidence.
* What the running window does not reach: `app.rs`, the egress packets with their consent
  approval, the parsing of `AnswerBundleNormalizer`, the
  local llama contract, fake backend and harness.  `health_check` is called by tests
  only and `infer_stream` by `app.rs` only; they are modelled as operations of the port.
* `xtask`, which checks the repository's own files.
* Abstracted: of a sealed receipt only the identity it binds; path canonicalisation,
  symbolic links and the limits of a scan (a scan is whole or not); a URL is safe or not.
  `Startup` treats the file and its `-wal` and `-shm` companions as one (the journal mode is
  rollback) and leaves out the `runtime_ownership` row, which is `ToolEgress`'s.
* `ProviderSetup` leaves out saved profiles other than the latest, a failing read of that
  row, and the timeout field.

## 6. What a next step would add

1. The composition of `Workspace` and `ChatTurn`, which share the conversation on screen.
2. The consent box of `ProviderSetup` next to the window that can change under it, as one
   property of the frame, and the egress packets should the window come to use them.
3. A prover for liveness; until then the seven temporal properties stay with TLC.
