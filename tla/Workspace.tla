------------------------------ MODULE Workspace ------------------------------
(***************************************************************************)
(* The repository a conversation works on: choosing a folder, scanning it, *)
(* binding the snapshot, watching the folder, reading files for a turn,    *)
(* and the freshness of the answers (chat_app.rs, mentat-repository,       *)
(* repository_tools.rs, and the tables they write).                        *)
(*                                                                         *)
(* The UI thread runs one step at a time.  Beside it run folder dialogs,   *)
(* scans, the thread of the bound watcher, and the workers of turns, whose *)
(* results the UI takes from a channel.  A file's content is a version     *)
(* number, 0 when there is no file.  Generations number the requests; the  *)
(* generation of a scan also names its snapshot.                           *)
(***************************************************************************)
EXTENDS Naturals, FiniteSets

CONSTANTS
  Roots,        \* folders the user may choose
  GitRoots,     \* those with a .git, in which the scan obeys .gitignore
  Files,        \* relative paths, the same in every folder
  Ignored,      \* those .gitignore names
  RecentLimit,  \* rows list_recent_repos returns (10 in the code)
  MaxGens, MaxConvs, MaxTurns, MaxEdits, MaxVersion,    \* bounds
  MaxFaults,    \* database statements, reads, OS watches that fail (a bound)
  None

Gens == 1..MaxGens
Turns == 1..MaxTurns
Versions == 0..MaxVersion

ASSUME WorkspaceAssumption ==
  /\ GitRoots \subseteq Roots /\ Ignored \subseteq Files
  /\ {RecentLimit, MaxGens, MaxConvs, MaxTurns, MaxEdits, MaxVersion, MaxFaults}
       \subseteq Nat
  /\ MaxConvs >= 1 /\ MaxVersion >= 1        \* the first conversation, a file
  /\ None \notin Roots \cup Files

VARIABLES
  disk,         \* [Roots]: the version of each file
  edits,        \* changes made to the disk so far
  faults,       \* failures so far
  stored,       \* conversations: row -> active_snapshot_id, 0 for NULL
  recent,       \* rows of recent_repositories; opened: the generation at last_opened_at
  dbFresh,      \* [Turns]: grounding_traces.freshness
  durable,      \* self.storage is Some
  conv,         \* self.conversation.id
  convs,        \* ids given out so far
  binding,      \* self.conversation.active_snapshot_id
  empty,        \* self.conversation.messages.is_empty()
  busy,         \* self.repository_busy
  gen,          \* self.scan_generation
  token,        \* self.repository_cancel: the scan it belongs to, or 0
  approved,     \* self.repository_egress_approved: for which snapshot, or 0
  scope,        \* self.active_consent_scope is Some
  active,       \* self.active_turn, or 0
  stream,       \* self.stream_cancel: the turn it belongs to, or 0
  shown,        \* [Turns]: freshness in grounding_by_message
  repo,         \* self.repository: its snapshot, or 0
  stale,        \* snapshots whose gateway is marked stale
  watch,        \* the thread of the bound watcher
  events,       \* file events it has not handled
  signal,       \* true is in its channel
  job,          \* [Gens]: dialogs and scans, and the records of snapshots
  task,         \* [Turns]: the workers
  epoch,        \* conversations replaced so far (for the properties)
  unmarked      \* snapshots whose durable freshness could not be corrected

files == <<disk, edits>>
world == <<disk, edits, faults>>
store == <<stored, recent, dbFresh>>
talk == <<durable, conv, convs, binding, empty, epoch>>
asked == <<busy, gen, token>>
consent == <<approved, scope>>
turns == <<active, stream, shown, task>>
watcher == <<watch, events, signal>>
bound == <<repo, stale, unmarked>>
vars == <<world, store, talk, asked, consent, turns, watcher, bound, job>>

-----------------------------------------------------------------------------
(* Snapshots.                                                               *)

Nothing == [f \in Files |-> 0]
NoJob == [state |-> "none", conv |-> 0, epoch |-> 0, root |-> None, id |-> 0,
          todo |-> {}, image |-> Nothing, whole |-> FALSE, cancelled |-> FALSE]
NoTask == [state |-> "none", snap |-> 0, conv |-> 0, cancelled |-> FALSE,
           reading |-> None, watched |-> {}]

\* The walk obeys .gitignore in a git repository only; is_ignored_path always.
Scanned(root) == IF root \in GitRoots THEN Files \ Ignored ELSE Files
Watched == Files \ Ignored

Ready(g) == g # 0 /\ job[g].whole /\ g \notin stale
Current(g) == job[g].conv = conv /\ g = gen
RootOf(g) == job[g].root
Fails(n) == faults + n <= MaxFaults /\ faults' = faults + n

CancelTask(ts, t) == IF t = 0 THEN ts ELSE [ts EXCEPT ![t].cancelled = TRUE]
CancelScan(js, g) == IF g = 0 THEN js ELSE [js EXCEPT ![g].cancelled = TRUE]

-----------------------------------------------------------------------------
(* The folder on disk, changed by other programs.                           *)

Edit(root, f, v) ==
  /\ edits < MaxEdits /\ edits' = edits + 1
  /\ disk' = [disk EXCEPT ![root][f] = v]        \* v may be the old content
  /\ events' = IF repo # 0 /\ RootOf(repo) = root /\ watch = "on"
                 THEN events \cup {f} ELSE events
  /\ UNCHANGED <<faults, store, talk, asked, consent, turns, watch, signal, bound, job>>

-----------------------------------------------------------------------------
(* Conversations.                                                           *)

WithRow(rows, c) == [d \in DOMAIN rows \cup {c} |-> IF d = c THEN 0 ELSE rows[d]]

\* ensure_durable_conversation, when there is nothing in the conversation
\* yet: a new row or, after failure e, no storage from now on.
EnsureIfEmpty(e) ==
  IF empty /\ durable
    THEN \/ /\ e = 0 /\ convs < MaxConvs
            /\ convs' = convs + 1 /\ conv' = convs + 1 /\ binding' = 0
            /\ stored' = WithRow(stored, convs + 1)
            /\ UNCHANGED durable
         \/ /\ e = 1 /\ durable' = FALSE
            /\ UNCHANGED <<conv, convs, binding, stored>>
    ELSE e = 0 /\ UNCHANGED <<durable, conv, convs, binding, stored>>

\* What start_new_conversation leaves, given the rows in the store.
Replace(rows) ==
  /\ gen < MaxGens /\ gen' = gen + 1 /\ token' = 0 /\ busy' = FALSE
  /\ job' = CancelScan(job, token)
  /\ repo' = 0 /\ watch' = "none" /\ events' = {} /\ signal' = FALSE
  /\ approved' = 0 /\ stream' = 0 /\ shown' = [t \in Turns |-> "none"]
  /\ convs < MaxConvs /\ convs' = convs + 1 /\ conv' = convs + 1
  /\ binding' = 0 /\ empty' = TRUE /\ epoch' = epoch + 1
  /\ \/ durable /\ stored' = WithRow(rows, convs + 1) /\ UNCHANGED <<durable, faults>>
     \/ /\ IF durable THEN Fails(1) ELSE UNCHANGED faults
        /\ durable' = FALSE /\ stored' = rows

\* start_new_conversation: the revocation and the end of the turn may fail,
\* each after what stands before it was done.
NewConversation ==
  \/ /\ scope' = FALSE /\ active' = 0
     /\ task' = CancelTask(task, stream)
     /\ Replace(stored)
     /\ UNCHANGED <<files, recent, dbFresh, stale, unmarked>>
  \/ /\ durable /\ scope /\ Fails(1)
     /\ scope' = FALSE
     /\ UNCHANGED <<files, store, talk, asked, approved, turns, watcher, bound, job>>
  \/ /\ durable /\ active # 0 /\ Fails(1)
     /\ scope' = FALSE /\ active' = 0
     /\ task' = CancelTask(task, stream)
     /\ UNCHANGED <<files, store, talk, asked, approved, stream, shown, watcher,
                    bound, job>>

\* delete_current_conversation stops what runs; deleting takes a second click.
DeleteOnlyStops ==
  /\ IF active # 0 \/ busy \/ (durable /\ conv \notin DOMAIN stored)
       THEN UNCHANGED faults ELSE durable /\ Fails(1)
  /\ task' = CancelTask(task, stream) /\ job' = CancelScan(job, token)
  /\ UNCHANGED <<files, store, talk, asked, consent, active, stream, shown,
                 watcher, bound>>

Without(row) == [c \in DOMAIN stored \ {row} |-> stored[c]]

\* The turns of the row go with it.  When the revocation fails afterwards,
\* the deleted conversation stays on screen without its repository.
Delete ==
  /\ active = 0 /\ ~busy /\ (durable => conv \in DOMAIN stored)
  /\ task' = CancelTask(task, stream)
  /\ dbFresh' = [t \in Turns |-> IF durable /\ task[t].conv = conv
                                   THEN "none" ELSE dbFresh[t]]
  /\ scope' = FALSE
  /\ \/ Replace(IF durable THEN Without(conv) ELSE stored)
     \/ /\ durable /\ scope /\ Fails(1)
        /\ stored' = Without(conv) /\ job' = CancelScan(job, token)
        /\ repo' = 0 /\ watch' = "none" /\ events' = {} /\ signal' = FALSE
        /\ UNCHANGED <<talk, asked, approved, stream, shown>>
  /\ UNCHANGED <<files, recent, active, stale, unmarked>>

-----------------------------------------------------------------------------
(* Choosing and scanning a folder.                                          *)

\* Slip: the request does not renew the generation.
AskFolderSameGeneration ==
  /\ ~busy /\ active = 0 /\ gen < MaxGens
  /\ busy' = TRUE /\ UNCHANGED gen
  /\ job' = [job EXCEPT ![gen + 1] =
               [NoJob EXCEPT !.state = "asking", !.conv = conv, !.epoch = epoch]]
  /\ UNCHANGED <<world, store, talk, token, consent, turns, watcher, bound>>

\* begin_repository_scan; its button needs a turn to be over.
AskFolder ==
  /\ ~busy /\ active = 0 /\ gen < MaxGens
  /\ busy' = TRUE /\ gen' = gen + 1
  /\ job' = [job EXCEPT ![gen + 1] =
               [NoJob EXCEPT !.state = "asking", !.conv = conv, !.epoch = epoch]]
  /\ UNCHANGED <<world, store, talk, token, consent, turns, watcher, bound>>

\* find_repo_by_root: only the latest rows are looked at, an error is a miss.
Recent == {r \in recent : Cardinality({q \in recent : q.opened > r.opened}) < RecentLimit}
KnownIds(root, missed) ==
  LET ids == {r.id : r \in {x \in Recent : x.root = root}}
  IN IF ~durable \/ missed = 1 \/ ids = {} THEN {gen + 1} ELSE ids

FolderDropped(g) ==
  /\ job[g].state = "asking" /\ ~Current(g)
  /\ job' = [job EXCEPT ![g] = NoJob]
  /\ UNCHANGED <<world, store, talk, asked, consent, turns, watcher, bound>>

\* Nothing was chosen, or the folder cannot be opened or holds the app's data.
FolderRefused(g) ==
  /\ job[g].state = "asking" /\ Current(g)
  /\ busy' = FALSE /\ job' = [job EXCEPT ![g] = NoJob]
  /\ UNCHANGED <<world, store, talk, gen, token, consent, turns, watcher, bound>>

\* scan_repository_path.
FolderChosen(g, root) ==
  /\ job[g].state = "asking" /\ Current(g) /\ gen < MaxGens
  /\ busy' = TRUE /\ gen' = gen + 1 /\ token' = gen + 1
  /\ \E e, missed \in 0..1 : \E id \in KnownIds(root, missed) :
       /\ Fails(e + missed) /\ EnsureIfEmpty(e)
       /\ job' = [CancelScan(job, token) EXCEPT
            ![g] = NoJob,
            ![gen + 1] = [NoJob EXCEPT
               !.state = "scanning", !.conv = conv', !.epoch = epoch,
               !.root = root, !.id = id, !.todo = Scanned(root), !.whole = TRUE]]
  /\ UNCHANGED <<files, recent, dbFresh, empty, epoch, consent, turns, watcher, bound>>

\* scan_tree, one entry: read, absent, or left out for an error or a limit.
ScanFile(g, f) ==
  /\ job[g].state = "scanning" /\ f \in job[g].todo /\ ~job[g].cancelled
  /\ \E left \in 0..1 :
       /\ Fails(left)
       /\ job' = [job EXCEPT ![g].todo = @ \ {f}, ![g].whole = @ /\ left = 0,
                    ![g].image[f] = IF left = 0 THEN disk[RootOf(g)][f] ELSE 0]
  /\ UNCHANGED <<files, store, talk, asked, consent, turns, watcher, bound>>

ScanCancelled(g) ==
  /\ job[g].state = "scanning" /\ job[g].todo # {} /\ job[g].cancelled
  /\ job' = [job EXCEPT ![g].todo = {}, ![g].whole = FALSE]
  /\ UNCHANGED <<world, store, talk, asked, consent, turns, watcher, bound>>

StopScan ==
  /\ busy /\ token # 0 /\ job' = CancelScan(job, token)
  /\ UNCHANGED <<world, store, talk, asked, consent, turns, watcher, bound>>

Finished(g) == job[g].state = "scanning" /\ job[g].todo = {}

ScanDropped(g) ==
  /\ Finished(g) /\ ~Current(g)
  /\ job' = [job EXCEPT ![g] = NoJob]
  /\ UNCHANGED <<world, store, talk, asked, consent, turns, watcher, bound>>

\* save_recent_repo: the id is the key, and root_path is UNIQUE.
RootIsFree(g) == \A r \in recent : r.root = job[g].root => r.id = job[g].id
OpenedLast(g) == {r \in recent : r.id # job[g].id}
                   \cup {[id |-> job[g].id, root |-> job[g].root, opened |-> g]}

\* The task failed, or one of the three statements: what was bound stays.
ScanNotKept(g) ==
  /\ Finished(g) /\ Current(g)
  /\ busy' = FALSE /\ token' = 0 /\ job' = [job EXCEPT ![g] = NoJob]
  /\ \/ UNCHANGED recent /\ IF durable /\ ~RootIsFree(g) THEN UNCHANGED faults ELSE Fails(1)
     \/ /\ durable /\ RootIsFree(g) /\ recent' = OpenedLast(g)
        /\ IF conv \notin DOMAIN stored THEN UNCHANGED faults ELSE Fails(1)
  /\ UNCHANGED <<files, stored, dbFresh, talk, gen, consent, turns, watcher, bound>>

\* Slip: whatever scan has ended is bound.
AttachRegardless(g) ==
  /\ Finished(g)
  /\ durable => RootIsFree(g) /\ conv \in DOMAIN stored
  /\ recent' = IF durable THEN OpenedLast(g) ELSE recent
  /\ stored' = IF durable THEN [stored EXCEPT ![conv] = g] ELSE stored
  /\ busy' = FALSE /\ token' = 0
  /\ binding' = g /\ repo' = g /\ approved' = 0
  /\ job' = [job EXCEPT ![g].state = "bound"]
  /\ watch' = "starting" /\ events' = {} /\ signal' = FALSE
  /\ UNCHANGED <<world, dbFresh, durable, conv, convs, empty, epoch, gen, scope,
                 turns, stale, unmarked>>

\* Slip: an incomplete scan is not worth a message.
AttachWhole(g) ==
  /\ Finished(g) /\ Current(g) /\ job[g].whole
  /\ durable => RootIsFree(g) /\ conv \in DOMAIN stored
  /\ recent' = IF durable THEN OpenedLast(g) ELSE recent
  /\ stored' = IF durable THEN [stored EXCEPT ![conv] = g] ELSE stored
  /\ busy' = FALSE /\ token' = 0
  /\ binding' = g /\ repo' = g /\ approved' = 0
  /\ job' = [job EXCEPT ![g].state = "bound"]
  /\ watch' = "starting" /\ events' = {} /\ signal' = FALSE
  /\ UNCHANGED <<world, dbFresh, durable, conv, convs, empty, epoch, gen, scope,
                 turns, stale, unmarked>>

\* The new watcher is only now started; the old one ends with its binding.
Attach(g) ==
  /\ Finished(g) /\ Current(g)
  /\ durable => RootIsFree(g) /\ conv \in DOMAIN stored
  /\ recent' = IF durable THEN OpenedLast(g) ELSE recent
  /\ stored' = IF durable THEN [stored EXCEPT ![conv] = g] ELSE stored
  /\ busy' = FALSE /\ token' = 0
  /\ binding' = g /\ repo' = g /\ approved' = 0
  /\ job' = [job EXCEPT ![g].state = "bound"]
  /\ watch' = "starting" /\ events' = {} /\ signal' = FALSE
  /\ UNCHANGED <<world, dbFresh, durable, conv, convs, empty, epoch, gen, scope,
                 turns, stale, unmarked>>

-----------------------------------------------------------------------------
(* The watcher.                                                             *)

\* A thread or an OS watch that cannot be started counts as a change.
WatchStarts ==
  /\ watch = "starting"
  /\ \/ watch' = "on" /\ UNCHANGED <<signal, faults>>
     \/ Fails(1) /\ watch' = "dead" /\ signal' = TRUE
  /\ UNCHANGED <<files, store, talk, asked, consent, turns, events, bound, job>>

\* Ignored paths are passed over.  The first event of a path always counts,
\* and one is enough: its hash is compared from the second event on only.
HandleEvent(f) ==
  /\ watch = "on" /\ f \in events /\ events' = events \ {f}
  /\ signal' = (signal \/ f \in Watched)
  /\ UNCHANGED <<world, store, talk, asked, consent, turns, watch, bound, job>>

\* The system lost events, or says so: a rescan counts as a change.
EventsLost ==
  /\ watch = "on" /\ events # {} /\ Fails(1)
  /\ events' = {} /\ signal' = TRUE
  /\ UNCHANGED <<files, store, talk, asked, consent, turns, watch, bound, job>>

\* poll_async, the watcher: once per binding the change is taken up.
PollWatch ==
  /\ repo # 0 /\ (signal \/ (watch = "dead" /\ repo \notin stale))
  /\ signal' = FALSE
  /\ IF repo \in stale
       THEN UNCHANGED <<faults, stale, shown, dbFresh, unmarked, approved, task>>
       ELSE /\ stale' = stale \cup {repo}
            /\ shown' = [t \in Turns |->
                 IF task[t].snap = repo /\ shown[t] # "none" THEN "changed" ELSE shown[t]]
            /\ \/ /\ dbFresh' = [t \in Turns |->
                       IF durable /\ task[t].snap = repo /\ dbFresh[t] # "none"
                         THEN "changed" ELSE dbFresh[t]]
                  /\ UNCHANGED <<faults, unmarked>>
               \/ /\ durable /\ Fails(1)
                  /\ unmarked' = unmarked \cup {repo} /\ UNCHANGED dbFresh
            /\ approved' = 0
            /\ task' = CancelTask(task, stream)
  /\ UNCHANGED <<files, stored, recent, talk, asked, scope, active, stream, watch,
                 events, repo, job>>

-----------------------------------------------------------------------------
(* Turns.                                                                   *)

\* The consent box; unticking it stops the turn, changing the provider not.
Approve ==
  /\ repo # 0 /\ approved = 0 /\ approved' = repo
  /\ UNCHANGED <<world, store, talk, asked, scope, turns, watcher, bound, job>>

Disapprove ==
  /\ approved # 0 /\ approved' = 0
  /\ task' \in {task} \cup IF repo # 0 THEN {CancelTask(task, stream)} ELSE {}
  /\ UNCHANGED <<world, store, talk, asked, scope, active, stream, shown, watcher,
                 bound, job>>

\* The worker of a turn, with the snapshot that is bound or without.
GroundedTask ==
  [NoTask EXCEPT !.state = "running", !.conv = conv', !.snap = repo]
PlainTask == [NoTask EXCEPT !.state = "running", !.conv = conv']
Unused(t) == \A u \in Turns : (task[u].state = "none") <=> (u >= t)

\* submit_chat.  An empty conversation gets a new row here too; begin_turn, the
\* trace or the scope may fail, or there is no store for receipts any more.
Submit(t, grounded, cloud) ==
  LET sealed == grounded /\ cloud
  IN /\ ~busy /\ active = 0 /\ Unused(t)
     /\ grounded => Ready(repo)
     /\ sealed => approved # 0 /\ durable
     /\ \E e, failed \in 0..1 :
          /\ Fails(e + failed) /\ EnsureIfEmpty(e)
          /\ \/ /\ failed = 1 \/ (sealed /\ ~durable')
                /\ UNCHANGED <<empty, scope, active, stream, task, dbFresh>>
             \/ /\ failed = 0 /\ (sealed => durable')
                /\ empty' = FALSE /\ active' = t /\ stream' = t
                /\ task' = [task EXCEPT ![t] = IF grounded THEN GroundedTask ELSE PlainTask]
                /\ scope' = (scope \/ sealed)
                /\ dbFresh' = [dbFresh EXCEPT ![t] =
                                 IF grounded /\ durable' THEN "fresh" ELSE "none"]
     /\ UNCHANGED <<files, recent, epoch, asked, approved, shown, watcher, bound, job>>

\* execute: the marks are looked at before the file is read.
BeginRead(t, f) ==
  /\ task[t].state = "running" /\ task[t].snap # 0 /\ task[t].reading = None
  /\ task[t].snap \notin stale /\ ~task[t].cancelled
  /\ job[task[t].snap].image[f] # 0
  /\ task' = [task EXCEPT ![t].reading = f]
  /\ UNCHANGED <<world, store, talk, asked, consent, active, stream, shown, watcher,
                 bound, job>>

\* The content counts when its hash is that of the scan.  watched: the files
\* read while the bound watcher was on (for the properties).
EndRead(t) ==
  LET f == task[t].reading
      g == task[t].snap
      same == f # None /\ disk[RootOf(g)][f] = job[g].image[f]
  IN /\ f # None
     /\ task' = [task EXCEPT
          ![t].reading = None,
          ![t].watched = IF same /\ repo = g /\ watch = "on" THEN @ \cup {f} ELSE @]
     /\ UNCHANGED <<world, store, talk, asked, consent, active, stream, shown, watcher,
                    bound, job>>

TaskEnds(t, how) ==
  /\ task[t].state = "running" /\ task[t].reading = None
  /\ task' = [task EXCEPT ![t].state = how]
  /\ UNCHANGED <<world, store, talk, asked, consent, active, stream, shown, watcher,
                 bound, job>>

Escape ==
  /\ stream # 0 /\ task' = CancelTask(task, stream)
  /\ UNCHANGED <<world, store, talk, asked, consent, active, stream, shown, watcher,
                 bound, job>>

\* poll_async, the top: the scope of a stopped turn is withdrawn.
PollTop ==
  /\ stream # 0 /\ task[stream].cancelled /\ scope
  /\ scope' = FALSE
  /\ UNCHANGED <<world, store, talk, asked, approved, turns, watcher, bound, job>>

\* Slip: the freshness is the one the worker sent.
FinishAsSent(t) ==
  /\ active = t /\ task[t].state \in {"completed", "failed"}
  /\ active' = 0 /\ stream' = 0
  /\ \/ /\ task[t].state = "completed" /\ task[t].snap # 0
        /\ shown' = [shown EXCEPT ![t] = "fresh"]
        /\ dbFresh' = IF durable THEN [dbFresh EXCEPT ![t] = "fresh"] ELSE dbFresh
        /\ UNCHANGED faults
     \/ /\ IF task[t].state = "failed" \/ task[t].snap = 0
             THEN UNCHANGED faults ELSE durable /\ Fails(1)
        /\ UNCHANGED <<shown, dbFresh>>
  /\ UNCHANGED <<files, stored, recent, talk, asked, consent, task, watcher, bound, job>>

\* finish_agent_outcome: the freshness is that of the bound gateway, and is
\* written with the answer; without the write there is no answer.
Finish(t) ==
  LET now == IF repo # 0 /\ repo \in stale THEN "changed" ELSE "fresh"
  IN /\ active = t /\ task[t].state \in {"completed", "failed"}
     /\ active' = 0 /\ stream' = 0
     /\ \/ /\ task[t].state = "completed" /\ task[t].snap # 0
           /\ shown' = [shown EXCEPT ![t] = now]
           /\ dbFresh' = IF durable THEN [dbFresh EXCEPT ![t] = now] ELSE dbFresh
           /\ UNCHANGED faults
        \/ /\ IF task[t].state = "failed" \/ task[t].snap = 0
                THEN UNCHANGED faults ELSE durable /\ Fails(1)
           /\ UNCHANGED <<shown, dbFresh>>
     /\ UNCHANGED <<files, stored, recent, talk, asked, consent, task, watcher, bound, job>>

-----------------------------------------------------------------------------
Init ==
  /\ disk = [r \in Roots |-> [f \in Files |-> 1]] /\ edits = 0 /\ faults = 0
  /\ stored = [c \in {1} |-> 0] /\ recent = {} /\ dbFresh = [t \in Turns |-> "none"]
  /\ durable = TRUE /\ conv = 1 /\ convs = 1 /\ binding = 0 /\ empty = TRUE
  /\ epoch = 0 /\ busy = FALSE /\ gen = 0 /\ token = 0
  /\ approved = 0 /\ scope = FALSE
  /\ active = 0 /\ stream = 0
  /\ shown = [t \in Turns |-> "none"] /\ task = [t \in Turns |-> NoTask]
  /\ watch = "none" /\ events = {} /\ signal = FALSE
  /\ repo = 0 /\ stale = {} /\ unmarked = {}
  /\ job = [g \in Gens |-> NoJob]

User ==
  \/ AskFolder \/ StopScan \/ NewConversation \/ DeleteOnlyStops \/ Delete
  \/ Approve \/ Disapprove \/ Escape
  \/ \E t \in Turns, grounded, cloud \in BOOLEAN : Submit(t, grounded, cloud)

Outside ==
  \/ \E r \in Roots, f \in Files, v \in Versions : Edit(r, f, v)
  \/ EventsLost
  \/ \E g \in Gens, r \in Roots : FolderChosen(g, r)

Messages ==
  \/ \E g \in Gens : FolderDropped(g) \/ FolderRefused(g)
  \/ \E g \in Gens : ScanDropped(g) \/ ScanNotKept(g) \/ Attach(g)
  \/ \E t \in Turns : Finish(t)
  \/ PollTop \/ PollWatch

Scan == \E g \in Gens : ScanCancelled(g) \/ \E f \in Files : ScanFile(g, f)
Watching == WatchStarts \/ \E f \in Files : HandleEvent(f)

Working ==
  \E t \in Turns : \/ \E f \in Files : BeginRead(t, f)
                   \/ EndRead(t)
                   \/ \E how \in {"completed", "failed"} : TaskEnds(t, how)

Next == User \/ Outside \/ Messages \/ Scan \/ Watching \/ Working

Spec == Init /\ [][Next]_vars

\* The threads of the app run on; people, disks and providers promise nothing.
FairSpec ==
  /\ Spec
  /\ WF_vars(Scan) /\ WF_vars(PollWatch) /\ WF_vars(WatchStarts)
  /\ WF_vars(\E g \in Gens : ScanNotKept(g) \/ Attach(g))
  /\ WF_vars(\E f \in Files : HandleEvent(f))

-----------------------------------------------------------------------------
(* Properties.                                                              *)

Freshness == {"none", "fresh", "changed"}
Job == [state : {"none", "asking", "scanning", "bound"}, conv : 0..MaxConvs,
        epoch : Nat, root : Roots \cup {None}, id : 0..MaxGens, todo : SUBSET Files,
        image : [Files -> Versions], whole : BOOLEAN, cancelled : BOOLEAN]
Task == [state : {"none", "running", "completed", "failed"}, snap : 0..MaxGens,
         conv : 0..MaxConvs, cancelled : BOOLEAN, reading : Files \cup {None},
         watched : SUBSET Files]

\* Types of all variables; a request names a generation given out.
TypeOK ==
  /\ disk \in [Roots -> [Files -> Versions]] /\ edits \in 0..MaxEdits
  /\ faults \in 0..MaxFaults
  /\ DOMAIN stored \subseteq 1..convs /\ \A c \in DOMAIN stored : stored[c] \in 0..gen
  /\ recent \subseteq [id : Gens, root : Roots, opened : Gens]
  /\ dbFresh \in [Turns -> Freshness] /\ shown \in [Turns -> Freshness]
  /\ conv \in 1..convs /\ convs \in 1..MaxConvs /\ binding \in 0..gen
  /\ {durable, empty, busy, scope, signal} \subseteq BOOLEAN
  /\ gen \in 0..MaxGens /\ token \in 0..gen /\ approved \in 0..gen /\ repo \in 0..gen
  /\ active \in 0..MaxTurns /\ stream \in 0..MaxTurns /\ epoch \in Nat
  /\ watch \in {"none", "starting", "on", "dead"} /\ events \subseteq Files
  /\ stale \subseteq 1..gen /\ unmarked \subseteq stale
  /\ job \in [Gens -> Job] /\ task \in [Turns -> Task]
  /\ \A g \in Gens : g > gen => job[g] = NoJob

\* chat_app.rs:1845.  The bound repository was asked for in this conversation,
\* however requests, replaced conversations and late results interleave.
AttachedByThisConversation == repo # 0 => job[repo].epoch = epoch

\* chat_app.rs:586, :1874.  The approval to send excerpts was given for the
\* snapshot that is bound, never for one bound before it.
ConsentIsForThis == repo # 0 /\ approved # 0 => approved = repo

\* session.rs:61.  Tools may read a snapshot only when the scan left nothing
\* out: in a folder nobody changed it then holds every file with its content.
ReadyIsWhole ==
  \A g \in Gens : job[g].state = "bound" /\ Ready(g) /\ edits = 0 =>
    \A f \in Scanned(RootOf(g)) : job[g].image[f] = disk[RootOf(g)][f]

\* conversation.rs:140.  The row of the conversation names the snapshot the
\* conversation in memory names.
RowAgrees == durable /\ conv \in DOMAIN stored => stored[conv] = binding

\* chat_app.rs:1253.  While the window is busy with a repository, the request
\* whose result will end that is under way: the composer cannot lock up.
BusyIsServed ==
  busy => gen # 0 /\ job[gen].state \in {"asking", "scanning"} /\ job[gen].conv = conv

\* The bound repository, its approval, its row and the busy flag are all about
\* the present request of the present conversation.
BindingIsCurrent ==
  AttachedByThisConversation /\ ConsentIsForThis /\ ReadyIsWhole /\ RowAgrees /\ BusyIsServed

\* chat_app.rs:1752.  A turn that may still answer from a snapshot works on the
\* bound one: a change found by the watcher stops it and marks its answer.
TurnIsWatched ==
  \A t \in Turns :
    /\ task[t].snap # 0
    /\ active = t \/ (task[t].state = "running" /\ ~task[t].cancelled)
    => repo = task[t].snap

\* watcher.rs:83, repository_tools.rs:375.  When the watcher is on and has
\* nothing left to report, an answer shown as fresh rests on files that still
\* have the contents it was given.
FreshAnswersHold ==
  \A t \in Turns :
    shown[t] = "fresh" /\ task[t].snap = repo /\ watch = "on" /\ events = {} /\ ~signal
      => \A f \in task[t].watched \cap Watched :
           disk[RootOf(repo)][f] = job[repo].image[f]

\* chat_app.rs:1746, :2076.  Screen and store agree on the freshness of an
\* answer, and no answer from a stale snapshot is shown as fresh; the store is
\* behind only where correcting it failed.
FreshnessAgrees ==
  \A t \in Turns : shown[t] # "none" =>
    /\ task[t].snap \in stale => shown[t] = "changed"
    /\ dbFresh[t] # "none" => shown[t] = dbFresh[t] \/ task[t].snap \in unmarked

\* No answer passes for fresh that is not, and none escapes being marked.
FreshnessHolds == TurnIsWatched /\ FreshAnswersHold /\ FreshnessAgrees

\* watcher.rs:83, :197.  A change that reached the watcher, or its death, is
\* taken up by the UI; a scan ends and frees the window.
Unnoticed == repo \notin stale \cup {0}
             /\ (signal \/ watch = "dead" \/ events \cap Watched # {})
ScanUnderWay == busy /\ gen # 0 /\ job[gen].state = "scanning"
WorkIsTakenUp == (Unnoticed ~> ~Unnoticed) /\ (ScanUnderWay ~> ~busy)

\* session.rs:77.  The code's comment: a root that is opened again keeps its
\* id.  Without faults, the result of a current scan is then always bound.
ReopenedRootAttaches ==
  [][\A g \in Gens :
       Finished(g) /\ Current(g) /\ faults' = 0 /\ gen' = gen /\ job'[g].state # "scanning"
         => repo' = g]_vars
=============================================================================
