------------------------------ MODULE Startup ------------------------------
(***************************************************************************)
(* Opening mentat.db (mentat-storage/src/db.rs), the prompt profile in it  *)
(* (PromptProfile), the settings panel that edits the profile, and the     *)
(* deletion of a conversation with the copies earlier startups have kept   *)
(* (mentat-app/src/chat_app.rs).  The process may crash, a file operation  *)
(* may fail and the file may be damaged between any two steps; a SQLite    *)
(* transaction happens as a whole or not at all.                           *)
(***************************************************************************)
EXTENDS PromptProfile

CONSTANTS
  Items,          \* conversations, as far as losing them matters
  Older,          \* the earlier versions a database may have been left at
  TypedSystem,    \* the user's texts that are typed into the System field
  TypedPersona,   \* and into the Persona field
  MaxRevisions,   \* bound on the revisions of the profile
  MaxFaults       \* bound on crashes, failed operations and damages

ASSUME OlderAssumption == Older \subseteq 1..5
ASSUME TypedAssumption == TypedSystem \cup TypedPersona \subseteq UserTexts
ASSUME BoundsAssumption == MaxRevisions \in Nat /\ MaxFaults \in Nat

VARIABLES
  live,      \* the database file at its path
  kept,      \* migration backups and quarantine directories beside it
  lock,      \* who holds mentat.db.runtime.lock: "free", "app" or "other"
  app,       \* the process: what it is doing and what it has found out
  panel,     \* the prompt settings on the screen
  turn,      \* the prompt of the turn that has just been submitted
  saved,     \* conversations that were ever stored
  gone,      \* conversations whose deletion was reported as done
  asked,     \* a deletion was begun
  applied,   \* the texts that were last applied, or seeded
  faults     \* what went wrong so far

vars == <<live, kept, lock, app, panel, turn, saved, gone, asked, applied, faults>>

----------------------------------------------------------------------------
\* The schema (run_migrations).  A column added by a migration is listed as
\* <table>.<column>.

Current == 6

Version1 == {"recent_repositories", "saved_profiles", "snapshot_history"}

Version2 ==
  {"prompt_profiles", "prompt_content_versions", "prompt_profile_revisions",
   "conversations", "conversation_turns", "chat_messages", "ui_preferences"}

Version3 ==
  {"grounding_traces", "tool_call_records", "source_refs", "audit_turn_results"}

Version4 == {"repository_consent_scopes", "tool_egress_receipts"}

Version5 ==
  {"ui_preferences.always_on_top", "ui_preferences.layout_revision",
   "provider_secret_preferences"}

Version6 == {"runtime_ownership", "tool_egress_receipts.runtime_owner_id"}

Creates == <<Version1, Version2, Version3, Version4, Version5, Version6>>

TablesAt(v) == UNION {Creates[i] : i \in 1..v}

\* The first and the last migration take what is there (IF NOT EXISTS); the
\* others fail when one of their tables or columns exists.
CanMigrate(db) ==
  db.version \in {0, 5} \/ Creates[db.version + 1] \cap db.tables = {}

\* Slip: user_version is written after the commit, in a statement of its own.
MigratedTablesFirst(db) ==
  IF Creates[db.version + 1] \subseteq db.tables
  THEN [db EXCEPT !.version = @ + 1]
  ELSE [db EXCEPT !.tables = @ \cup Creates[db.version + 1]]

\* One migration is one transaction: its tables and user_version together.
Migrated(db) ==
  [db EXCEPT !.tables = @ \cup Creates[db.version + 1], !.version = @ + 1]

Blank ==
  [version |-> 0, tables |-> {}, items |-> {}, profile |-> NoProfile,
   damage |-> "no"]

----------------------------------------------------------------------------
Opening == {"open", "backup", "migrate", "verify", "aside", "move", "own"}
Holding == Opening \cup {"seed", "validate", "running", "cleanup"}

FactoryPanel ==
  [system |-> DefaultPreset, persona |-> DefaultPersona, preset |-> DefaultPreset,
   chosen |-> DefaultPersona, dirty |-> FALSE, unread |-> FALSE, pending |-> "none"]

NoTurn ==
  [sent |-> FALSE, revision |-> 0, system |-> DefaultPreset,
   persona |-> DefaultPersona]

Off == [pc |-> "off", existed |-> FALSE, target |-> {}]

SeedTexts == [system |-> DefaultPreset, persona |-> DefaultPersona]

FileOf(v, tables, items) ==
  [Blank EXCEPT !.version = v, !.tables = tables, !.items = items]

\* What a start can find: no file, a file of any earlier, this or a later
\* version, and version 0 also with tables of the time before user_version.
Found ==
  {Blank}
  \cup {FileOf(v, TablesAt(v), i) : v \in Older, i \in SUBSET Items}
  \cup {FileOf(0, Version1, i) : i \in SUBSET Items}
  \cup {FileOf(Current + 1, TablesAt(Current), {})}

Init ==
  /\ live \in Found
  /\ kept = {}
  /\ lock = "free"
  /\ app = Off
  /\ panel = FactoryPanel
  /\ turn = NoTurn
  /\ saved = live.items
  /\ gone = {}
  /\ asked = FALSE
  /\ applied = SeedTexts
  /\ faults = 0

Fault == faults < MaxFaults /\ faults' = faults + 1

Ghosts == <<saved, gone, asked, applied>>

----------------------------------------------------------------------------
\* SqliteStorage::open.

\* Slip: a storage that is not used keeps its lock.
SessionOnlyKeepsLock ==
  /\ app' = [Off EXCEPT !.pc = "session"]
  /\ lock' = lock

\* Without a database the application runs on factory prompts and stores
\* nothing; the lock goes with the storage that was dropped.
SessionOnly ==
  /\ app' = [Off EXCEPT !.pc = "session"]
  /\ lock' = IF lock = "app" THEN "free" ELSE lock

Goto(pc) == app' = [app EXCEPT !.pc = pc]

\* The lock comes before anything is read; then the size of the file tells
\* whether there is something to keep.
Launch ==
  /\ app.pc = "off"
  /\ IF lock = "other"
     THEN SessionOnly
     ELSE /\ lock' = "app"
          /\ app' = [app EXCEPT !.pc = "open", !.existed = (live # Blank)]
  /\ UNCHANGED <<live, kept, panel, turn, Ghosts, faults>>

\* Damage moves the files away once; a database that was just made and does
\* not open is an error.
Damaged == IF app.existed THEN Goto("aside") /\ UNCHANGED lock ELSE SessionOnly

CheckVersion ==
  /\ app.pc = "open"
  /\ IF live.damage = "header" THEN Damaged
     ELSE IF live.version > Current THEN SessionOnly
     ELSE /\ Goto(IF app.existed /\ live.version < Current
                  THEN "backup" ELSE "migrate")
          /\ UNCHANGED lock
  /\ UNCHANGED <<live, kept, panel, turn, Ghosts, faults>>

\* The copy has a name of its own and is complete before the first migration.
BackUp ==
  /\ app.pc = "backup"
  /\ IF live.damage = "header"
     THEN SessionOnly /\ UNCHANGED kept
     ELSE /\ kept' = kept \cup {[kind |-> "backup", items |-> live.items]}
          /\ Goto("migrate") /\ UNCHANGED lock
  /\ UNCHANGED <<live, panel, turn, Ghosts, faults>>

\* A migration reads some pages, not all.  Only the last one reports damage as such;
\* the others have error codes of their own, which move nothing aside.
Migrate ==
  /\ app.pc = "migrate" /\ live.version < Current
  /\ \/ /\ live.damage \in {"header", "page"}
        /\ IF live.version = Current - 1 THEN Damaged ELSE SessionOnly
        /\ UNCHANGED live
     \/ /\ live.damage # "header"
        /\ IF CanMigrate(live) THEN live' = Migrated(live) /\ UNCHANGED <<app, lock>>
                               ELSE SessionOnly /\ UNCHANGED live
  /\ UNCHANGED <<kept, panel, turn, Ghosts, faults>>

MigrationsDone ==
  /\ app.pc = "migrate" /\ live.version = Current
  /\ Goto("verify")
  /\ UNCHANGED <<live, kept, lock, panel, turn, Ghosts, faults>>

\* integrity_check sees every damaged page and foreign_key_check the rows without
\* their parent, which are an error but no damage.
Verify ==
  /\ app.pc = "verify"
  /\ \/ live.damage \in {"header", "page"} /\ Damaged
     \/ live.damage = "orphan" /\ SessionOnly
     \/ live.damage = "no" /\ Goto("own") /\ UNCHANGED lock
  /\ UNCHANGED <<live, kept, panel, turn, Ghosts, faults>>

\* quarantine_database_files: the directory, then the move into it.
MakeQuarantine ==
  /\ app.pc = "aside"
  /\ Goto("move")
  /\ UNCHANGED <<live, kept, lock, panel, turn, Ghosts, faults>>

\* The second attempt starts from no file and has nothing to keep.
MoveAside ==
  /\ app.pc = "move"
  /\ kept' = kept \cup {[kind |-> "quarantine", items |-> live.items]}
  /\ live' = Blank
  /\ app' = [app EXCEPT !.pc = "open", !.existed = FALSE]
  /\ UNCHANGED <<lock, panel, turn, Ghosts, faults>>

\* acquire_runtime_ownership: its recovery is modelled in ToolEgress and
\* ChatTurn.
TakeOwnership ==
  /\ app.pc = "own"
  /\ app' = [Off EXCEPT !.pc = "seed"]
  /\ UNCHANGED <<live, kept, lock, panel, turn, Ghosts, faults>>

\* Any of these steps fails; a copy that was not finished holds nothing and
\* is not listed in kept.
OpeningFails ==
  /\ app.pc \in Opening /\ Fault
  /\ SessionOnly
  /\ UNCHANGED <<live, kept, panel, turn, Ghosts>>

----------------------------------------------------------------------------
\* The application starts on the storage (MentatChatApp::new).

\* A profile that is there is used as it is, otherwise one is made.
Seed ==
  /\ app.pc = "seed"
  /\ IF live.profile # NoProfile
     THEN UNCHANGED <<live, applied>>
     ELSE live' = [live EXCEPT !.profile = SeedProfile] /\ applied' = SeedTexts
  /\ Goto("validate")
  /\ UNCHANGED <<kept, lock, panel, turn, saved, gone, asked, faults>>

\* The panel as the stored profile fills it.
Filled(p) ==
  LET texts == TextsOf(p, p.active)
      row   == Content(p, "Persona", p.revisions[p.active].persona)
  IN  [FactoryPanel EXCEPT
        !.system = texts.system, !.persona = texts.persona, !.preset = p.preset,
        !.chosen = IF row.kind = "FactoryRef" THEN row.text ELSE DefaultPersona]

\* The active profile is loaded and resolved once to see that it can be used
\* and once more to fill the panel, which shows the factory texts if that
\* fails.
Validate ==
  /\ app.pc = "validate"
  /\ IF Loads(live.profile)
     THEN /\ Goto("running")
          /\ \/ panel' = Filled(live.profile) /\ UNCHANGED faults
             \/ panel' = [FactoryPanel EXCEPT !.unread = TRUE] /\ Fault
          /\ UNCHANGED lock
     ELSE SessionOnly /\ UNCHANGED <<panel, faults>>
  /\ UNCHANGED <<live, kept, turn, Ghosts>>

\* Seeding or validating fails: the storage is given up again.
StartFails ==
  /\ app.pc \in {"seed", "validate"} /\ Fault
  /\ SessionOnly
  /\ UNCHANGED <<live, kept, panel, turn, Ghosts>>

----------------------------------------------------------------------------
\* The prompt settings.

Shown == app.pc \in {"running", "session"}
Screen == <<live, kept, lock, app, Ghosts, faults>>

\* A text is typed into one of the two fields.
TypeText ==
  /\ Shown
  /\ \/ \E t \in TypedSystem : panel' = [panel EXCEPT !.system = t, !.dirty = TRUE]
     \/ \E t \in TypedPersona : panel' = [panel EXCEPT !.persona = t, !.dirty = TRUE]
  /\ turn' = NoTurn
  /\ UNCHANGED Screen

PickPreset ==
  /\ Shown
  /\ \E s \in Presets \ {panel.preset} :
       panel' = [panel EXCEPT !.preset = s, !.system = s, !.dirty = TRUE]
  /\ turn' = NoTurn
  /\ UNCHANGED Screen

\* Both factory texts, or the one of a layer, are put into the draft.
ResetDraft ==
  /\ Shown
  /\ \E ls \in (SUBSET Layers) \ {{}} :
       panel' = [panel EXCEPT
                   !.system = IF "System" \in ls THEN panel.preset ELSE @,
                   !.persona = IF "Persona" \in ls THEN panel.chosen ELSE @,
                   !.dirty = TRUE]
  /\ turn' = NoTurn
  /\ UNCHANGED Screen

\* An earlier version is put into the draft; nothing is stored before Apply.
PickVersion ==
  /\ app.pc = "running"
  /\ \/ \E i \in DOMAIN live.profile.contents["System"] :
          panel' = [panel EXCEPT !.system = Content(live.profile, "System", i).text,
                                 !.dirty = TRUE]
     \/ \E i \in DOMAIN live.profile.contents["Persona"] :
          LET row == Content(live.profile, "Persona", i)
          IN  panel' = [panel EXCEPT
                          !.persona = row.text, !.dirty = TRUE,
                          !.chosen = IF row.kind = "FactoryRef" THEN row.text
                                                                ELSE DefaultPersona]
  /\ turn' = NoTurn
  /\ UNCHANGED Screen

\* What Apply stores: a text that is the factory text of the preset shown, or
\* of any persona, is a reference to it, any other is the user's.
DraftOf(pn) ==
  LET reset(t) == [kind |-> "ResetToFactory", text |-> t, row |-> 0]
      own(t)   == [kind |-> "UserText", text |-> t, row |-> 0]
  IN  [preset  |-> pn.preset,
       system  |-> IF pn.system = pn.preset THEN reset(pn.preset) ELSE own(pn.system),
       persona |-> IF pn.persona \in Personas THEN reset(pn.persona)
                                              ELSE own(pn.persona)]

\* apply_prompt_settings: the active revision is loaded now, the transaction
\* commits whole or leaves nothing, and the draft stays dirty when it fails.
Apply ==
  /\ app.pc = "running" /\ panel.dirty
  /\ Len(live.profile.revisions) < MaxRevisions
  /\ LET draft   == DraftOf(panel)
         settled == [panel EXCEPT !.chosen = IF panel.persona \in Personas
                                             THEN panel.persona ELSE @]
     IN  \/ /\ Applicable(live.profile, live.profile.active, draft)
            /\ live' = [live EXCEPT !.profile = Applied(live.profile, draft)]
            /\ panel' = [settled EXCEPT !.dirty = FALSE, !.unread = FALSE]
            /\ applied' = [system |-> panel.system, persona |-> panel.persona]
            /\ UNCHANGED faults
         \/ /\ \/ /\ ~Applicable(live.profile, live.profile.active, draft)
                  /\ UNCHANGED faults
               \/ Fault
            /\ panel' = settled
            /\ UNCHANGED <<live, applied>>
  /\ turn' = NoTurn
  /\ UNCHANGED <<kept, lock, app, saved, gone, asked>>

\* reload_prompt_settings: the stored texts replace the draft, or nothing
\* changes because there is no storage or it cannot be read.
Reloaded(ok) ==
  IF app.pc = "running" /\ ok
  THEN [Filled(live.profile) EXCEPT !.pending = panel.pending]
  ELSE panel

CancelEdit ==
  /\ Shown /\ panel.dirty
  /\ \/ panel' = Reloaded(TRUE) /\ UNCHANGED faults
     \/ panel' = Reloaded(FALSE) /\ Fault
  /\ turn' = NoTurn
  /\ UNCHANGED <<live, kept, lock, app, Ghosts>>

----------------------------------------------------------------------------
\* Leaving the panel or the application with a draft that is not applied.

\* The process ends: guard and lock are dropped with the storage.
Exit ==
  /\ app' = Off
  /\ lock' = IF lock = "app" THEN "free" ELSE lock
  /\ panel' = FactoryPanel

\* CloseApp first stores the window's size and stays open if that fails.
Close ==
  \/ Exit /\ UNCHANGED faults
  \/ app.pc = "running" /\ Fault /\ panel' = [panel EXCEPT !.pending = "none"]
     /\ UNCHANGED <<app, lock>>

RequestLeave ==
  /\ Shown
  /\ \E action \in {"close", "leave"} :
       IF panel.dirty
       THEN panel' = [panel EXCEPT !.pending = action] /\ UNCHANGED <<app, lock, faults>>
       ELSE /\ action = "close"
            /\ Close
  /\ turn' = NoTurn
  /\ UNCHANGED <<live, kept, Ghosts>>

KeepEditing ==
  /\ Shown /\ panel.pending # "none"
  /\ panel' = [panel EXCEPT !.pending = "none"]
  /\ turn' = NoTurn
  /\ UNCHANGED Screen

\* Slip: the draft counts as clean, but the stored texts are not put back.
DiscardWithoutReload ==
  /\ Shown /\ panel.pending # "none"
  /\ panel' = [panel EXCEPT !.dirty = FALSE, !.pending = "none"]
  /\ turn' = NoTurn
  /\ UNCHANGED Screen

\* The stored texts are put back, if they can be read; the draft counts as clean
\* either way; then the action that was asked for is taken, and a close may fail.
Discard ==
  /\ Shown /\ panel.pending # "none"
  /\ turn' = NoTurn
  /\ \E unread, open \in 0..1 :
       /\ unread + open > 0 => app.pc = "running"
       /\ faults' = faults + unread + open /\ faults' <= MaxFaults
       /\ IF panel.pending = "close" /\ open = 0
          THEN Exit
          ELSE /\ open = 1 => panel.pending = "close"
               /\ panel' = [Reloaded(unread = 0) EXCEPT
                               !.dirty = FALSE, !.pending = "none", !.unread = (unread = 1)]
               /\ UNCHANGED <<app, lock>>
  /\ UNCHANGED <<live, kept, Ghosts>>

----------------------------------------------------------------------------
\* A turn is submitted: its prompt is composed from one read of the active
\* revision, and the revision it records is read again; that second read may
\* fail and leaves the nil id.
Submit ==
  /\ Shown
  /\ IF app.pc = "session"
     THEN turn' = [NoTurn EXCEPT !.sent = TRUE] /\ UNCHANGED faults
     ELSE LET texts == TextsOf(live.profile, live.profile.active)
              sent(r) == [sent |-> TRUE, revision |-> r, system |-> texts.system,
                          persona |-> texts.persona]
          IN  \/ turn' = sent(live.profile.active) /\ UNCHANGED faults
              \/ turn' = sent(0) /\ Fault
  /\ UNCHANGED <<live, kept, lock, app, panel, Ghosts>>

\* A conversation is stored, by this process or by another one that holds the
\* lock.
Store ==
  /\ app.pc = "running" \/ (lock = "other" /\ live.version = Current)
  /\ \E c \in Items \ saved :
       /\ live' = [live EXCEPT !.items = @ \cup {c}]
       /\ saved' = saved \cup {c}
  /\ turn' = NoTurn
  /\ UNCHANGED <<kept, lock, app, panel, gone, asked, applied, faults>>

----------------------------------------------------------------------------
\* delete_conversation: the kept copies go first, one after the other, then
\* the rows in one transaction.

BeginDelete ==
  /\ app.pc = "running"
  /\ \E c \in live.items : app' = [app EXCEPT !.pc = "cleanup", !.target = {c}]
  /\ asked' = TRUE
  /\ turn' = NoTurn
  /\ UNCHANGED <<live, kept, lock, panel, saved, gone, applied, faults>>

RemoveCopy ==
  /\ app.pc = "cleanup"
  /\ \E k \in kept : kept' = kept \ {k}
  /\ UNCHANGED <<live, lock, app, panel, turn, Ghosts, faults>>

BackToPanel == app' = [app EXCEPT !.pc = "running", !.target = {}]

\* A link, or a directory that holds anything but the database's files, is
\* not touched and ends the deletion; so does an operation that fails.
CleanupStops ==
  /\ app.pc = "cleanup"
  /\ BackToPanel
  /\ UNCHANGED <<live, kept, lock, panel, turn, Ghosts, faults>>

\* Slip: the rows go first and the copies afterwards, as far as that works.
EraseFirst ==
  /\ app.pc = "cleanup"
  /\ live' = [live EXCEPT !.items = @ \ app.target]
  /\ gone' = gone \cup app.target
  /\ BackToPanel
  /\ UNCHANGED <<kept, lock, panel, turn, saved, asked, applied, faults>>

Erase ==
  /\ app.pc = "cleanup" /\ kept = {}
  /\ live' = [live EXCEPT !.items = @ \ app.target]
  /\ gone' = gone \cup app.target
  /\ BackToPanel
  /\ UNCHANGED <<kept, lock, panel, turn, saved, asked, applied, faults>>

----------------------------------------------------------------------------
\* The environment.

Crash ==
  /\ app.pc # "off" /\ Fault
  /\ Exit
  /\ turn' = NoTurn
  /\ UNCHANGED <<live, kept, Ghosts>>

\* The file is damaged on disk, in a page or where SQLite looks first, or loses a row
\* that others refer to, as tables do since the second version.
Damage ==
  /\ app.pc \in Opening \cup {"off"} /\ lock # "other"
  /\ live # Blank /\ live.damage = "no" /\ Fault
  /\ \E d \in {"page", "header", "orphan"} :
       /\ d = "orphan" => live.version >= 2
       /\ live' = [live EXCEPT !.damage = d]
  /\ UNCHANGED <<kept, lock, app, panel, turn, Ghosts>>

OtherProcess ==
  /\ \/ lock = "free" /\ live.version = Current /\ live.damage = "no"
        /\ lock' = "other"
     \/ lock = "other" /\ lock' = "free"
  /\ UNCHANGED <<live, kept, app, panel, turn, Ghosts, faults>>

OpeningSteps ==
  CheckVersion \/ BackUp \/ Migrate \/ MigrationsDone \/ Verify
    \/ MakeQuarantine \/ MoveAside \/ TakeOwnership \/ Seed \/ Validate

Next ==
  \/ Launch \/ OpeningSteps \/ OpeningFails \/ StartFails
  \/ TypeText \/ PickPreset \/ ResetDraft \/ PickVersion \/ Apply \/ CancelEdit
  \/ RequestLeave \/ KeepEditing \/ Discard \/ Submit \/ Store
  \/ BeginDelete \/ RemoveCopy \/ CleanupStops \/ Erase
  \/ Crash \/ Damage \/ OtherProcess

\* The constructor of the application runs to its end.
Fairness == WF_vars(OpeningSteps)

Spec == Init /\ [][Next]_vars
FairSpec == Spec /\ Fairness

----------------------------------------------------------------------------
\* Types, and the lock is held exactly while a storage is open.
TypeOK ==
  /\ live.version \in 0..(Current + 1)
  /\ live.tables \subseteq TablesAt(Current)
  /\ live.items \subseteq Items
  /\ live.profile \in Profiles
  /\ live.damage \in {"no", "page", "header", "orphan"}
  /\ \A k \in kept : k.kind \in {"backup", "quarantine"} /\ k.items \subseteq Items
  /\ lock \in {"free", "app", "other"}
  /\ app.pc \in Holding \cup {"off", "session"}
  /\ app.existed \in BOOLEAN /\ app.target \subseteq Items
  /\ panel.system \in AllTexts /\ panel.persona \in AllTexts
  /\ panel.preset \in Presets /\ panel.chosen \in Personas
  /\ panel.dirty \in BOOLEAN /\ panel.unread \in BOOLEAN
  /\ panel.pending \in {"none", "close", "leave"}
  /\ saved \subseteq Items /\ gone \subseteq saved /\ asked \in BOOLEAN
  /\ faults \in 0..MaxFaults
  /\ (lock = "app") = (app.pc \in Holding)

\* A conversation that was stored is in the database, in a backup or in the
\* quarantine, whatever failed, until someone asks for a deletion.
NothingIsLost ==
  ~asked => saved \subseteq live.items \cup UNION {k.items : k \in kept}

\* A file that was there is not migrated before a backup holds all of it, and
\* its tables are those of its version.
MigratesSafely ==
  /\ app.pc = "migrate" /\ app.existed /\ live.version < Current =>
       \E k \in kept : k.kind = "backup" /\ live.items \subseteq k.items
  /\ live.version \in 1..Current => live.tables = TablesAt(live.version)

\* A deletion that was reported has left the conversation nowhere: not in the
\* database and not in a copy an earlier start has kept.
DeletedIsGone ==
  gone \cap (live.items \cup UNION {k.items : k \in kept}) = {}

\* No crash, failed file operation or damaged file loses what the user has
\* not deleted, and none keeps what the user has deleted.
DataIsKept == NothingIsLost /\ MigratesSafely /\ DeletedIsGone

\* The active revision has the texts that were applied last, across restarts.
AppliedIsActive ==
  live.profile # NoProfile => TextsOf(live.profile, live.profile.active) = applied

\* A turn that names a revision was prompted with the texts of that revision,
\* and without a storage only factory texts are used.
TurnQuotesItsRevision ==
  turn.sent =>
    LET texts == [system |-> turn.system, persona |-> turn.persona]
    IN  /\ turn.revision # 0 => texts = TextsOf(live.profile, turn.revision)
        /\ app.pc = "session" => texts = SeedTexts

\* A clean panel shows what is active, also after a draft was discarded for a close
\* that then failed, unless the profile could not be read when the panel was filled.
CleanPanelIsActive ==
  app.pc = "running" /\ ~panel.dirty /\ ~panel.unread =>
    /\ [system |-> panel.system, persona |-> panel.persona]
         = TextsOf(live.profile, live.profile.active)
    /\ panel.preset = live.profile.preset

\* The prompt history is whole and the store, the panel and the turns agree
\* on the prompt in use.
PromptsAgree ==
  /\ HistoryIsWhole(live.profile)
  /\ AppliedIsActive /\ TurnQuotesItsRevision /\ CleanPanelIsActive

\* What no start gets out of: a row without its parent, a damaged page in a file that
\* has more than the last migration before it, and a file of a newer version.
NoWayOut(db) ==
  \/ db.damage = "orphan"
  \/ db.damage = "page" /\ db.version < Current - 1
  \/ db.version > Current

\* Whatever broke off earlier starts, a start that holds the lock, meets no further
\* fault and finds none of these ends with the storage: what is left of a migration,
\* a quarantine, a deletion or a crash never keeps the application session-only.
StorageComesBack ==
  (app.pc = "open" /\ faults = MaxFaults /\ ~NoWayOut(live)) ~> (app.pc = "running")
============================================================================
