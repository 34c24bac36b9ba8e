--------------------------- MODULE ProviderSetup ---------------------------
(***************************************************************************)
(* Provider setup: the draft of the settings screen, its catalog and       *)
(* verification, the active AI, the remembered key and the reconnection at *)
(* start (provider_setup.rs, credential_state.rs, settings_panel.rs and    *)
(* their handlers in chat_app.rs).                                         *)
(*                                                                         *)
(* A target is a provider with its base URL.  A key belongs to the target  *)
(* the user typed it for.  What a provider reports is tagged with what it  *)
(* was asked about, so that a stale report shows.  One frame of the UI     *)
(* handles one event.  Saved profiles other than the latest, and a read of *)
(* that row which fails by itself, are left out.                           *)
(* A key may also come from .env.local, which no target is written in.     *)
(***************************************************************************)
EXTENDS Naturals

CONSTANTS
  Target,   \* provider and base URL
  NeedsKey, \* targets whose provider requires an API key
  Gemini,   \* targets of provider GoogleGemini: its own URL, and edited ones
  Default,  \* target of BackendProfile::default
  Key,      \* API keys
  KeyOf,    \* [Key -> Target]: what each key was typed for
  EnvKey,   \* keys .env.local may hold, which serves any Gemini profile
  Model,    \* model ids
  MayFail,  \* stores may fail, and the process may end inside a handler
  None

ASSUME TargetAssumption ==
  /\ NeedsKey \subseteq Target /\ Gemini \subseteq Target
  /\ Default \in Gemini /\ KeyOf \in [Key -> Target] /\ EnvKey \subseteq Key
ASSUME FailAssumption == MayFail \in BOOLEAN

Profile == [target : Target, key : Key \cup {None}, model : Model \cup {None}]
Row == [target : Target, model : Model \cup {None}]
Connection == [target : Target, key : Key \cup {None}]
Level == {"chat", "tools"}
Request == [kind : {"catalog", "verify"}, profile : Profile]

ASSUME NoneAssumption ==
  /\ None \notin Key \cup Model \cup Target
  /\ None \notin Profile \cup Row \cup Connection

VARIABLES
  up,           \* the program runs
  store,        \* self.storage is Some
  draft,        \* draft_profile
  catalog,      \* models listed, and the connection that listed them
  verified,     \* verified_profile
  verifiedCaps, \* verified_capabilities, and the profile they were measured for
  active,       \* active_profile
  activeCaps,   \* active_capabilities, tagged likewise
  busy,         \* provider_busy
  asked,        \* discoveries and verifications in flight
  auto,         \* auto_connect_profile
  remember,     \* the "remember this key" box
  approved,     \* repository_egress_approved
  disk          \* native store item, secret preference, latest saved profile

setup == <<draft, catalog, verified, verifiedCaps, active, activeCaps>>
tasks == <<busy, asked, auto>>
boxes == <<remember, approved>>
vars == <<up, store, setup, tasks, boxes, disk>>

Conn(p) == [target |-> p.target, key |-> p.key]
NoCatalog == [of |-> None, models |-> {}]
NoCaps == [of |-> None, level |-> None]
Choice(p) == [target |-> p.target, model |-> p.model]

Stage ==
  CASE verified = draft /\ active = draft -> "Active"
    [] verified = draft /\ active # draft -> "ModelVerified"
    [] verified # draft /\ catalog.models # {} -> "ModelsDiscovered"
    [] OTHER -> "Draft"

KeyReady(p) == p.target \in NeedsKey => p.key # None

Init ==
  /\ up = FALSE /\ store = FALSE
  /\ draft = [target |-> Default, key |-> None, model |-> None]
  /\ catalog = NoCatalog
  /\ verified = None /\ verifiedCaps = NoCaps
  /\ active = None /\ activeCaps = NoCaps
  /\ busy = FALSE /\ asked = {} /\ auto = None
  /\ remember = FALSE /\ approved = FALSE
  /\ disk = [secret |-> None, reference |-> FALSE, row |-> None]

\* The process ends: what lives in memory is gone.
End ==
  /\ up' = FALSE /\ store' = FALSE
  /\ draft' = [target |-> Default, key |-> None, model |-> None]
  /\ catalog' = NoCatalog
  /\ verified' = None /\ verifiedCaps' = NoCaps
  /\ active' = None /\ activeCaps' = NoCaps
  /\ busy' = FALSE /\ asked' = {} /\ auto' = None
  /\ remember' = FALSE /\ approved' = FALSE

-----------------------------------------------------------------------------
(* The two stores (credential_state.rs, secret_preferences.rs).             *)

\* delete_profile: the native item first, then the preference.
Forget(d) ==
  LET item == [d EXCEPT !.secret = None]
  IN {[item EXCEPT !.reference = FALSE]} \cup IF MayFail THEN {d, item} ELSE {}

\* The three writes of an activation: native item, preference, profile row.
Remembered == remember /\ draft.target \in NeedsKey
WroteItem == [disk EXCEPT !.secret = IF Remembered THEN draft.key ELSE None]
WroteReference == [WroteItem EXCEPT !.reference = Remembered]
WroteRow == [WroteReference EXCEPT !.row = Choice(draft)]

\* What a failed write leaves: persist takes a new item back if the preference
\* fails, the handler forgets the key if the row fails, and both may fail too.
FailedSaves ==
  {disk, WroteItem} \cup Forget(WroteReference)
    \cup IF Remembered THEN {[WroteItem EXCEPT !.secret = None]} ELSE {}

-----------------------------------------------------------------------------
(* Start and end of the program (MentatChatApp::new).                       *)

\* A row, a preference and a native item under its id; without a row the new
\* profile gets a new id, under which nothing is stored.
Known == store' /\ disk.row # None
Restored ==
  LET kept == Known /\ disk.reference
  IN {[key |-> IF kept THEN disk.secret ELSE None, kept |-> kept]}
       \cup IF MayFail THEN [key : {None}, kept : {kept, FALSE}] ELSE {}

\* The saved model is only a proposal: it is listed and verified again before
\* it becomes active.
Start ==
  /\ ~up /\ up' = TRUE
  /\ store' \in IF MayFail THEN BOOLEAN ELSE {TRUE}
  /\ disk' = IF store' /\ ~Known THEN [disk EXCEPT !.secret = None, !.reference = FALSE] ELSE disk
  /\ \E r \in Restored, env \in EnvKey \cup {None} :
       LET row == IF Known THEN disk.row ELSE [target |-> Default, model |-> None]
           key == IF r.key = None /\ row.target \in Gemini THEN env ELSE r.key
           saved == [target |-> row.target, key |-> key, model |-> row.model]
           connects == saved.model # None /\ KeyReady(saved)
       IN /\ draft' = saved
          /\ remember' = r.kept
          /\ auto' = IF connects THEN saved ELSE None
          /\ busy' = connects
          /\ asked' = IF connects THEN {[kind |-> "catalog", profile |-> saved]} ELSE {}
  /\ UNCHANGED <<catalog, verified, verifiedCaps, active, activeCaps, approved>>

Exit ==
  /\ up
  /\ End
  /\ UNCHANGED disk

-----------------------------------------------------------------------------
(* The settings screen (show_settings, SettingsPanel::show).                *)

\* reconcile_edit, when the connection changed.
DropConnection ==
  /\ catalog' = NoCatalog
  /\ verified' = None /\ verifiedCaps' = NoCaps
  /\ auto' = None

\* Slips: the key box is left as it was; the field is blanked with a text.
EditTargetKeepsKey(t) ==
  /\ up /\ t # draft.target
  /\ draft' = [draft EXCEPT !.target = t, !.model = None]
  /\ DropConnection
  /\ remember' = FALSE /\ approved' = FALSE
  /\ disk' \in IF store THEN Forget(disk) ELSE {disk}
  /\ UNCHANGED <<up, store, active, activeCaps, busy, asked>>

EditTargetBlank(t) ==
  /\ up /\ t # draft.target
  /\ draft' = [target |-> t, key |-> "", model |-> None]
  /\ DropConnection
  /\ remember' = FALSE /\ approved' = FALSE
  /\ disk' \in IF store THEN Forget(disk) ELSE {disk}
  /\ UNCHANGED <<up, store, active, activeCaps, busy, asked>>

\* Another provider or base URL: the key is dropped and forgotten.
EditTarget(t) ==
  /\ up /\ t # draft.target
  /\ draft' = [target |-> t, key |-> None, model |-> None]
  /\ DropConnection
  /\ remember' = FALSE /\ approved' = FALSE
  /\ disk' \in IF store THEN Forget(disk) ELSE {disk}
  /\ UNCHANGED <<up, store, active, activeCaps, busy, asked>>

EditKey(k) ==
  /\ up /\ draft.target \in NeedsKey
  /\ k # draft.key /\ (k # None => KeyOf[k] = draft.target)
  /\ draft' = [draft EXCEPT !.key = k, !.model = None]
  /\ DropConnection
  /\ UNCHANGED <<up, store, active, activeCaps, busy, asked, boxes, disk>>

ToggleRemember ==
  /\ up /\ draft.target \in NeedsKey
  /\ remember' = ~remember
  /\ UNCHANGED <<up, store, setup, tasks, approved, disk>>

\* The edit check has passed by then: the proposed reconnection is kept.
SelectModel(m) ==
  /\ up /\ ~busy /\ m \in catalog.models /\ m # draft.model
  /\ draft' = [draft EXCEPT !.model = m]
  /\ verified' = None /\ verifiedCaps' = NoCaps
  /\ approved' = FALSE
  /\ UNCHANGED <<up, store, catalog, active, activeCaps, tasks, remember, disk>>

Ask(kind, p) ==
  /\ busy' = TRUE
  /\ asked' = asked \cup {[kind |-> kind, profile |-> p]}

\* Slip: the button stays enabled while a request is in flight.
DiscoverAnytime ==
  /\ up /\ KeyReady(draft)
  /\ catalog' = NoCatalog
  /\ verified' = None /\ verifiedCaps' = NoCaps
  /\ Ask("catalog", draft)
  /\ UNCHANGED <<up, store, draft, active, activeCaps, auto, boxes, disk>>

\* begin_model_discovery
DiscoverClicked ==
  /\ up /\ ~busy /\ KeyReady(draft)
  /\ catalog' = NoCatalog
  /\ verified' = None /\ verifiedCaps' = NoCaps
  /\ Ask("catalog", draft)
  /\ UNCHANGED <<up, store, draft, active, activeCaps, auto, boxes, disk>>

\* begin_model_verification
VerifyClicked ==
  /\ up /\ ~busy /\ draft.model \in catalog.models
  /\ Ask("verify", draft)
  /\ UNCHANGED <<up, store, setup, auto, boxes, disk>>

\* The stores are written first; a failure leaves the active AI as it was.
\* Without storage a key cannot be remembered and nothing happens.
ActivateClicked ==
  /\ up /\ ~busy /\ Stage = "ModelVerified"
  /\ \/ /\ IF store THEN disk' = WroteRow ELSE ~remember /\ disk' = disk
        /\ active' = draft /\ activeCaps' = verifiedCaps
     \/ /\ MayFail /\ store
        /\ disk' \in FailedSaves
        /\ UNCHANGED <<active, activeCaps>>
  /\ UNCHANGED <<up, store, draft, catalog, verified, verifiedCaps, tasks, boxes>>

\* The process ends between two writes of an activation.
CrashWhileActivating ==
  /\ MayFail /\ up /\ store /\ ~busy /\ Stage = "ModelVerified"
  /\ disk' \in {WroteItem, WroteReference, WroteRow}
  /\ End

-----------------------------------------------------------------------------
(* Results, handled by poll_async in a later frame.                         *)

Settled(r) == busy' = FALSE /\ asked' = asked \ {r}

\* Slip: the busy flag survives an error.
ResultDroppedBusy(r) ==
  /\ up /\ r \in asked
  /\ asked' = asked \ {r}
  /\ UNCHANGED <<up, store, setup, busy, auto, boxes, disk>>

\* An error, an empty list, an incompatible model, or a result about a draft
\* that has been edited since: a status line, and nothing else changes.
ResultDropped(r) ==
  /\ up /\ r \in asked
  /\ Settled(r)
  /\ UNCHANGED <<up, store, setup, auto, boxes, disk>>

\* Slip: the list is taken whatever the draft has become.
CatalogAcceptedStale(r, listed) ==
  /\ up /\ r \in asked /\ r.kind = "catalog" /\ listed # {}
  /\ draft' = [draft EXCEPT !.model = IF @ \in listed THEN @ ELSE None]
  /\ catalog' = [of |-> Conn(r.profile), models |-> listed]
  /\ verified' = None /\ verifiedCaps' = NoCaps
  /\ Settled(r)
  /\ UNCHANGED <<up, store, active, activeCaps, auto, boxes, disk>>

\* accept_catalog; the proposed reconnection goes on to the verification.
CatalogAccepted(r, listed) ==
  /\ up /\ r \in asked /\ r.kind = "catalog"
  /\ r.profile = draft /\ listed # {}
  /\ LET kept == [draft EXCEPT !.model = IF @ \in listed THEN @ ELSE None]
         proposed == auto = r.profile
     IN /\ draft' = kept
        /\ catalog' = [of |-> Conn(r.profile), models |-> listed]
        /\ verified' = None /\ verifiedCaps' = NoCaps
        /\ IF proposed /\ kept.model # None
           THEN /\ busy' = TRUE
                /\ asked' = (asked \ {r}) \cup {[kind |-> "verify", profile |-> kept]}
                /\ auto' = auto
           ELSE /\ Settled(r)
                /\ auto' = IF proposed THEN None ELSE auto
  /\ UNCHANGED <<up, store, active, activeCaps, boxes, disk>>

Answers(r) ==
  up /\ r \in asked /\ r.kind = "verify" /\ r.profile = draft /\ draft.model \in catalog.models

\* The model generates text but is not fit for a conversation.
VerdictNoChat(r) ==
  /\ Answers(r)
  /\ verified' = None /\ verifiedCaps' = NoCaps
  /\ Settled(r)
  /\ UNCHANGED <<up, store, draft, catalog, active, activeCaps, auto, boxes, disk>>

\* accept_capability_verification; the proposed reconnection becomes active.
VerdictAccepted(r, level) ==
  /\ Answers(r)
  /\ verified' = r.profile
  /\ verifiedCaps' = [of |-> r.profile, level |-> level]
  /\ Settled(r)
  /\ IF auto = r.profile
     THEN auto' = None /\ active' = draft /\ activeCaps' = verifiedCaps'
     ELSE UNCHANGED <<auto, active, activeCaps>>
  /\ UNCHANGED <<up, store, draft, catalog, boxes, disk>>

-----------------------------------------------------------------------------
(* The consent box of the repository bar (show_repository_bar).             *)

\* A repository is attached.  The box is there for an active AI that can use
\* the repository tools over the network.
Approve ==
  /\ up /\ ~approved
  /\ active # None /\ activeCaps.level = "tools" /\ active.target \in NeedsKey
  /\ approved' = TRUE
  /\ UNCHANGED <<up, store, setup, tasks, remember, disk>>

\* Unticked, or reset by a new conversation or repository.
Withdraw ==
  /\ up /\ approved
  /\ approved' = FALSE
  /\ UNCHANGED <<up, store, setup, tasks, remember, disk>>

-----------------------------------------------------------------------------

Edits ==
  \/ \E t \in Target : EditTarget(t)
  \/ \E k \in Key \cup {None} : EditKey(k)
  \/ ToggleRemember
  \/ \E m \in Model : SelectModel(m)

Clicks == DiscoverClicked \/ VerifyClicked \/ ActivateClicked \/ Approve \/ Withdraw

Result(r) ==
  \/ ResultDropped(r)
  \/ \E listed \in SUBSET Model : CatalogAccepted(r, listed)
  \/ VerdictNoChat(r)
  \/ \E level \in Level : VerdictAccepted(r, level)

Next ==
  \/ Start \/ Exit \/ CrashWhileActivating
  \/ Edits \/ Clicks
  \/ \E r \in asked : Result(r)

Spec == Init /\ [][Next]_vars

\* Every request to a provider has a time limit, and its result is polled.
FairSpec == Spec /\ WF_vars(\E r \in asked : Result(r))

-----------------------------------------------------------------------------
(* Properties.                                                              *)

TypeOK ==
  /\ up \in BOOLEAN /\ store \in BOOLEAN
  /\ draft \in Profile
  /\ catalog \in [of : Connection \cup {None}, models : SUBSET Model]
  /\ verified \in Profile \cup {None} /\ active \in Profile \cup {None}
  /\ verifiedCaps \in [of : Profile \cup {None}, level : Level \cup {None}]
  /\ activeCaps \in [of : Profile \cup {None}, level : Level \cup {None}]
  /\ busy \in BOOLEAN /\ asked \subseteq Request /\ auto \in Profile \cup {None}
  /\ remember \in BOOLEAN /\ approved \in BOOLEAN
  /\ disk \in [secret : Key \cup {None}, reference : BOOLEAN, row : Row \cup {None}]

\* The models offered were listed by the provider, URL and key now in the draft:
\* a list that arrives after an edit is dropped (accept_catalog, reconcile_edit).
CatalogIsCurrent == catalog.models # {} => catalog.of = Conn(draft)

\* A verification stands only for exactly the draft, measured with it, and for a
\* model of the current list (accept_verification and every edit).
VerifiedIsCurrent ==
  verified # None =>
    verified = draft /\ verifiedCaps.of = draft /\ draft.model \in catalog.models

\* The active AI works with the capabilities measured for exactly that profile in
\* this launch, however it became active (activate, the proposed reconnection).
ActiveWasMeasured ==
  active # None => activeCaps.of = active /\ activeCaps.level \in Level

\* Nothing the setup holds is about an earlier draft than the one it is used for.
SetupIsCurrent == CatalogIsCurrent /\ VerifiedIsCurrent /\ ActiveWasMeasured

\* The busy flag and the one request in flight go together: no two requests race
\* for the draft, and the buttons are not blocked for nothing.
OneRequest ==
  /\ busy <=> asked # {}
  /\ \A r, s \in asked : r = s

\* The key of .env.local belongs to no URL: a start gives it to the saved Gemini
\* profile that has no key of its own, whatever its base URL has been edited to.
Own(p) ==
  p.key # None => KeyOf[p.key] = p.target \/ (p.key \in EnvKey /\ p.target \in Gemini)

\* Unless a store fails or the process dies in the middle of an activation, a key
\* is only sent to the target it was typed for, and that of .env.local to Gemini
\* profiles, restarts included (delete_profile on a changed target; secret,
\* preference and row saved together).
OwnKeysOnly == (\A r \in asked : Own(r.profile)) /\ (active # None => Own(active))

\* Without faults the native item and the preference that names it come and go
\* together: no key is left behind that no profile refers to.
KeyIsReferenced == disk.secret # None <=> disk.reference

\* Key and target stay a pair in memory and on disk along every path of edits,
\* activations and restarts.
KeysStayPaired == OwnKeysOnly /\ KeyIsReferenced

\* The settings screen does not stay busy: each request ends in a result that
\* gives the buttons back, also along the automatic reconnection.
SetupSettles == busy ~> ~busy
=============================================================================
