--------------------------- MODULE PromptProfile ---------------------------
(***************************************************************************)
(* The prompt profile of mentat-storage/src/prompt_store.rs: per layer an  *)
(* append-only history of contents, a list of revisions that each bind one *)
(* content of either layer, and the active revision.  The operators are    *)
(* the transactions on it; the module Startup says when they are called.   *)
(*                                                                         *)
(* A factory text is named by its resource key (a preset or a persona), a  *)
(* text of the user by itself; ids are positions in the histories.         *)
(***************************************************************************)
EXTENDS Integers, Sequences, FiniteSets

CONSTANTS
  Presets,         \* the factory System prompts
  Personas,        \* the factory Persona prompts
  UserTexts,       \* what a person may write
  TooLarge,        \* the user's texts of more than 32 KiB
  DefaultPreset,   \* SystemPreset::Intermediate
  DefaultPersona   \* PersonaKind::DefaultAnalyst

ASSUME PromptAssumption ==
  /\ DefaultPreset \in Presets
  /\ DefaultPersona \in Personas
  /\ TooLarge \subseteq UserTexts
  /\ Presets \cap Personas = {}
  /\ (Presets \cup Personas) \cap UserTexts = {}

Layers == {"System", "Persona"}
Factory == Presets \cup Personas
AllTexts == Factory \cup UserTexts

----------------------------------------------------------------------------
\* Rows: prompt_content_versions, prompt_profile_revisions, prompt_profiles.

Contents ==
  [version : Nat \ {0}, kind : {"FactoryRef", "UserText", "RestoredText"},
   text : AllTexts, parent : Nat, from : Nat]

Revisions == [system : Nat, persona : Nat, previous : Nat]

Profiles ==
  [active : Nat, preset : Presets, revisions : Seq(Revisions),
   contents : [Layers -> Seq(Contents)]]

NoProfile ==
  [active |-> 0, preset |-> DefaultPreset, revisions |-> <<>>,
   contents |-> [l \in Layers |-> <<>>]]

Content(p, layer, id) == p.contents[layer][id]

\* COALESCE(MAX(version), 0) + 1 over the rows of the layer.
NextVersion(rows) ==
  LET used == {rows[i].version : i \in DOMAIN rows}
  IN  IF used = {} THEN 1 ELSE (CHOOSE v \in used : \A w \in used : w <= v) + 1

\* What a layer holds after a content is inserted; its id is the last one.
InsertContent(p, layer, kind, text, parent, from) ==
  LET row == [version |-> NextVersion(p.contents[layer]), kind |-> kind,
              text |-> text, parent |-> parent, from |-> from]
  IN  [p EXCEPT !.contents[layer] = Append(@, row)]

----------------------------------------------------------------------------
\* A draft of one layer: keep the content, write a text, go back to a factory
\* text, or restore an earlier content of the same layer.

LayerDrafts ==
  [kind : {"Preserve"}, text : {DefaultPreset}, row : {0}]
  \cup [kind : {"UserText"}, text : UserTexts \cup Factory, row : {0}]
  \cup [kind : {"ResetToFactory"}, text : Factory, row : {0}]
  \cup [kind : {"RestoreVersion"}, text : {DefaultPreset}, row : Nat]

Drafts == [preset : Presets, system : LayerDrafts, persona : LayerDrafts]

\* Only a text of the user can be too long, and only an existing row of this
\* layer can be restored.
DraftIsValid(p, layer, d) ==
  /\ d.kind = "UserText" => d.text \notin TooLarge
  /\ d.kind = "RestoreVersion" => d.row \in DOMAIN p.contents[layer]

\* materialize_draft: the profile with the content that the draft asks for.
Materialize(p, layer, current, d) ==
  CASE d.kind = "Preserve" -> p
    [] d.kind = "UserText" -> InsertContent(p, layer, "UserText", d.text, 0, 0)
    [] d.kind = "ResetToFactory" ->
         InsertContent(p, layer, "FactoryRef", d.text, current, 0)
    [] OTHER ->
         LET old == Content(p, layer, d.row)
         IN  IF old.kind = "FactoryRef"
             THEN InsertContent(p, layer, "FactoryRef", old.text, d.row, 0)
             ELSE InsertContent(p, layer, "RestoredText", old.text, d.row, d.row)

MaterializedId(p, layer, current, d) ==
  IF d.kind = "Preserve" THEN current ELSE Len(p.contents[layer]) + 1

----------------------------------------------------------------------------
\* The transactions.

\* seed_factory_prompt_profile, when there is no profile yet.
SeedProfile ==
  LET first(text) == <<[version |-> 1, kind |-> "FactoryRef", text |-> text,
                        parent |-> 0, from |-> 0]>>
  IN  [active    |-> 1,
       preset    |-> DefaultPreset,
       revisions |-> <<[system |-> 1, persona |-> 1, previous |-> 0]>>,
       contents  |-> [l \in Layers |-> first(IF l = "System" THEN DefaultPreset
                                                             ELSE DefaultPersona)]]

\* load_active_prompt_profile finds the active revision and both contents.
Loads(p) ==
  /\ p.active \in DOMAIN p.revisions
  /\ p.revisions[p.active].system \in DOMAIN p.contents["System"]
  /\ p.revisions[p.active].persona \in DOMAIN p.contents["Persona"]

TextsOf(p, r) ==
  [system  |-> Content(p, "System", p.revisions[r].system).text,
   persona |-> Content(p, "Persona", p.revisions[r].persona).text]

\* apply_prompt_draft commits only if the active revision is the one that was
\* edited and both layers can be materialized.
Applicable(p, expected, draft) ==
  /\ Loads(p)
  /\ p.active = expected
  /\ DraftIsValid(p, "System", draft.system)
  /\ DraftIsValid(p, "Persona", draft.persona)

\* The profile after the commit: both contents, the next revision, and the
\* compare-and-swap of the active one.
Applied(p, draft) ==
  LET now     == p.revisions[p.active]
      system  == Materialize(p, "System", now.system, draft.system)
      both    == Materialize(system, "Persona", now.persona, draft.persona)
      next    == [system   |-> MaterializedId(p, "System", now.system, draft.system),
                  persona  |-> MaterializedId(p, "Persona", now.persona, draft.persona),
                  previous |-> p.active]
  IN  [both EXCEPT !.preset = draft.preset,
                   !.revisions = Append(@, next),
                   !.active = Len(p.revisions) + 1]

----------------------------------------------------------------------------
\* What a history has to be.

\* Revisions follow each other and the last one is active.
RevisionsChain(p) ==
  /\ p.active = Len(p.revisions)
  /\ \A r \in DOMAIN p.revisions : p.revisions[r].previous = r - 1

\* Every revision can be loaded: both its contents exist.
RevisionsResolve(p) ==
  \A r \in DOMAIN p.revisions :
    /\ p.revisions[r].system \in DOMAIN p.contents["System"]
    /\ p.revisions[r].persona \in DOMAIN p.contents["Persona"]

\* The versions of a layer are numbered without a gap or a repetition.
VersionsCount(p) ==
  \A l \in Layers : \A i \in DOMAIN p.contents[l] : p.contents[l][i].version = i

\* No content is left behind by a transaction that did not commit a revision.
NothingOrphaned(p) ==
  /\ \A i \in DOMAIN p.contents["System"] :
       \E r \in DOMAIN p.revisions : p.revisions[r].system = i
  /\ \A i \in DOMAIN p.contents["Persona"] :
       \E r \in DOMAIN p.revisions : p.revisions[r].persona = i

\* No stored text is longer than an execution accepts.
TextsFit(p) ==
  \A l \in Layers : \A i \in DOMAIN p.contents[l] :
    p.contents[l][i].text \notin TooLarge

HistoryIsWhole(p) ==
  RevisionsChain(p) /\ RevisionsResolve(p) /\ VersionsCount(p)
    /\ NothingOrphaned(p) /\ TextsFit(p)
============================================================================
