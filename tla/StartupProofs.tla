--------------------------- MODULE StartupProofs ---------------------------
(***************************************************************************)
(* Proofs about PromptProfile and Startup for any texts, histories,        *)
(* conversations and earlier versions: a transaction that is applied       *)
(* leaves a whole history, and whatever an earlier revision said it says   *)
(* afterwards too; no crash, failed operation or damaged file loses a      *)
(* conversation or keeps a deleted one, and the stored profile, the        *)
(* settings panel and the turns agree on the prompt in use.                *)
(***************************************************************************)
EXTENDS Startup, SequenceTheorems, TLAPS

\* A row that a layer may take next.
Fits(row, rows) ==
  row \in Contents /\ row.version = Len(rows) + 1 /\ row.text \notin TooLarge

\* Every other layer, the revisions and the active one are as they were.
OthersKept(p, layer, q) ==
  /\ q \in Profiles
  /\ q.active = p.active /\ q.revisions = p.revisions
  /\ \A l \in Layers : l # layer => q.contents[l] = p.contents[l]

\* A profile with one row more in a layer.
Inserted(p, layer, q) ==
  /\ OthersKept(p, layer, q)
  /\ \E row : /\ Fits(row, p.contents[layer])
              /\ q.contents[layer] = Append(p.contents[layer], row)

\* What a draft does to the rows of its layer, and the id its revision gets.
LayerStep(rows, after, current, id) ==
  \/ after = rows /\ id = current
  \/ /\ \E row : Fits(row, rows) /\ after = Append(rows, row)
     /\ id = Len(rows) + 1

-----------------------------------------------------------------------------
(* The next version and the inserted row.                                   *)

\* COALESCE(MAX(version), 0) + 1 is the number of rows plus one, as long as the
\* versions count the rows.
LEMMA NextVersionCounts ==
  ASSUME NEW rows \in Seq(Contents), \A i \in DOMAIN rows : rows[i].version = i
  PROVE  NextVersion(rows) = Len(rows) + 1
<1> DEFINE used == {rows[i].version : i \in DOMAIN rows}
           n == Len(rows)
           max(v) == v \in used /\ \A w \in used : w <= v
<1>1. DOMAIN rows = 1 .. n /\ n \in Nat
  OBVIOUS
<1>2. used = 1 .. n
  <2>1. \A v : v \in used <=> \E i \in DOMAIN rows : v = i
    OBVIOUS
  <2>2. QED
    BY <1>1, <2>1
<1>3. NextVersion(rows) = IF used = {} THEN 1 ELSE (CHOOSE v \in used : \A w \in used : w <= v) + 1
  BY DEF NextVersion
<1> HIDE DEF used, n
<1>4. CASE used = {}
  <2>1. n = 0
    BY <1>1, <1>2, <1>4
  <2>2. QED
    BY <1>3, <1>4, <2>1 DEF n
<1>5. CASE used # {}
  <2>1. max(n)
    BY <1>1, <1>2, <1>5
  <2>2. ASSUME NEW v, max(v) PROVE v = n
    BY <1>1, <1>2, <2>1, <2>2
  <2>3. (CHOOSE v \in used : \A w \in used : w <= v) = n
    <3>1. (CHOOSE v : max(v)) = n
      <4> HIDE DEF max
      <4>1. max(CHOOSE v : max(v))
        BY <2>1, Zenon
      <4>2. QED
        BY <2>2, <4>1
    <3>2. QED
      BY <3>1, Zenon
  <2>4. QED
    BY <1>3, <1>5, <2>3 DEF n
<1>6. QED
  BY <1>4, <1>5

\* An insert appends one row to one layer and changes nothing else.
LEMMA InsertAppends ==
  ASSUME NEW p \in Profiles, VersionsCount(p), NEW layer \in Layers,
         NEW kind \in {"FactoryRef", "UserText", "RestoredText"},
         NEW text \in AllTexts \ TooLarge, NEW parent \in Nat, NEW from \in Nat
  PROVE  Inserted(p, layer, InsertContent(p, layer, kind, text, parent, from))
<1> DEFINE rows == p.contents[layer]
           row == [version |-> NextVersion(rows), kind |-> kind, text |-> text,
                   parent |-> parent, from |-> from]
           q == InsertContent(p, layer, kind, text, parent, from)
<1>1. /\ rows \in Seq(Contents) /\ p.contents \in [Layers -> Seq(Contents)]
      /\ p.active \in Nat /\ p.preset \in Presets /\ p.revisions \in Seq(Revisions)
  BY DEF Profiles
<1>2. NextVersion(rows) = Len(rows) + 1
  BY <1>1, NextVersionCounts DEF VersionsCount
<1>3. Fits(row, rows)
  BY <1>1, <1>2 DEF Fits, Contents
<1>4. q = [p EXCEPT !.contents[layer] = Append(@, row)]
  BY DEF InsertContent
<1> HIDE DEF row, q
<1>5. row \in Contents
  BY <1>3 DEF Fits
<1>6. /\ q.active = p.active /\ q.revisions = p.revisions /\ q.preset = p.preset
      /\ q.contents = [p.contents EXCEPT ![layer] = Append(@, row)]
  BY <1>4 DEF Profiles
<1>7. q.contents \in [Layers -> Seq(Contents)]
  <2>1. Append(rows, row) \in Seq(Contents)
    BY <1>1, <1>5
  <2>2. QED
    BY <1>1, <1>6, <2>1
<1>8. q \in Profiles
  BY <1>1, <1>4, <1>7 DEF Profiles
<1>9. q.contents[layer] = Append(rows, row)
  BY <1>1, <1>6
<1>10. \A l \in Layers : l # layer => q.contents[l] = p.contents[l]
  BY <1>1, <1>6
<1>11. QED
  BY <1>3, <1>6, <1>8, <1>9, <1>10 DEF Inserted, OthersKept, q

\* What a draft of a layer asks for is kept, or appended as a row that fits; in
\* either case the id the revision gets is that of a row of the layer.
LEMMA MaterializeAppends ==
  ASSUME NEW p \in Profiles, VersionsCount(p), TextsFit(p), NEW layer \in Layers,
         NEW current \in DOMAIN p.contents[layer],
         NEW d \in LayerDrafts, DraftIsValid(p, layer, d)
  PROVE  LET q  == Materialize(p, layer, current, d)
             id == MaterializedId(p, layer, current, d)
         IN /\ OthersKept(p, layer, q)
            /\ LayerStep(p.contents[layer], q.contents[layer], current, id)
<1> DEFINE rows == p.contents[layer]
           q == Materialize(p, layer, current, d)
<1>0. /\ rows \in Seq(Contents) /\ DOMAIN rows = 1 .. Len(rows) /\ Len(rows) \in Nat
      /\ current \in Nat
  BY DEF Profiles
<1>a. Factory \subseteq AllTexts \ TooLarge /\ UserTexts \subseteq AllTexts
  BY PromptAssumption DEF Factory, AllTexts
<1>b. \A i \in DOMAIN rows : rows[i].text \in AllTexts \ TooLarge
  <2> TAKE i \in DOMAIN rows
  <2>1. rows[i] \in Contents /\ rows[i].text \notin TooLarge
    BY <1>0 DEF TextsFit
  <2>2. QED
    BY <2>1 DEF Contents
<1>c. d.kind \in {"Preserve", "UserText", "ResetToFactory", "RestoreVersion"}
  BY DEF LayerDrafts
<1>1. CASE d.kind = "Preserve"
  BY <1>1 DEF Materialize, MaterializedId, OthersKept, LayerStep
<1>2. CASE d.kind = "UserText"
  <2>1. d.text \in AllTexts \ TooLarge
    BY <1>2, <1>a DEF LayerDrafts, DraftIsValid
  <2>2. q = InsertContent(p, layer, "UserText", d.text, 0, 0)
    BY <1>2 DEF Materialize
  <2>3. Inserted(p, layer, q)
    BY <2>1, <2>2, InsertAppends
  <2>4. QED
    BY <1>2, <2>3 DEF MaterializedId, Inserted, LayerStep
<1>3. CASE d.kind = "ResetToFactory"
  <2>1. d.text \in AllTexts \ TooLarge
    BY <1>3, <1>a DEF LayerDrafts
  <2>2. q = InsertContent(p, layer, "FactoryRef", d.text, current, 0)
    BY <1>3 DEF Materialize
  <2>3. Inserted(p, layer, q)
    BY <1>0, <2>1, <2>2, InsertAppends
  <2>4. QED
    BY <1>3, <2>3 DEF MaterializedId, Inserted, LayerStep
<1>4. CASE d.kind = "RestoreVersion"
  <2>1. d.row \in DOMAIN rows /\ d.row \in Nat
    BY <1>0, <1>4 DEF DraftIsValid
  <2>2. rows[d.row].text \in AllTexts \ TooLarge
    BY <1>b, <2>1
  <2>3. PICK kind \in {"FactoryRef", "RestoredText"}, from \in {0, d.row} :
          q = InsertContent(p, layer, kind, rows[d.row].text, d.row, from)
    BY <1>4 DEF Materialize, Content
  <2>4. from \in Nat
    BY <2>1
  <2>5. Inserted(p, layer, q)
    BY <2>1, <2>2, <2>3, <2>4, InsertAppends
  <2>6. QED
    BY <1>4, <2>5 DEF MaterializedId, Inserted, LayerStep
<1>5. QED
  BY <1>c, <1>1, <1>2, <1>3, <1>4

\* A step of a layer loses no row and leaves the versions and the lengths right.
LEMMA LayerStepKeeps ==
  ASSUME NEW rows \in Seq(Contents), NEW current \in DOMAIN rows, NEW after, NEW id,
         LayerStep(rows, after, current, id)
  PROVE  /\ after \in Seq(Contents)
         /\ DOMAIN rows \subseteq DOMAIN after
         /\ \A i \in DOMAIN rows : after[i] = rows[i]
         /\ id \in DOMAIN after
         /\ \A i \in DOMAIN after : i \in DOMAIN rows \/ i = id
         /\ (\A i \in DOMAIN rows : rows[i].version = i)
              => \A i \in DOMAIN after : after[i].version = i
         /\ (\A i \in DOMAIN rows : rows[i].text \notin TooLarge)
              => \A i \in DOMAIN after : after[i].text \notin TooLarge
<1>1. CASE after = rows /\ id = current
  BY <1>1
<1>2. ASSUME NEW row, Fits(row, rows), after = Append(rows, row), id = Len(rows) + 1
      PROVE  /\ after \in Seq(Contents)
             /\ DOMAIN after = 1 .. (Len(rows) + 1) /\ DOMAIN rows = 1 .. Len(rows)
             /\ Len(rows) \in Nat
             /\ \A i \in DOMAIN rows : after[i] = rows[i]
             /\ after[id] = row /\ row.version = id /\ row.text \notin TooLarge
  BY <1>2 DEF Fits
<1>3. CASE \E row : Fits(row, rows) /\ after = Append(rows, row) /\ id = Len(rows) + 1
  <2>1. PICK row : Fits(row, rows) /\ after = Append(rows, row) /\ id = Len(rows) + 1
    BY <1>3
  <2> DEFINE n == Len(rows)
  <2>2. /\ after \in Seq(Contents)
        /\ DOMAIN after = 1 .. (n + 1) /\ DOMAIN rows = 1 .. n /\ n \in Nat /\ id = n + 1
        /\ \A i \in DOMAIN rows : after[i] = rows[i]
        /\ after[id] = row /\ row.version = id /\ row.text \notin TooLarge
    BY <1>2, <2>1
  <2> HIDE DEF n
  <2>3. \A i \in DOMAIN after : i \in DOMAIN rows \/ i = id
    BY <2>2
  <2>4. QED
    BY <2>2, <2>3
<1>4. QED
  BY <1>1, <1>3 DEF LayerStep

-----------------------------------------------------------------------------
(* The transactions.                                                        *)

\* The history a first start writes is whole (seed_factory_prompt_profile).
THEOREM SeedIsWhole == SeedProfile \in Profiles /\ HistoryIsWhole(SeedProfile)
<1> DEFINE row(text) == [version |-> 1, kind |-> "FactoryRef", text |-> text,
                         parent |-> 0, from |-> 0]
           rows == [l \in Layers |-> <<row(IF l = "System" THEN DefaultPreset ELSE DefaultPersona)>>]
           revision == [system |-> 1, persona |-> 1, previous |-> 0]
<1>1. SeedProfile = [active |-> 1, preset |-> DefaultPreset, revisions |-> <<revision>>,
                     contents |-> rows]
  BY DEF SeedProfile
<1>2. \A l \in Layers : \E text \in Factory : rows[l] = <<row(text)>>
  BY PromptAssumption DEF Layers, Factory
<1>3. \A text \in Factory : row(text) \in Contents /\ text \notin TooLarge
  BY PromptAssumption DEF Contents, AllTexts, Factory
<1>4. revision \in Revisions
  BY DEF Revisions
<1> HIDE DEF row
<1>5. rows \in [Layers -> Seq(Contents)]
  <2>1. \A text \in Factory : <<row(text)>> \in Seq(Contents)
    BY <1>3
  <2>2. \A l \in Layers : rows[l] \in Seq(Contents)
    BY <1>2, <2>1
  <2>3. QED
    BY <2>2
<1>6. \A l \in Layers : DOMAIN rows[l] = {1}
  BY <1>2
<1> HIDE DEF rows
<1>7. SeedProfile \in Profiles
  BY <1>1, <1>4, <1>5, PromptAssumption DEF Profiles
<1>8. RevisionsChain(SeedProfile) /\ RevisionsResolve(SeedProfile) /\ NothingOrphaned(SeedProfile)
  BY <1>1, <1>6 DEF RevisionsChain, RevisionsResolve, NothingOrphaned, Layers
<1>9. \A l \in Layers : rows[l][1].version = 1 /\ rows[l][1].text \notin TooLarge
  <2>1. \A text \in Factory : row(text).version = 1 /\ row(text).text = text
    BY DEF row
  <2>2. \A l \in Layers : \E text \in Factory : rows[l][1] = row(text)
    BY <1>2 DEF rows
  <2>3. QED
    BY <1>3, <2>1, <2>2
<1>10. VersionsCount(SeedProfile) /\ TextsFit(SeedProfile)
  BY <1>1, <1>6, <1>9 DEF VersionsCount, TextsFit
<1>11. QED
  BY <1>7, <1>8, <1>10 DEF HistoryIsWhole

\* What a commit of apply_prompt_draft does to the whole profile.
LEMMA AppliedShape ==
  ASSUME NEW p \in Profiles, HistoryIsWhole(p), NEW draft \in Drafts, NEW expected,
         Applicable(p, expected, draft)
  PROVE  LET q == Applied(p, draft)
             now == p.revisions[p.active]
         IN \E system, persona \in Nat :
              /\ q \in Profiles
              /\ q.active = Len(p.revisions) + 1
              /\ q.revisions = Append(p.revisions,
                   [system |-> system, persona |-> persona, previous |-> p.active])
              /\ LayerStep(p.contents["System"], q.contents["System"], now.system, system)
              /\ LayerStep(p.contents["Persona"], q.contents["Persona"], now.persona, persona)
<1> DEFINE now     == p.revisions[p.active]
           one     == Materialize(p, "System", now.system, draft.system)
           both    == Materialize(one, "Persona", now.persona, draft.persona)
           system  == MaterializedId(p, "System", now.system, draft.system)
           persona == MaterializedId(one, "Persona", now.persona, draft.persona)
           named   == MaterializedId(p, "Persona", now.persona, draft.persona)
           next    == [system |-> system, persona |-> named, previous |-> p.active]
           q       == Applied(p, draft)
<1>0. /\ "System" \in Layers /\ "Persona" \in Layers
      /\ draft.system \in LayerDrafts /\ draft.persona \in LayerDrafts
      /\ draft.preset \in Presets
  BY DEF Layers, Drafts
<1>1. /\ now.system \in DOMAIN p.contents["System"]
      /\ now.persona \in DOMAIN p.contents["Persona"]
      /\ DraftIsValid(p, "System", draft.system) /\ DraftIsValid(p, "Persona", draft.persona)
  BY DEF Applicable, Loads
<1>2. /\ p.contents \in [Layers -> Seq(Contents)] /\ p.active \in Nat
      /\ p.revisions \in Seq(Revisions) /\ VersionsCount(p) /\ TextsFit(p)
  BY DEF Profiles, HistoryIsWhole
<1>3. /\ OthersKept(p, "System", one)
      /\ LayerStep(p.contents["System"], one.contents["System"], now.system, system)
  BY <1>0, <1>1, <1>2, MaterializeAppends
<1> HIDE DEF one, system
<1>4. /\ one \in Profiles /\ one.active = p.active /\ one.revisions = p.revisions
      /\ one.contents["Persona"] = p.contents["Persona"]
  BY <1>0, <1>3 DEF OthersKept
<1>5. /\ one.contents["System"] \in Seq(Contents)
      /\ system \in DOMAIN one.contents["System"]
      /\ \A i \in DOMAIN one.contents["System"] : one.contents["System"][i].version = i
      /\ \A i \in DOMAIN one.contents["System"] : one.contents["System"][i].text \notin TooLarge
  <2>1. p.contents["System"] \in Seq(Contents)
    BY <1>0, <1>2
  <2>2. /\ \A i \in DOMAIN p.contents["System"] : p.contents["System"][i].version = i
        /\ \A i \in DOMAIN p.contents["System"] : p.contents["System"][i].text \notin TooLarge
    BY <1>0, <1>2 DEF VersionsCount, TextsFit
  <2> DEFINE rows  == p.contents["System"]
             after == one.contents["System"]
             at    == now.system
  <2>3. rows \in Seq(Contents) /\ at \in DOMAIN rows /\ LayerStep(rows, after, at, system)
    BY <1>1, <1>3, <2>1
  <2>4. /\ \A i \in DOMAIN rows : rows[i].version = i
        /\ \A i \in DOMAIN rows : rows[i].text \notin TooLarge
    BY <2>2
  <2> HIDE DEF rows, after, at
  <2>5. /\ after \in Seq(Contents) /\ system \in DOMAIN after
        /\ \A i \in DOMAIN after : after[i].version = i
        /\ \A i \in DOMAIN after : after[i].text \notin TooLarge
    BY <2>3, <2>4, LayerStepKeeps
  <2>6. QED
    BY <2>5 DEF after
<1>6. VersionsCount(one) /\ TextsFit(one)
  BY <1>2, <1>4, <1>5 DEF VersionsCount, TextsFit, Layers
<1>7. DraftIsValid(one, "Persona", draft.persona)
  BY <1>1, <1>4 DEF DraftIsValid
<1>8. /\ OthersKept(one, "Persona", both)
      /\ LayerStep(one.contents["Persona"], both.contents["Persona"], now.persona, persona)
  BY <1>0, <1>1, <1>4, <1>6, <1>7, MaterializeAppends
<1>9. persona = named
  BY <1>4 DEF MaterializedId
<1>10. q = [both EXCEPT !.preset = draft.preset, !.revisions = Append(@, next),
                        !.active = Len(p.revisions) + 1]
  BY DEF Applied, one, system
<1> HIDE DEF both, persona, named, now
<1>11. /\ both \in Profiles /\ both.revisions = p.revisions
       /\ both.contents["System"] = one.contents["System"]
  BY <1>0, <1>4, <1>8 DEF OthersKept
<1>12. system \in Nat /\ named \in Nat
  <2>1. p.contents["Persona"] \in Seq(Contents)
    BY <1>0, <1>2
  <2>2. named \in DOMAIN both.contents["Persona"] /\ both.contents["Persona"] \in Seq(Contents)
    BY <1>1, <1>4, <1>8, <1>9, <2>1, LayerStepKeeps
  <2>3. QED
    BY <1>5, <2>2
<1>13. next \in Revisions
  BY <1>2, <1>12 DEF Revisions
<1> HIDE DEF next, q
<1>14. Append(p.revisions, next) \in Seq(Revisions) /\ Len(p.revisions) + 1 \in Nat
  BY <1>2, <1>13
<1>15. /\ q \in Profiles /\ q.contents = both.contents /\ q.active = Len(p.revisions) + 1
       /\ q.revisions = Append(p.revisions, next)
  BY <1>0, <1>10, <1>11, <1>14 DEF Profiles
<1>16. QED
  BY <1>3, <1>4, <1>8, <1>9, <1>11, <1>12, <1>15 DEF next, q, now

\* Every Apply leaves a whole history: revisions chain and resolve, versions
\* count, nothing is orphaned and no text is too long (apply_prompt_draft).
THEOREM AppliedIsWhole ==
  ASSUME NEW p \in Profiles, HistoryIsWhole(p), NEW draft \in Drafts, NEW expected,
         Applicable(p, expected, draft)
  PROVE  Applied(p, draft) \in Profiles /\ HistoryIsWhole(Applied(p, draft))
<1> DEFINE q   == Applied(p, draft)
           now == p.revisions[p.active]
           n   == Len(p.revisions)
<1>1. PICK system, persona \in Nat :
        /\ q \in Profiles
        /\ q.active = n + 1
        /\ q.revisions = Append(p.revisions,
             [system |-> system, persona |-> persona, previous |-> p.active])
        /\ LayerStep(p.contents["System"], q.contents["System"], now.system, system)
        /\ LayerStep(p.contents["Persona"], q.contents["Persona"], now.persona, persona)
  BY AppliedShape
<1> DEFINE next == [system |-> system, persona |-> persona, previous |-> p.active]
<1> HIDE DEF q
<1>2. /\ p.contents["System"] \in Seq(Contents) /\ p.contents["Persona"] \in Seq(Contents)
      /\ p.revisions \in Seq(Revisions) /\ p.active \in Nat
  BY DEF Profiles, Layers
<1>3. /\ now.system \in DOMAIN p.contents["System"]
      /\ now.persona \in DOMAIN p.contents["Persona"]
      /\ p.active = n
  BY DEF Applicable, Loads, HistoryIsWhole, RevisionsChain
<1> HIDE DEF now
<1>4. /\ DOMAIN p.revisions = 1 .. n /\ n \in Nat
      /\ DOMAIN q.revisions = 1 .. (n + 1)
      /\ \A r \in 1 .. n : q.revisions[r] = p.revisions[r]
      /\ q.revisions[n + 1] = next /\ Len(q.revisions) = n + 1
  BY <1>1, <1>2, <1>3 DEF Revisions
<1> HIDE DEF n
<1>5. RevisionsChain(q)
  <2>1. \A r \in 1 .. n : q.revisions[r].previous = r - 1
    BY <1>4 DEF HistoryIsWhole, RevisionsChain
  <2>2. q.revisions[n + 1].previous = (n + 1) - 1
    BY <1>3, <1>4
  <2>3. QED
    BY <1>1, <1>4, <2>1, <2>2 DEF RevisionsChain
<1>6. /\ system \in DOMAIN q.contents["System"]
      /\ DOMAIN p.contents["System"] \subseteq DOMAIN q.contents["System"]
      /\ \A i \in DOMAIN q.contents["System"] : i \in DOMAIN p.contents["System"] \/ i = system
      /\ \A i \in DOMAIN q.contents["System"] :
           q.contents["System"][i].version = i /\ q.contents["System"][i].text \notin TooLarge
  <2>1. \A i \in DOMAIN p.contents["System"] : p.contents["System"][i].version = i
    BY DEF HistoryIsWhole, VersionsCount, Layers
  <2>2. \A i \in DOMAIN p.contents["System"] : p.contents["System"][i].text \notin TooLarge
    BY DEF HistoryIsWhole, TextsFit, Layers
  <2>3. LayerStep(p.contents["System"], q.contents["System"], now.system, system)
    BY <1>1
  <2> DEFINE rows  == p.contents["System"]
             after == q.contents["System"]
             at    == now.system
  <2>4. rows \in Seq(Contents) /\ at \in DOMAIN rows /\ LayerStep(rows, after, at, system)
    BY <1>2, <1>3, <2>3
  <2>5. (\A i \in DOMAIN rows : rows[i].version = i)
          /\ (\A i \in DOMAIN rows : rows[i].text \notin TooLarge)
    BY <2>1, <2>2
  <2> HIDE DEF rows, after, at
  <2>6. /\ system \in DOMAIN after
        /\ DOMAIN rows \subseteq DOMAIN after
        /\ \A i \in DOMAIN after : i \in DOMAIN rows \/ i = system
        /\ \A i \in DOMAIN after : after[i].version = i
        /\ \A i \in DOMAIN after : after[i].text \notin TooLarge
    BY <2>4, <2>5, LayerStepKeeps
  <2>7. QED
    BY <2>6 DEF rows, after
<1>7. /\ persona \in DOMAIN q.contents["Persona"]
      /\ DOMAIN p.contents["Persona"] \subseteq DOMAIN q.contents["Persona"]
      /\ \A i \in DOMAIN q.contents["Persona"] : i \in DOMAIN p.contents["Persona"] \/ i = persona
      /\ \A i \in DOMAIN q.contents["Persona"] :
           q.contents["Persona"][i].version = i /\ q.contents["Persona"][i].text \notin TooLarge
  <2>1. \A i \in DOMAIN p.contents["Persona"] : p.contents["Persona"][i].version = i
    BY DEF HistoryIsWhole, VersionsCount, Layers
  <2>2. \A i \in DOMAIN p.contents["Persona"] : p.contents["Persona"][i].text \notin TooLarge
    BY DEF HistoryIsWhole, TextsFit, Layers
  <2>3. LayerStep(p.contents["Persona"], q.contents["Persona"], now.persona, persona)
    BY <1>1
  <2> DEFINE rows  == p.contents["Persona"]
             after == q.contents["Persona"]
             at    == now.persona
  <2>4. rows \in Seq(Contents) /\ at \in DOMAIN rows /\ LayerStep(rows, after, at, persona)
    BY <1>2, <1>3, <2>3
  <2>5. (\A i \in DOMAIN rows : rows[i].version = i)
          /\ (\A i \in DOMAIN rows : rows[i].text \notin TooLarge)
    BY <2>1, <2>2
  <2> HIDE DEF rows, after, at
  <2>6. /\ persona \in DOMAIN after
        /\ DOMAIN rows \subseteq DOMAIN after
        /\ \A i \in DOMAIN after : i \in DOMAIN rows \/ i = persona
        /\ \A i \in DOMAIN after : after[i].version = i
        /\ \A i \in DOMAIN after : after[i].text \notin TooLarge
    BY <2>4, <2>5, LayerStepKeeps
  <2>7. QED
    BY <2>6 DEF rows, after
<1>8. RevisionsResolve(q)
  <2>1. \A r \in 1 .. n : /\ p.revisions[r].system \in DOMAIN p.contents["System"]
                          /\ p.revisions[r].persona \in DOMAIN p.contents["Persona"]
    BY <1>4 DEF HistoryIsWhole, RevisionsResolve
  <2>2. \A r \in 1 .. n : /\ q.revisions[r].system \in DOMAIN q.contents["System"]
                          /\ q.revisions[r].persona \in DOMAIN q.contents["Persona"]
    BY <1>4, <1>6, <1>7, <2>1
  <2>3. /\ q.revisions[n + 1].system \in DOMAIN q.contents["System"]
        /\ q.revisions[n + 1].persona \in DOMAIN q.contents["Persona"]
    <3>1. q.revisions[n + 1].system = system /\ q.revisions[n + 1].persona = persona
      BY <1>4
    <3>2. QED
      BY <1>6, <1>7, <3>1
  <2>4. \A r \in 1 .. (n + 1) : r \in 1 .. n \/ r = n + 1
    BY <1>4
  <2>5. QED
    BY <1>4, <2>2, <2>3, <2>4 DEF RevisionsResolve
<1>9. NothingOrphaned(q)
  <2>1. n + 1 \in DOMAIN q.revisions /\ \A r \in 1 .. n : r \in DOMAIN q.revisions
    BY <1>4
  <2>2. \A i \in DOMAIN q.contents["System"] : \E r \in DOMAIN q.revisions : q.revisions[r].system = i
    BY <1>4, <1>6, <2>1 DEF HistoryIsWhole, NothingOrphaned
  <2>3. \A i \in DOMAIN q.contents["Persona"] : \E r \in DOMAIN q.revisions : q.revisions[r].persona = i
    BY <1>4, <1>7, <2>1 DEF HistoryIsWhole, NothingOrphaned
  <2>4. QED
    BY <2>2, <2>3 DEF NothingOrphaned
<1>10. VersionsCount(q) /\ TextsFit(q)
  BY <1>6, <1>7 DEF VersionsCount, TextsFit, Layers
<1>11. QED
  BY <1>1, <1>5, <1>8, <1>9, <1>10 DEF HistoryIsWhole, q

\* The text of a revision never changes: what a turn names by its revision can
\* be read back after any number of later edits, resets and restores.
THEOREM AppliedKeepsEarlier ==
  ASSUME NEW p \in Profiles, HistoryIsWhole(p), NEW draft \in Drafts, NEW expected,
         Applicable(p, expected, draft), NEW r \in DOMAIN p.revisions
  PROVE  /\ r \in DOMAIN Applied(p, draft).revisions
         /\ Applied(p, draft).revisions[r] = p.revisions[r]
         /\ TextsOf(Applied(p, draft), r) = TextsOf(p, r)
<1> DEFINE q   == Applied(p, draft)
           now == p.revisions[p.active]
<1>1. PICK system, persona \in Nat :
        /\ q.revisions = Append(p.revisions,
             [system |-> system, persona |-> persona, previous |-> p.active])
        /\ LayerStep(p.contents["System"], q.contents["System"], now.system, system)
        /\ LayerStep(p.contents["Persona"], q.contents["Persona"], now.persona, persona)
  BY AppliedShape
<1> HIDE DEF q
<1>2. /\ p.contents["System"] \in Seq(Contents) /\ p.contents["Persona"] \in Seq(Contents)
      /\ p.revisions \in Seq(Revisions)
  BY DEF Profiles, Layers
<1>3. r \in DOMAIN q.revisions /\ q.revisions[r] = p.revisions[r]
  BY <1>1, <1>2
<1>4. /\ now.system \in DOMAIN p.contents["System"]
      /\ now.persona \in DOMAIN p.contents["Persona"]
  BY DEF Applicable, Loads
<1> HIDE DEF now
<1>5. /\ \A i \in DOMAIN p.contents["System"] : q.contents["System"][i] = p.contents["System"][i]
      /\ \A i \in DOMAIN p.contents["Persona"] : q.contents["Persona"][i] = p.contents["Persona"][i]
  <2>1. \A i \in DOMAIN p.contents["System"] : q.contents["System"][i] = p.contents["System"][i]
    BY <1>1, <1>2, <1>4, LayerStepKeeps
  <2>2. \A i \in DOMAIN p.contents["Persona"] : q.contents["Persona"][i] = p.contents["Persona"][i]
    BY <1>1, <1>2, <1>4, LayerStepKeeps
  <2>3. QED
    BY <2>1, <2>2
<1>6. /\ p.revisions[r].system \in DOMAIN p.contents["System"]
      /\ p.revisions[r].persona \in DOMAIN p.contents["Persona"]
  BY DEF HistoryIsWhole, RevisionsResolve
<1>7. QED
  BY <1>3, <1>5, <1>6 DEF q, TextsOf, Content

\* A text that is written, or a factory text that is gone back to, is what the row
\* that is appended says.
LEMMA WrittenRow ==
  ASSUME NEW p \in Profiles, VersionsCount(p), NEW layer \in Layers, NEW current \in Nat,
         NEW d \in LayerDrafts, d.kind \in {"UserText", "ResetToFactory"},
         DraftIsValid(p, layer, d)
  PROVE  LET q == Materialize(p, layer, current, d)
         IN /\ OthersKept(p, layer, q)
            /\ \E row : /\ Fits(row, p.contents[layer]) /\ row.text = d.text
                        /\ row.kind = "FactoryRef" => d.kind = "ResetToFactory"
                        /\ q.contents[layer] = Append(p.contents[layer], row)
<1> DEFINE rows == p.contents[layer]
           q == Materialize(p, layer, current, d)
           row(kind, parent) == [version |-> NextVersion(rows), kind |-> kind, text |-> d.text,
                                 parent |-> parent, from |-> 0]
<1>1. d.text \in AllTexts \ TooLarge
  BY PromptAssumption DEF LayerDrafts, DraftIsValid, Factory, AllTexts
<1>2. PICK kind \in {"FactoryRef", "UserText"}, parent \in Nat :
        /\ q = InsertContent(p, layer, kind, d.text, parent, 0)
        /\ kind = "FactoryRef" => d.kind = "ResetToFactory"
  BY DEF Materialize
<1>3. Inserted(p, layer, q)
  BY <1>1, <1>2, InsertAppends
<1>4. p.contents \in [Layers -> Seq(Contents)]
  BY DEF Profiles
<1>5. q = [p EXCEPT !.contents[layer] = Append(@, row(kind, parent))]
  BY <1>2 DEF InsertContent
<1>6. q.contents[layer] = Append(rows, row(kind, parent))
  <2>1. q.contents = [p.contents EXCEPT ![layer] = Append(@, row(kind, parent))]
    BY <1>5 DEF Profiles
  <2>2. QED
    BY <1>4, <2>1
<1>7. Fits(row(kind, parent), rows)
  <2>1. NextVersion(rows) = Len(rows) + 1
    BY <1>4, NextVersionCounts DEF VersionsCount
  <2>2. Len(rows) + 1 \in Nat \ {0}
    BY <1>4
  <2>3. QED
    BY <1>1, <2>1, <2>2 DEF Fits, Contents
<1>8. row(kind, parent).text = d.text /\ row(kind, parent).kind = kind
  OBVIOUS
<1> HIDE DEF row, q
<1>9. QED
  BY <1>2, <1>3, <1>6, <1>7, <1>8 DEF Inserted, q

\* What Apply stores is what the settings showed (apply_prompt_draft): the active
\* revision then has both texts of the draft, and no row claims to be a factory text
\* that is not one.
THEOREM AppliedSaysTheDraft ==
  ASSUME NEW p \in Profiles, HistoryIsWhole(p), NEW draft \in Drafts, NEW expected,
         Applicable(p, expected, draft),
         draft.system.kind \in {"UserText", "ResetToFactory"},
         draft.persona.kind \in {"UserText", "ResetToFactory"}
  PROVE  LET q == Applied(p, draft)
         IN /\ q.preset = draft.preset
            /\ TextsOf(q, q.active) = [system |-> draft.system.text, persona |-> draft.persona.text]
            /\ \A i \in DOMAIN q.contents["Persona"] :
                 \/ /\ i \in DOMAIN p.contents["Persona"]
                    /\ q.contents["Persona"][i] = p.contents["Persona"][i]
                 \/ /\ q.contents["Persona"][i].text = draft.persona.text
                    /\ q.contents["Persona"][i].kind = "FactoryRef" =>
                         draft.persona.kind = "ResetToFactory"
<1> DEFINE now     == p.revisions[p.active]
           one     == Materialize(p, "System", now.system, draft.system)
           both    == Materialize(one, "Persona", now.persona, draft.persona)
           m       == Len(p.contents["System"])
           n       == Len(p.contents["Persona"])
           next    == [system |-> m + 1, persona |-> n + 1, previous |-> p.active]
           q       == Applied(p, draft)
<1>1. /\ "System" \in Layers /\ "Persona" \in Layers
      /\ draft.system \in LayerDrafts /\ draft.persona \in LayerDrafts
      /\ p.contents \in [Layers -> Seq(Contents)] /\ p.revisions \in Seq(Revisions)
      /\ p.active \in DOMAIN p.revisions /\ VersionsCount(p)
      /\ DraftIsValid(p, "System", draft.system) /\ DraftIsValid(p, "Persona", draft.persona)
  BY DEF Layers, Drafts, Profiles, HistoryIsWhole, Applicable, Loads
<1>2. now.system \in Nat /\ now.persona \in Nat
  <2>1. now \in Revisions
    BY <1>1
  <2>2. QED
    BY <2>1 DEF Revisions
<1>3. q = [both EXCEPT !.preset = draft.preset, !.revisions = Append(@, next),
                       !.active = Len(p.revisions) + 1]
  BY DEF Applied, MaterializedId
<1> HIDE DEF q, now
<1>4. /\ OthersKept(p, "System", one)
      /\ \E row : /\ Fits(row, p.contents["System"]) /\ row.text = draft.system.text
                  /\ row.kind = "FactoryRef" => draft.system.kind = "ResetToFactory"
                  /\ one.contents["System"] = Append(p.contents["System"], row)
  BY <1>1, <1>2, WrittenRow
<1> HIDE DEF one
<1>5. /\ one \in Profiles /\ one.contents["Persona"] = p.contents["Persona"]
      /\ one.revisions = p.revisions
  BY <1>1, <1>4 DEF OthersKept
<1>6. VersionsCount(one)
  <2>1. PICK row : /\ Fits(row, p.contents["System"])
                   /\ one.contents["System"] = Append(p.contents["System"], row)
    BY <1>4
  <2>2. p.contents["System"] \in Seq(Contents) /\ row.version = m + 1 /\ row \in Contents
    BY <1>1, <2>1 DEF Fits
  <2>3. \A i \in DOMAIN one.contents["System"] : one.contents["System"][i].version = i
    BY <1>1, <2>1, <2>2 DEF VersionsCount
  <2>4. QED
    BY <1>1, <1>5, <2>3 DEF VersionsCount, Layers
<1>7. DraftIsValid(one, "Persona", draft.persona)
  BY <1>1, <1>5 DEF DraftIsValid
<1>8. /\ OthersKept(one, "Persona", both)
      /\ \E row : /\ Fits(row, one.contents["Persona"]) /\ row.text = draft.persona.text
                  /\ row.kind = "FactoryRef" => draft.persona.kind = "ResetToFactory"
                  /\ both.contents["Persona"] = Append(one.contents["Persona"], row)
  BY <1>1, <1>2, <1>5, <1>6, <1>7, WrittenRow
<1> HIDE DEF both
<1>9. /\ both \in Profiles /\ both.revisions = p.revisions
      /\ both.contents["System"] = one.contents["System"]
  BY <1>1, <1>5, <1>8 DEF OthersKept
<1>10. /\ q.preset = draft.preset /\ q.contents = both.contents
       /\ q.active = Len(p.revisions) + 1 /\ q.revisions = Append(p.revisions, next)
  BY <1>3, <1>9 DEF Profiles
<1>11. q.revisions[q.active] = next
  BY <1>1, <1>10
<1>12. q.contents["System"][m + 1].text = draft.system.text
  <2>1. p.contents["System"] \in Seq(Contents)
    BY <1>1
  <2>2. QED
    BY <1>4, <1>9, <1>10, <2>1
<1>13. /\ q.contents["Persona"][n + 1].text = draft.persona.text
       /\ q.contents["Persona"][n + 1].kind = "FactoryRef" => draft.persona.kind = "ResetToFactory"
       /\ \A i \in DOMAIN q.contents["Persona"] :
            i # n + 1 => /\ i \in DOMAIN p.contents["Persona"]
                         /\ q.contents["Persona"][i] = p.contents["Persona"][i]
  <2>1. p.contents["Persona"] \in Seq(Contents)
    BY <1>1
  <2>2. PICK row : /\ row.text = draft.persona.text
                   /\ row.kind = "FactoryRef" => draft.persona.kind = "ResetToFactory"
                   /\ q.contents["Persona"] = Append(p.contents["Persona"], row)
    BY <1>5, <1>8, <1>10
  <2>3. /\ q.contents["Persona"][n + 1] = row
        /\ \A i \in DOMAIN q.contents["Persona"] :
             i # n + 1 => /\ i \in DOMAIN p.contents["Persona"]
                          /\ q.contents["Persona"][i] = p.contents["Persona"][i]
    BY <2>1, <2>2
  <2>4. QED
    BY <2>2, <2>3
<1>14. TextsOf(q, q.active) = [system |-> draft.system.text, persona |-> draft.persona.text]
  BY <1>11, <1>12, <1>13 DEF TextsOf, Content
<1>15. QED
  BY <1>10, <1>13, <1>14 DEF q

-----------------------------------------------------------------------------
(* The state of Startup.                                                    *)

Databases ==
  [version : 0..(Current + 1), tables : SUBSET TablesAt(Current), items : SUBSET Items,
   profile : Profiles, damage : {"no", "page", "header", "orphan"}]
Copies == [kind : {"backup", "quarantine"}, items : SUBSET Items]
Apps == [pc : Holding \cup {"off", "session"}, existed : BOOLEAN, target : SUBSET Items]
Panels ==
  [system : AllTexts, persona : AllTexts, preset : Presets, chosen : Personas,
   dirty : BOOLEAN, unread : BOOLEAN, pending : {"none", "close", "leave"}]
Prompts == [sent : BOOLEAN, revision : Nat, system : AllTexts, persona : AllTexts]

\* The types of TypeOK, with the fields of the records.
Typed ==
  /\ live \in Databases /\ kept \subseteq Copies /\ app \in Apps /\ panel \in Panels
  /\ turn \in Prompts

Counted ==
  /\ saved \subseteq Items /\ gone \subseteq saved /\ asked \in BOOLEAN
  /\ faults \in 0..MaxFaults

\* The lock is held exactly while a storage is open.
Locked == lock \in {"free", "app", "other"} /\ ((lock = "app") <=> (app.pc \in Holding))

\* A database of the time before user_version has the first tables or none; what it has
\* or a deletion is about was stored, and copies are removed only for a deletion.
Kept ==
  /\ live.version = 0 => live.tables \subseteq Version1
  /\ live.items \cup app.target \subseteq saved
  /\ app.pc = "cleanup" => asked
  /\ DataIsKept

InUse == app.pc \in {"running", "cleanup"}

\* The stored profile: a row of the Persona layer that refers to a factory text names a
\* persona, and a storage that is in use has a profile that loads.
Stored ==
  /\ HistoryIsWhole(live.profile)
  /\ \A i \in DOMAIN live.profile.contents["Persona"] :
       LET row == Content(live.profile, "Persona", i)
       IN  row.kind = "FactoryRef" => row.text \in Personas
  /\ InUse => Loads(live.profile)
  /\ AppliedIsActive

\* The panel, also while a deletion is under way, and the turn just submitted.
Seen ==
  /\ InUse /\ ~panel.dirty /\ ~panel.unread =>
       /\ panel.system = TextsOf(live.profile, live.profile.active).system
       /\ panel.persona = TextsOf(live.profile, live.profile.active).persona
       /\ panel.preset = live.profile.preset
  /\ turn.sent => Shown
  /\ TurnQuotesItsRevision

IInv == Typed /\ Counted /\ Locked /\ Kept /\ Stored /\ Seen

-----------------------------------------------------------------------------
(* Values.                                                                  *)

\* Each migration adds the tables that make the next version.
LEMMA TablesGrow ==
  ASSUME NEW v \in 0..5
  PROVE  /\ TablesAt(v) \cup Creates[v + 1] = TablesAt(v + 1)
         /\ TablesAt(v + 1) \subseteq TablesAt(Current)
         /\ Creates[v + 1] \subseteq TablesAt(Current)
<1>1. \A i : i \in 1..v + 1 <=> i \in 1..v \/ i = v + 1
  OBVIOUS
<1>2. \A i \in 1..v + 1 : i \in 1..Current
  BY DEF Current
<1>3. \A w : TablesAt(w) = UNION {Creates[i] : i \in 1..w}
  BY DEF TablesAt
<1> HIDE DEF Creates
<1>4. v + 1 \in 1..v + 1 /\ v + 1 \in 1..Current
  BY DEF Current
<1>5. TablesAt(v) \cup Creates[v + 1] = TablesAt(v + 1)
  BY <1>1, <1>3
<1>6. QED
  BY <1>2, <1>3, <1>4, <1>5

\* Before the first migration there is nothing, or what the first one makes.
LEMMA FirstTables == TablesAt(1) = Version1 /\ TablesAt(0) = {}
<1>1. Creates[1] = Version1
  BY DEF Creates
<1>2. \A i : i \in 1..1 <=> i = 1
  OBVIOUS
<1>3. QED
  BY <1>1, <1>2 DEF TablesAt

\* A profile that was never stored has a whole, empty history.
LEMMA NoProfileIsWhole ==
  /\ NoProfile \in Profiles /\ HistoryIsWhole(NoProfile)
  /\ \A l \in Layers : NoProfile.contents[l] = <<>>
<1>1. NoProfile \in Profiles /\ \A l \in Layers : NoProfile.contents[l] = <<>>
  BY PromptAssumption DEF NoProfile, Profiles
<1>2. NoProfile.active = 0 /\ NoProfile.revisions = <<>> /\ "System" \in Layers /\ "Persona" \in Layers
  BY DEF NoProfile, Layers
<1>3. RevisionsChain(NoProfile) /\ RevisionsResolve(NoProfile)
  BY <1>2 DEF RevisionsChain, RevisionsResolve
<1>4. NothingOrphaned(NoProfile) /\ TextsFit(NoProfile) /\ VersionsCount(NoProfile)
  BY <1>1, <1>2 DEF NothingOrphaned, TextsFit, VersionsCount
<1>5. QED
  BY <1>1, <1>3, <1>4 DEF HistoryIsWhole

\* No file is a database with nothing in it.
LEMMA BlankOK == Blank \in Databases
BY NoProfileIsWhole DEF Blank, Databases, Current

\* The factory panel, and a turn that was not submitted.
LEMMA FactoryOK == FactoryPanel \in Panels /\ NoTurn \in Prompts /\ Off \in Apps
BY PromptAssumption DEF FactoryPanel, Panels, NoTurn, Prompts, Off, Apps, AllTexts, Factory

\* The texts of a revision that loads are texts.
LEMMA TextsAreTexts ==
  ASSUME NEW p \in Profiles, Loads(p)
  PROVE  /\ TextsOf(p, p.active).system \in AllTexts /\ TextsOf(p, p.active).persona \in AllTexts
         /\ p.active \in Nat /\ p.preset \in Presets
<1>1. /\ p.contents["System"] \in Seq(Contents) /\ p.contents["Persona"] \in Seq(Contents)
      /\ p.revisions \in Seq(Revisions) /\ p.active \in Nat /\ p.preset \in Presets
  BY DEF Profiles, Layers
<1>2. /\ p.contents["System"][p.revisions[p.active].system] \in Contents
      /\ p.contents["Persona"][p.revisions[p.active].persona] \in Contents
  BY <1>1 DEF Loads
<1>3. QED
  BY <1>1, <1>2 DEF TextsOf, Content, Contents

\* What Apply stores is a draft.
LEMMA DraftOK ==
  ASSUME NEW pn \in Panels
  PROVE  /\ DraftOf(pn) \in Drafts /\ DraftOf(pn).preset = pn.preset
         /\ DraftOf(pn).system.kind \in {"UserText", "ResetToFactory"}
         /\ DraftOf(pn).persona.kind \in {"UserText", "ResetToFactory"}
         /\ DraftOf(pn).system.text = pn.system /\ DraftOf(pn).persona.text = pn.persona
         /\ DraftOf(pn).persona.kind = "ResetToFactory" => pn.persona \in Personas
<1> DEFINE reset(t) == [kind |-> "ResetToFactory", text |-> t, row |-> 0]
           own(t)   == [kind |-> "UserText", text |-> t, row |-> 0]
<1>1. /\ pn.preset \in Presets /\ pn.system \in AllTexts /\ pn.persona \in AllTexts
  BY DEF Panels
<1>2. \A t \in Factory : reset(t) \in LayerDrafts
  BY DEF LayerDrafts
<1>3. \A t \in AllTexts : own(t) \in LayerDrafts
  BY DEF LayerDrafts, AllTexts
<1>4. DraftOf(pn) = [preset |-> pn.preset,
                     system |-> IF pn.system = pn.preset THEN reset(pn.preset) ELSE own(pn.system),
                     persona |-> IF pn.persona \in Personas THEN reset(pn.persona)
                                                            ELSE own(pn.persona)]
  BY DEF DraftOf
<1>5. pn.preset \in Factory /\ (pn.persona \in Personas => pn.persona \in Factory)
  BY <1>1 DEF Factory
<1>6. DraftOf(pn) \in Drafts
  BY <1>1, <1>2, <1>3, <1>4, <1>5 DEF Drafts
<1>7. QED
  BY <1>4, <1>6

\* A profile fills the panel with its texts.
LEMMA FilledOK ==
  ASSUME NEW p \in Profiles, Loads(p),
         \A i \in DOMAIN p.contents["Persona"] :
           LET row == Content(p, "Persona", i)
           IN  row.kind = "FactoryRef" => row.text \in Personas
  PROVE  /\ Filled(p) \in Panels
         /\ Filled(p).system = TextsOf(p, p.active).system
         /\ Filled(p).persona = TextsOf(p, p.active).persona
         /\ Filled(p).preset = p.preset
<1> DEFINE row == Content(p, "Persona", p.revisions[p.active].persona)
           chosen == IF row.kind = "FactoryRef" THEN row.text ELSE DefaultPersona
<1>1. chosen \in Personas
  BY PromptAssumption DEF Loads
<1>2. Filled(p) = [FactoryPanel EXCEPT !.system = TextsOf(p, p.active).system,
                     !.persona = TextsOf(p, p.active).persona, !.preset = p.preset,
                     !.chosen = chosen]
  BY DEF Filled
<1> HIDE DEF chosen
<1>3. QED
  BY <1>1, <1>2, TextsAreTexts, FactoryOK DEF Panels

\* A panel that counts as clean: with the stored texts, or with its own and the mark
\* that they could not be read.
DiscardedPanel ==
  \/ panel' = [Reloaded(TRUE) EXCEPT !.dirty = FALSE, !.pending = "none", !.unread = FALSE]
  \/ panel' = [panel EXCEPT !.dirty = FALSE, !.pending = "none", !.unread = TRUE]

\* A discarded draft leaves the application or such a panel.
LEMMA DiscardCases ==
  ASSUME Discard
  PROVE  Exit \/ (DiscardedPanel /\ UNCHANGED <<app, lock>>)
<1>1. PICK unread \in 0..1, open \in 0..1 :
        \/ Exit
        \/ /\ panel' = [Reloaded(unread = 0) EXCEPT
                           !.dirty = FALSE, !.pending = "none", !.unread = (unread = 1)]
           /\ UNCHANGED <<app, lock>>
  BY DEF Discard
<1>2. CASE unread = 0
  <2>1. (unread = 0) = TRUE /\ (unread = 1) = FALSE
    BY <1>2
  <2>2. QED
    BY <1>1, <2>1 DEF DiscardedPanel
<1>3. CASE unread = 1
  <2>1. (unread = 0) = FALSE /\ (unread = 1) = TRUE
    BY <1>3
  <2>2. Reloaded(FALSE) = panel
    BY DEF Reloaded
  <2>3. QED
    BY <1>1, <2>1, <2>2 DEF DiscardedPanel
<1>4. QED
  BY <1>2, <1>3
-----------------------------------------------------------------------------
(* Types.                                                                   *)

\* The database: a migration adds its tables, a file that is set aside leaves none, and
\* a profile is seeded or replaced by the one Apply makes of it.
LEMMA LiveNext == ASSUME IInv, Next PROVE live' \in Databases
<1>1. live \in Databases /\ panel \in Panels
  BY DEF IInv, Typed
<1>2. CASE Migrate
  <2>1. live.version \in 0..5 \/ live' = live
    BY <1>1, <1>2 DEF Migrate, Databases, Current
  <2>2. ASSUME live.version \in 0..5 PROVE Migrated(live) \in Databases
    <3>1. live.tables \cup Creates[live.version + 1] \subseteq TablesAt(Current)
      BY <1>1, <2>2, TablesGrow DEF Databases
    <3>2. live.version + 1 \in 0..(Current + 1)
      BY <2>2 DEF Current
    <3>3. QED
      BY <1>1, <3>1, <3>2 DEF Migrated, Databases
  <2>3. live' = live \/ live' = Migrated(live)
    BY <1>2 DEF Migrate
  <2>4. QED
    BY <1>1, <2>1, <2>2, <2>3
<1>3. CASE MoveAside
  BY <1>3, BlankOK DEF MoveAside
<1>4. CASE Seed
  BY <1>1, <1>4, SeedIsWhole DEF Seed, Databases
<1>5. CASE Apply
  <2> DEFINE draft == DraftOf(panel)
  <2>1. draft \in Drafts /\ live.profile \in Profiles /\ HistoryIsWhole(live.profile)
    BY <1>1, DraftOK DEF Databases, IInv, Stored
  <2>2. \/ live' = live
        \/ /\ Applicable(live.profile, live.profile.active, draft)
           /\ live' = [live EXCEPT !.profile = Applied(live.profile, draft)]
    BY <1>5 DEF Apply
  <2> HIDE DEF draft
  <2>3. Applicable(live.profile, live.profile.active, draft) =>
          Applied(live.profile, draft) \in Profiles
    BY <2>1, AppliedIsWhole
  <2>4. QED
    BY <1>1, <2>2, <2>3 DEF Databases
<1>6. CASE Store
  BY <1>1, <1>6 DEF Store, Databases
<1>7. CASE Erase
  BY <1>1, <1>7 DEF Erase, Databases
<1>8. CASE Damage
  <2>1. PICK d \in {"page", "header", "orphan"} : live' = [live EXCEPT !.damage = d]
    BY <1>8 DEF Damage
  <2>2. QED
    BY <1>1, <2>1 DEF Databases
<1>9. CASE ~(Migrate \/ MoveAside \/ Seed \/ Apply \/ Store \/ Erase \/ Damage)
  <2>1. live' = live
    BY <1>9 DEF Next, OpeningSteps, Launch, CheckVersion, BackUp, MigrationsDone, Verify,
       MakeQuarantine, TakeOwnership, Validate, OpeningFails, StartFails, TypeText, PickPreset,
       ResetDraft, PickVersion, CancelEdit, RequestLeave, KeepEditing, Discard, Submit,
       BeginDelete, RemoveCopy, CleanupStops, Crash, OtherProcess, Screen
  <2>2. QED
    BY <1>1, <2>1
<1>10. QED
  BY <1>2, <1>3, <1>4, <1>5, <1>6, <1>7, <1>8, <1>9

\* The copies: a backup or a quarantine is added, or one is removed.
LEMMA KeptNext == ASSUME IInv, Next PROVE kept' \subseteq Copies
<1>1. live.items \subseteq Items /\ kept \subseteq Copies
  BY DEF IInv, Typed, Databases
<1>2. CASE BackUp
  BY <1>1, <1>2 DEF BackUp, Copies
<1>3. CASE MoveAside
  BY <1>1, <1>3 DEF MoveAside, Copies
<1>4. CASE RemoveCopy
  BY <1>1, <1>4 DEF RemoveCopy
<1>5. CASE ~(BackUp \/ MoveAside \/ RemoveCopy)
  <2>1. kept' = kept
    BY <1>5 DEF Next, OpeningSteps, Launch, CheckVersion, Migrate, MigrationsDone, Verify,
       MakeQuarantine, TakeOwnership, Seed, Validate, OpeningFails, StartFails, TypeText, PickPreset,
       ResetDraft, PickVersion, Apply, CancelEdit, RequestLeave, KeepEditing, Discard, Submit,
       Store, BeginDelete, Erase, CleanupStops, Crash, Damage, OtherProcess, Screen
  <2>2. QED
    BY <1>1, <2>1
<1>6. QED
  BY <1>2, <1>3, <1>4, <1>5

\* The process and its lock: the lock is taken when a start begins and given back whenever
\* the storage is dropped.
LEMMA AppNext == ASSUME IInv, Next PROVE app' \in Apps /\ Locked'
<1>1. /\ app \in Apps /\ lock \in {"free", "app", "other"} /\ ((lock = "app") <=> (app.pc \in Holding))
  BY DEF IInv, Typed, Locked
<1>2. live.items \subseteq Items
  BY DEF IInv, Typed, Databases
<1>3. Off \in Apps /\ [Off EXCEPT !.pc = "session"] \in Apps /\ [Off EXCEPT !.pc = "seed"] \in Apps
  BY DEF Off, Apps, Holding
<1>4. ASSUME SessionOnly PROVE app' \in Apps /\ Locked'
  BY <1>1, <1>3, <1>4 DEF SessionOnly, Locked, Off, Holding, Opening
<1>5. ASSUME Exit PROVE app' \in Apps /\ Locked'
  BY <1>1, <1>3, <1>5 DEF Exit, Locked, Off, Holding, Opening
<1>6. ASSUME NEW pc \in Holding, app.pc \in Holding, Goto(pc), UNCHANGED lock
      PROVE  app' \in Apps /\ Locked'
  BY <1>1, <1>6 DEF Goto, Locked, Apps
<1>7. ASSUME UNCHANGED <<app, lock>> PROVE app' \in Apps /\ Locked'
  BY <1>1, <1>7 DEF Locked
<1>8. ASSUME app.pc \in Holding, Damaged PROVE app' \in Apps /\ Locked'
  <2>1. "aside" \in Holding
    BY DEF Holding, Opening
  <2>2. QED
    BY <1>4, <1>6, <1>8, <2>1 DEF Damaged
<1>9. CASE Launch
  BY <1>1, <1>4, <1>9 DEF Launch, Locked, Apps, Holding, Opening
<1>10. CASE CheckVersion
  <2>1. app.pc \in Holding /\ "backup" \in Holding /\ "migrate" \in Holding
    BY <1>10 DEF CheckVersion, Holding, Opening
  <2>2. QED
    BY <1>4, <1>6, <1>8, <1>10, <2>1 DEF CheckVersion
<1>11. CASE BackUp
  <2>1. app.pc \in Holding /\ "migrate" \in Holding
    BY <1>11 DEF BackUp, Holding, Opening
  <2>2. QED
    BY <1>4, <1>6, <1>11, <2>1 DEF BackUp
<1>12. CASE Migrate
  <2>1. app.pc \in Holding
    BY <1>12 DEF Migrate, Holding, Opening
  <2>2. SessionOnly \/ Damaged \/ UNCHANGED <<app, lock>>
    BY <1>12 DEF Migrate
  <2>3. QED
    BY <1>4, <1>7, <1>8, <2>1, <2>2
<1>13. CASE MigrationsDone \/ Verify \/ MakeQuarantine
  <2>1. app.pc \in Holding /\ "verify" \in Holding /\ "own" \in Holding /\ "move" \in Holding
    BY <1>13 DEF MigrationsDone, Verify, MakeQuarantine, Holding, Opening
  <2>2. CASE Verify
    <3>1. Damaged \/ SessionOnly \/ (Goto("own") /\ UNCHANGED lock)
      BY <2>2 DEF Verify
    <3>2. QED
      BY <1>4, <1>6, <1>8, <2>1, <3>1
  <2>3. QED
    BY <1>6, <1>13, <2>1, <2>2 DEF MigrationsDone, MakeQuarantine
<1>14. CASE MoveAside
  BY <1>1, <1>14 DEF MoveAside, Locked, Apps, Holding, Opening
<1>15. CASE TakeOwnership
  BY <1>1, <1>3, <1>15 DEF TakeOwnership, Locked, Off, Holding, Opening
<1>16. CASE Seed \/ Validate
  <2>1. app.pc \in Holding /\ "validate" \in Holding /\ "running" \in Holding
    BY <1>16 DEF Seed, Validate, Holding, Opening
  <2>2. QED
    BY <1>4, <1>6, <1>16, <2>1 DEF Seed, Validate
<1>17. CASE OpeningFails \/ StartFails
  BY <1>4, <1>17 DEF OpeningFails, StartFails
<1>18. CASE TypeText \/ PickPreset \/ ResetDraft \/ PickVersion \/ Apply \/ CancelEdit \/ KeepEditing
              \/ Submit \/ Store \/ RemoveCopy \/ Damage
  BY <1>7, <1>18
     DEF TypeText, PickPreset, ResetDraft, PickVersion, Apply, CancelEdit, KeepEditing,
     Submit, Store, RemoveCopy, Damage, Screen
<1>19. CASE RequestLeave \/ Discard \/ Crash
  <2>1. Exit \/ UNCHANGED <<app, lock>>
    BY <1>19 DEF RequestLeave, Discard, Crash, Close
  <2>2. QED
    BY <1>5, <1>7, <2>1
<1>20. CASE BeginDelete
  <2>1. PICK c \in live.items : app' = [app EXCEPT !.pc = "cleanup", !.target = {c}]
    BY <1>20 DEF BeginDelete
  <2>2. {c} \in SUBSET Items /\ "cleanup" \in Holding /\ app.pc \in Holding /\ lock' = lock
    BY <1>2, <1>20 DEF BeginDelete, Holding
  <2>3. QED
    BY <1>1, <2>1, <2>2 DEF Apps, Locked
<1>21. CASE CleanupStops \/ Erase
  <2>1. app.pc = "cleanup" /\ BackToPanel /\ UNCHANGED lock
    BY <1>21 DEF CleanupStops, Erase
  <2>2. QED
    BY <1>1, <2>1 DEF BackToPanel, Locked, Apps, Holding
<1>22. CASE OtherProcess
  BY <1>1, <1>22 DEF OtherProcess, Locked
<1>23. QED
  BY <1>9, <1>10, <1>11, <1>12, <1>13, <1>14, <1>15, <1>16, <1>17, <1>18, <1>19, <1>20, <1>21, <1>22
     DEF Next, OpeningSteps
\* The panel: what is typed, picked or reset, and what the stored profile fills it with.
LEMMA PanelNext == ASSUME IInv, Next PROVE panel' \in Panels
<1>1. panel \in Panels /\ live.profile \in Profiles
  BY DEF IInv, Typed, Databases
<1>2. /\ TypedSystem \subseteq AllTexts /\ TypedPersona \subseteq AllTexts
      /\ Presets \subseteq AllTexts /\ Personas \subseteq AllTexts /\ DefaultPersona \in Personas
  BY TypedAssumption, PromptAssumption DEF AllTexts, Factory
<1>3. /\ app.pc = "running" => Loads(live.profile)
      /\ \A i \in DOMAIN live.profile.contents["Persona"] :
           LET row == Content(live.profile, "Persona", i)
           IN  row.kind = "FactoryRef" => row.text \in Personas
  BY DEF IInv, Stored, InUse
<1>4. ASSUME Loads(live.profile) PROVE Filled(live.profile) \in Panels
  BY <1>1, <1>3, <1>4, FilledOK
<1>5. Reloaded(TRUE) \in Panels
  BY <1>1, <1>3, <1>4 DEF Reloaded, Panels
<1>6. CASE Validate
  <2>1. [FactoryPanel EXCEPT !.unread = TRUE] \in Panels
    BY FactoryOK DEF Panels
  <2>2. QED
    BY <1>1, <1>4, <1>6, <2>1 DEF Validate
<1>7. CASE TypeText \/ PickPreset \/ ResetDraft
  <2>1. CASE TypeText
    BY <1>1, <1>2, <2>1 DEF TypeText, Panels
  <2>2. CASE PickPreset
    BY <1>1, <1>2, <2>2 DEF PickPreset, Panels
  <2>3. CASE ResetDraft
    BY <1>1, <1>2, <2>3 DEF ResetDraft, Panels
  <2>4. QED
    BY <1>7, <2>1, <2>2, <2>3
<1>8. CASE PickVersion
  <2>1. CASE \E i \in DOMAIN live.profile.contents["System"] :
               panel' = [panel EXCEPT !.system = Content(live.profile, "System", i).text,
                                      !.dirty = TRUE]
    <3>1. PICK i \in DOMAIN live.profile.contents["System"] :
               panel' = [panel EXCEPT !.system = Content(live.profile, "System", i).text,
                                      !.dirty = TRUE]
      BY <2>1
    <3>2. live.profile.contents["System"] \in Seq(Contents)
      BY <1>1 DEF Profiles, Layers
    <3>3. Content(live.profile, "System", i).text \in AllTexts
      <4>1. live.profile.contents["System"][i] \in Contents
        BY <3>1, <3>2
      <4>2. QED
        BY <4>1 DEF Content, Contents
    <3>4. QED
      BY <1>1, <3>1, <3>3 DEF Panels
  <2>2. CASE \E i \in DOMAIN live.profile.contents["Persona"] :
               LET row == Content(live.profile, "Persona", i)
               IN  panel' = [panel EXCEPT
                               !.persona = row.text, !.dirty = TRUE,
                               !.chosen = IF row.kind = "FactoryRef" THEN row.text
                                                                     ELSE DefaultPersona]
    <3>1. PICK i \in DOMAIN live.profile.contents["Persona"] :
               LET row == Content(live.profile, "Persona", i)
               IN  panel' = [panel EXCEPT
                               !.persona = row.text, !.dirty = TRUE,
                               !.chosen = IF row.kind = "FactoryRef" THEN row.text
                                                                     ELSE DefaultPersona]
      BY <2>2
    <3> DEFINE row == Content(live.profile, "Persona", i)
               chosen == IF row.kind = "FactoryRef" THEN row.text ELSE DefaultPersona
    <3>2. live.profile.contents["Persona"] \in Seq(Contents)
      BY <1>1 DEF Profiles, Layers
    <3>3. row.text \in AllTexts /\ chosen \in Personas
      <4>1. live.profile.contents["Persona"][i] \in Contents
        BY <3>1, <3>2
      <4>2. QED
        BY <1>2, <1>3, <4>1 DEF Content, Contents
    <3>4. panel' = [panel EXCEPT !.persona = row.text, !.dirty = TRUE, !.chosen = chosen]
      BY <3>1
    <3> HIDE DEF row, chosen
    <3>5. QED
      BY <1>1, <3>3, <3>4 DEF Panels
  <2>3. QED
    BY <1>8, <2>1, <2>2 DEF PickVersion
<1>9. CASE Apply
  <2>1. \E c \in Personas : \/ panel' = [[panel EXCEPT !.chosen = c] EXCEPT !.dirty = FALSE, !.unread = FALSE]
                            \/ panel' = [panel EXCEPT !.chosen = c]
    <3>1. (IF panel.persona \in Personas THEN panel.persona ELSE panel.chosen) \in Personas
      BY <1>1 DEF Panels
    <3>2. QED
      BY <1>1, <1>9, <3>1 DEF Apply, Panels
  <2>2. QED
    BY <1>1, <2>1 DEF Panels
<1>10. CASE CancelEdit
  BY <1>1, <1>5, <1>10 DEF CancelEdit, Reloaded
<1>11. ASSUME Exit PROVE panel' \in Panels
  BY <1>11, FactoryOK DEF Exit
<1>12. CASE RequestLeave \/ KeepEditing \/ Crash
  BY <1>1, <1>11, <1>12 DEF RequestLeave, KeepEditing, Crash, Close, Panels
<1>13. CASE Discard
  <2>1. CASE panel' = [panel EXCEPT !.dirty = FALSE, !.pending = "none", !.unread = TRUE]
    BY <1>1, <2>1 DEF Panels
  <2>2. CASE panel' = [Reloaded(TRUE) EXCEPT !.dirty = FALSE, !.pending = "none", !.unread = FALSE]
    BY <1>5, <2>2 DEF Panels
  <2>3. QED
    BY <1>11, <1>13, <2>1, <2>2, DiscardCases DEF DiscardedPanel
<1>14. CASE ~(Validate \/ TypeText \/ PickPreset \/ ResetDraft \/ PickVersion \/ Apply \/ CancelEdit
              \/ RequestLeave \/ KeepEditing \/ Crash \/ Discard)
  <2>1. panel' = panel
    BY <1>14
       DEF Next, OpeningSteps, Launch, CheckVersion, BackUp, Migrate, MigrationsDone, Verify,
       MakeQuarantine, MoveAside, TakeOwnership, Seed, OpeningFails, StartFails, Submit,
       Store, BeginDelete, RemoveCopy, CleanupStops, Erase, Damage, OtherProcess
  <2>2. QED
    BY <1>1, <2>1
<1>15. QED
  BY <1>6, <1>7, <1>8, <1>9, <1>10, <1>12, <1>13, <1>14

\* The turn: the texts of the active revision, or the factory texts.
LEMMA TurnNext == ASSUME IInv, Next PROVE turn' \in Prompts
<1>1. turn \in Prompts /\ live.profile \in Profiles
  BY DEF IInv, Typed, Databases
<1>2. NoTurn \in Prompts /\ [NoTurn EXCEPT !.sent = TRUE] \in Prompts
  BY FactoryOK DEF Prompts
<1>3. CASE Submit
  <2>1. CASE app.pc = "session"
    BY <1>2, <1>3, <2>1 DEF Submit
  <2>2. CASE app.pc = "running"
    <3>1. Loads(live.profile)
      BY <2>2 DEF IInv, Stored, InUse
    <3> DEFINE texts == TextsOf(live.profile, live.profile.active)
               sent(r) == [sent |-> TRUE, revision |-> r, system |-> texts.system,
                           persona |-> texts.persona]
    <3>2. texts.system \in AllTexts /\ texts.persona \in AllTexts /\ live.profile.active \in Nat
      BY <1>1, <3>1, TextsAreTexts
    <3>3. turn' = sent(live.profile.active) \/ turn' = sent(0)
      BY <1>3, <2>2 DEF Submit
    <3>4. \A r \in Nat : sent(r) \in Prompts
      <4> HIDE DEF texts
      <4>1. QED
        BY <3>2 DEF Prompts
    <3> HIDE DEF texts, sent
    <3>5. QED
      BY <3>2, <3>3, <3>4
  <2>3. QED
    BY <1>3, <2>1, <2>2 DEF Submit, Shown
<1>4. CASE ~Submit
  <2>1. turn' = turn \/ turn' = NoTurn
    BY <1>4 DEF Next, OpeningSteps, Launch, CheckVersion, BackUp, Migrate, MigrationsDone, Verify,
       MakeQuarantine, MoveAside, TakeOwnership, Seed, Validate, OpeningFails, StartFails, TypeText,
       PickPreset, ResetDraft, PickVersion, Apply, CancelEdit, RequestLeave, KeepEditing, Discard,
       Store, BeginDelete, RemoveCopy, CleanupStops, Erase, Crash, Damage, OtherProcess
  <2>2. QED
    BY <1>1, <1>2, <2>1
<1>5. QED
  BY <1>3, <1>4

\* What is saved, gone and asked for, and the faults so far.
LEMMA CountedNext ==
  ASSUME IInv, Next
  PROVE  Counted' /\ saved \subseteq saved' /\ gone \subseteq gone' /\ (asked => asked')
<1>1. Counted
  BY DEF IInv
<1>2. faults' \in 0..MaxFaults
  <2>1. CASE Discard
    <3>1. PICK unread \in 0..1, open \in 0..1 :
            faults' = faults + unread + open /\ faults' <= MaxFaults
      BY <2>1 DEF Discard
    <3>2. QED
      BY <1>1, <3>1, BoundsAssumption DEF Counted
  <2>2. CASE ~Discard
    <3>1. faults' = faults \/ Fault
      BY <2>2 DEF Next, OpeningSteps, Launch, CheckVersion, BackUp, Migrate, MigrationsDone, Verify,
         MakeQuarantine, MoveAside, TakeOwnership, Seed, Validate, OpeningFails, StartFails, TypeText,
         PickPreset, ResetDraft, PickVersion, Apply, CancelEdit, RequestLeave, KeepEditing, Close,
         Exit, Submit, Store, BeginDelete, RemoveCopy, CleanupStops, Erase, Crash, Damage,
         OtherProcess, Screen
    <3>2. QED
      BY <1>1, <3>1, BoundsAssumption DEF Counted, Fault
  <2>3. QED
    BY <2>1, <2>2
<1>3. saved' \subseteq Items /\ saved \subseteq saved' /\ gone \subseteq gone' /\ gone' \subseteq saved'
  <2>1. CASE Store
    BY <1>1, <2>1 DEF Store, Counted
  <2>2. CASE Erase
    <3>1. app.target \subseteq saved
      BY <2>2 DEF IInv, Kept, Erase
    <3>2. QED
      BY <1>1, <2>2, <3>1 DEF Erase, Counted
  <2>3. CASE ~(Store \/ Erase)
    <3>1. saved' = saved /\ gone' = gone
      BY <2>3
         DEF Next, OpeningSteps, Launch, CheckVersion, BackUp, Migrate, MigrationsDone, Verify,
         MakeQuarantine, MoveAside, TakeOwnership, Seed, Validate, OpeningFails, StartFails, TypeText,
         PickPreset, ResetDraft, PickVersion, Apply, CancelEdit, RequestLeave, KeepEditing, Discard,
         Submit, BeginDelete, RemoveCopy, CleanupStops, Crash, Damage, OtherProcess, Screen, Ghosts
    <3>2. QED
      BY <1>1, <3>1 DEF Counted
  <2>4. QED
    BY <2>1, <2>2, <2>3
<1>4. asked' \in BOOLEAN /\ (asked => asked')
  <2>1. CASE BeginDelete
    BY <2>1 DEF BeginDelete
  <2>2. CASE ~BeginDelete
    <3>1. asked' = asked
      BY <2>2
         DEF Next, OpeningSteps, Launch, CheckVersion, BackUp, Migrate, MigrationsDone, Verify,
         MakeQuarantine, MoveAside, TakeOwnership, Seed, Validate, OpeningFails, StartFails, TypeText,
         PickPreset, ResetDraft, PickVersion, Apply, CancelEdit, RequestLeave, KeepEditing, Discard,
         Submit, Store, RemoveCopy, CleanupStops, Erase, Crash, Damage, OtherProcess, Screen, Ghosts
    <3>2. QED
      BY <1>1, <3>1 DEF Counted
  <2>3. QED
    BY <2>1, <2>2
<1>5. QED
  BY <1>2, <1>3, <1>4 DEF Counted
\* Where the process may go: a migration begins after the version was checked or the backup
\* was made, a deletion only when it is begun, and a new target is in the database.
LEMMA PcSteps ==
  ASSUME Next, app \in Apps
  PROVE  /\ app'.pc = "cleanup" => app.pc = "cleanup" \/ BeginDelete
         /\ app'.pc = "migrate" => app' = app \/ BackUp \/ CheckVersion
         /\ app'.target \subseteq app.target \cup live.items
         /\ app'.pc \in {"running", "cleanup"} =>
              app.pc \in {"running", "cleanup"} \/ (Validate /\ Loads(live.profile))
         /\ app'.pc = "session" => app' = app \/ app.pc = "off" \/ app.pc \in Holding \ {"running"}
<1> DEFINE Goal == /\ app'.pc = "cleanup" => app.pc = "cleanup" \/ BeginDelete
                   /\ app'.pc = "migrate" => app' = app \/ BackUp \/ CheckVersion
                   /\ app'.target \subseteq app.target \cup live.items
                   /\ app'.pc \in {"running", "cleanup"} =>
                        app.pc \in {"running", "cleanup"} \/ (Validate /\ Loads(live.profile))
                   /\ app'.pc = "session" => app' = app \/ app.pc = "off" \/ app.pc \in Holding \ {"running"}
<1>1. CASE app' = app
  BY <1>1
<1>2. ASSUME app' = Off PROVE Goal
  BY <1>2 DEF Off
<1>3. ASSUME SessionOnly, app.pc = "off" \/ app.pc \in Holding \ {"running"} PROVE Goal
  BY <1>3 DEF SessionOnly, Off
<1>4. ASSUME NEW pc, Goto(pc), pc \notin {"cleanup", "migrate", "running", "session"} PROVE Goal
  BY <1>4 DEF Goto, Apps
<1>5. CASE Launch
  BY <1>3, <1>5 DEF Launch, Apps
<1>6. CASE CheckVersion
  BY <1>3, <1>4, <1>6 DEF CheckVersion, Damaged, Goto, Apps, Holding, Opening
<1>7. CASE BackUp
  BY <1>3, <1>7 DEF BackUp, Goto, Apps, Holding, Opening
<1>8. CASE Migrate
  <2>1. SessionOnly \/ Goto("aside") \/ app' = app
    BY <1>8 DEF Migrate, Damaged
  <2>2. QED
    BY <1>1, <1>3, <1>4, <1>8, <2>1 DEF Migrate, Holding, Opening
<1>9. CASE MigrationsDone \/ Verify \/ MakeQuarantine
  <2>1. SessionOnly \/ Goto("aside") \/ Goto("verify") \/ Goto("own") \/ Goto("move")
    BY <1>9 DEF MigrationsDone, Verify, MakeQuarantine, Damaged
  <2>2. app.pc \in Holding \ {"running"}
    BY <1>9 DEF MigrationsDone, Verify, MakeQuarantine, Holding, Opening
  <2>3. QED
    BY <1>3, <1>4, <2>1, <2>2
<1>10. CASE MoveAside
  BY <1>10 DEF MoveAside, Apps
<1>11. CASE TakeOwnership
  BY <1>11 DEF TakeOwnership, Off
<1>12. CASE Seed
  BY <1>4, <1>12 DEF Seed
<1>13. CASE Validate
  BY <1>3, <1>13 DEF Validate, Goto, Apps, Holding
<1>14. CASE OpeningFails \/ StartFails
  BY <1>3, <1>14 DEF OpeningFails, StartFails, Holding, Opening
<1>15. CASE RequestLeave \/ Discard \/ Crash
  BY <1>1, <1>2, <1>15 DEF RequestLeave, Discard, Crash, Close, Exit
<1>16. CASE BeginDelete
  <2>1. PICK c \in live.items : app' = [app EXCEPT !.pc = "cleanup", !.target = {c}]
    BY <1>16 DEF BeginDelete
  <2>2. {c} \subseteq live.items
    OBVIOUS
  <2>3. app'.pc = "cleanup" /\ app'.target = {c} /\ app.pc = "running"
    BY <1>16, <2>1 DEF BeginDelete, Apps
  <2>4. QED
    BY <1>16, <2>2, <2>3
<1>17. CASE CleanupStops \/ Erase
  BY <1>17 DEF CleanupStops, Erase, BackToPanel, Apps
<1>18. CASE TypeText \/ PickPreset \/ ResetDraft \/ PickVersion \/ Apply \/ CancelEdit \/ KeepEditing
              \/ Submit \/ Store \/ RemoveCopy \/ Damage \/ OtherProcess
  <2>1. app' = app
    BY <1>18 DEF TypeText, PickPreset, ResetDraft, PickVersion, Apply, CancelEdit, KeepEditing,
       Submit, Store, RemoveCopy, Damage, OtherProcess, Screen
  <2>2. QED
    BY <1>1, <2>1
<1>19. QED
  BY <1>5, <1>6, <1>7, <1>8, <1>9, <1>10, <1>11, <1>12, <1>13, <1>14, <1>15, <1>16, <1>17, <1>18
     DEF Next, OpeningSteps

-----------------------------------------------------------------------------
(* The data.                                                                *)

\* Rows and tables do not change outside these steps.
LEMMA RowsKept ==
  ASSUME Next, ~(Migrate \/ MoveAside \/ Store \/ Erase), live \in Databases
  PROVE  live'.items = live.items /\ live'.tables = live.tables /\ live'.version = live.version
<1>1. CASE Seed
  BY <1>1 DEF Seed, Databases
<1>2. CASE Apply
  BY <1>2 DEF Apply, Databases
<1>3. CASE Damage
  BY <1>3 DEF Damage, Databases
<1>4. CASE ~(Seed \/ Apply \/ Damage)
  <2>1. live' = live
    BY <1>4 DEF Next, OpeningSteps, Launch, CheckVersion, BackUp, MigrationsDone, Verify,
       MakeQuarantine, TakeOwnership, Validate, OpeningFails, StartFails, TypeText, PickPreset,
       ResetDraft, PickVersion, CancelEdit, RequestLeave, KeepEditing, Discard, Submit,
       BeginDelete, RemoveCopy, CleanupStops, Crash, OtherProcess, Screen
  <2>2. QED
    BY <2>1
<1>5. QED
  BY <1>1, <1>2, <1>3, <1>4

\* The copies do not change outside these steps.
LEMMA CopiesKept ==
  ASSUME Next, ~(BackUp \/ MoveAside \/ RemoveCopy)
  PROVE  kept' = kept
BY DEF Next, OpeningSteps, Launch, CheckVersion, Migrate, MigrationsDone, Verify,
   MakeQuarantine, TakeOwnership, Seed, Validate, OpeningFails, StartFails, TypeText, PickPreset,
   ResetDraft, PickVersion, Apply, CancelEdit, RequestLeave, KeepEditing, Discard, Submit,
   Store, BeginDelete, Erase, CleanupStops, Crash, Damage, OtherProcess, Screen

\* A storage is used by one process: while this one opens the database no other writes.
LEMMA StoreInUse ==
  ASSUME IInv, Store
  PROVE  app.pc = "running" \/ app.pc \notin Holding
BY DEF IInv, Locked, Store

\* The tables are those of the version, and a deletion was asked for before it is done.
LEMMA TablesNext ==
  ASSUME IInv, Next
  PROVE  /\ (live.version = 0 => live.tables \subseteq Version1)'
         /\ (live.version \in 1..Current => live.tables = TablesAt(live.version))'
         /\ (app.pc = "cleanup" => asked)'
<1> DEFINE Agree(db) == /\ db.version = 0 => db.tables \subseteq Version1
                        /\ db.version \in 1..Current => db.tables = TablesAt(db.version)
<1>1. live \in Databases /\ Agree(live) /\ (app.pc = "cleanup" => asked)
  BY DEF IInv, Typed, Kept, DataIsKept, MigratesSafely
<1>2. Agree(live')
  <2>1. CASE Migrate
    <3>1. live' = live \/ (live' = Migrated(live) /\ live.version < Current)
      BY <2>1 DEF Migrate
    <3>2. ASSUME live.version < Current PROVE Agree(Migrated(live))
      <4>1. live.version \in 0..5
        BY <1>1, <3>2 DEF Databases, Current
      <4> DEFINE v == live.version
                 q == Migrated(live)
      <4>2. q.version = v + 1 /\ q.tables = live.tables \cup Creates[v + 1]
        BY <1>1 DEF Migrated, Databases
      <4> HIDE DEF q
      <4>3. v + 1 # 0 /\ v + 1 \in 1..Current
        BY <4>1 DEF Current
      <4>4. ASSUME v = 0 PROVE Agree(q)
        <5>1. Creates[1] = Version1
          BY DEF Creates
        <5>2. q.tables = TablesAt(1)
          BY <1>1, <4>2, <4>4, <5>1, FirstTables
        <5>3. QED
          BY <4>2, <4>3, <4>4, <5>2
      <4>5. ASSUME v # 0 PROVE Agree(q)
        <5>1. v \in 1..Current
          BY <4>1, <4>5 DEF Current
        <5>2. q.tables = TablesAt(v + 1)
          BY <1>1, <4>1, <4>2, <5>1, TablesGrow
        <5>3. QED
          BY <4>2, <4>3, <5>2
      <4>6. QED
        BY <4>4, <4>5 DEF q
    <3>3. QED
      BY <1>1, <3>1, <3>2
  <2>2. CASE MoveAside
    BY <2>2 DEF MoveAside, Blank
  <2>3. CASE Store \/ Erase
    <3>1. live'.tables = live.tables /\ live'.version = live.version
      BY <1>1, <2>3 DEF Store, Erase, Databases
    <3>2. QED
      BY <1>1, <3>1
  <2>4. CASE ~(Migrate \/ MoveAside \/ Store \/ Erase)
    <3>1. live'.tables = live.tables /\ live'.version = live.version
      BY <1>1, <2>4, RowsKept
    <3>2. QED
      BY <1>1, <3>1
  <2>5. QED
    BY <2>1, <2>2, <2>3, <2>4
<1>3. (app.pc = "cleanup" => asked)'
  <2>1. CASE BeginDelete
    BY <2>1 DEF BeginDelete
  <2>2. CASE ~BeginDelete
    <3>1. app'.pc = "cleanup" => app.pc = "cleanup"
      <4>1. app \in Apps
        BY DEF IInv, Typed
      <4>2. QED
        BY <2>2, <4>1, PcSteps
    <3>2. QED
      BY <1>1, <3>1, CountedNext
  <2>3. QED
    BY <2>1, <2>2
<1>4. QED
  BY <1>2, <1>3

\* What was stored, what is in the database and what was deleted.
LEMMA ItemsNext ==
  ASSUME IInv, Next
  PROVE  /\ live'.items \cup app'.target \subseteq saved'
         /\ NothingIsLost' /\ DeletedIsGone'
<1> DEFINE copies == UNION {k.items : k \in kept}
<1>1. /\ live \in Databases /\ app \in Apps /\ kept \subseteq Copies
      /\ live.items \cup app.target \subseteq saved /\ (app.pc = "cleanup" => asked)
      /\ NothingIsLost /\ DeletedIsGone /\ Counted
  BY DEF IInv, Typed, Kept, DataIsKept
<1>2. /\ ~asked => saved \subseteq live.items \cup copies
      /\ gone \cap (live.items \cup copies) = {}
  BY <1>1 DEF NothingIsLost, DeletedIsGone
<1>3. saved \subseteq saved' /\ gone \subseteq gone' /\ (asked => asked')
  BY CountedNext
<1>4. ASSUME UNCHANGED <<saved, gone, asked>>,
             live'.items \subseteq live.items, copies' \subseteq live.items \cup copies,
             asked \/ (live.items \cup copies \subseteq live'.items \cup copies'),
             app'.target \subseteq app.target \cup live.items
      PROVE  /\ live'.items \cup app'.target \subseteq saved'
             /\ NothingIsLost' /\ DeletedIsGone'
  <2>1. live'.items \cup app'.target \subseteq saved'
    BY <1>1, <1>4
  <2>2. NothingIsLost'
    BY <1>2, <1>4 DEF NothingIsLost
  <2>3. DeletedIsGone'
    BY <1>2, <1>4 DEF DeletedIsGone
  <2>4. QED
    BY <2>1, <2>2, <2>3
<1>5. app'.target \subseteq app.target \cup live.items
  BY <1>1, PcSteps
<1>6. CASE BackUp
  <2>1. UNCHANGED <<live, saved, gone, asked>>
    BY <1>6 DEF BackUp, Ghosts
  <2>2. kept' = kept \/ kept' = kept \cup {[kind |-> "backup", items |-> live.items]}
    BY <1>6 DEF BackUp
  <2>3. copies \subseteq copies' /\ copies' \subseteq live.items \cup copies
    BY <2>2
  <2>4. QED
    BY <1>4, <1>5, <2>1, <2>3
<1>7. CASE MoveAside
  <2>1. UNCHANGED <<saved, gone, asked>> /\ live'.items = {}
    BY <1>7 DEF MoveAside, Ghosts, Blank
  <2>2. kept' = kept \cup {[kind |-> "quarantine", items |-> live.items]}
    BY <1>7 DEF MoveAside
  <2>3. copies' = live.items \cup copies
    <3> DEFINE copy == [kind |-> "quarantine", items |-> live.items]
    <3>1. kept' = kept \cup {copy} /\ copy.items = live.items
      BY <2>2
    <3> HIDE DEF copy
    <3>2. QED
      BY <3>1
  <2>4. QED
    BY <1>4, <1>5, <2>1, <2>3
<1>8. CASE RemoveCopy
  <2>1. UNCHANGED <<live, saved, gone, asked>> /\ asked
    BY <1>1, <1>8 DEF RemoveCopy, Ghosts
  <2>2. kept' \subseteq kept
    BY <1>8 DEF RemoveCopy
  <2>3. copies' \subseteq copies
    BY <2>2
  <2>4. QED
    BY <1>4, <1>5, <2>1, <2>3
<1>9. CASE Store
  <2>1. PICK c \in Items \ saved : /\ live'.items = live.items \cup {c}
                                   /\ saved' = saved \cup {c}
    BY <1>1, <1>9 DEF Store, Databases
  <2>2. kept' = kept /\ app' = app /\ gone' = gone /\ asked' = asked
    BY <1>9 DEF Store
  <2>3. c \notin gone
    BY <1>1, <2>1 DEF Counted
  <2>4. live'.items \cup app'.target \subseteq saved'
    BY <1>1, <2>1, <2>2
  <2>5. NothingIsLost'
    BY <1>2, <2>1, <2>2 DEF NothingIsLost
  <2>6. DeletedIsGone'
    BY <1>2, <2>1, <2>2, <2>3 DEF DeletedIsGone
  <2>7. QED
    BY <2>4, <2>5, <2>6
<1>10. CASE Erase
  <2>1. /\ live'.items = live.items \ app.target /\ gone' = gone \cup app.target
        /\ kept = {} /\ kept' = {} /\ saved' = saved /\ asked' /\ app'.target = {}
    BY <1>1, <1>10 DEF Erase, BackToPanel, Databases, Apps
  <2>2. live'.items \cup app'.target \subseteq saved'
    BY <1>1, <2>1
  <2>3. NothingIsLost'
    BY <2>1 DEF NothingIsLost
  <2>4. DeletedIsGone'
    BY <1>2, <2>1 DEF DeletedIsGone
  <2>5. QED
    BY <2>2, <2>3, <2>4
<1>11. CASE ~(BackUp \/ MoveAside \/ RemoveCopy \/ Store \/ Erase)
  <2>1. live'.items = live.items
    <3>1. CASE Migrate
      BY <1>1, <3>1 DEF Migrate, Migrated, Databases
    <3>2. QED
      BY <1>1, <1>11, <3>1, RowsKept
  <2>2. kept' = kept
    BY <1>11, CopiesKept
  <2>3. UNCHANGED <<saved, gone>>
    BY <1>11 DEF Next, OpeningSteps, Launch, CheckVersion, Migrate, MigrationsDone, Verify,
       MakeQuarantine, TakeOwnership, Seed, Validate, OpeningFails, StartFails, TypeText, PickPreset,
       ResetDraft, PickVersion, Apply, CancelEdit, RequestLeave, KeepEditing, Discard, Submit,
       BeginDelete, CleanupStops, Crash, Damage, OtherProcess, Screen, Ghosts
  <2>4. live'.items \cup app'.target \subseteq saved'
    BY <1>1, <1>5, <2>1, <2>3
  <2>5. NothingIsLost'
    BY <1>2, <1>3, <2>1, <2>2, <2>3 DEF NothingIsLost
  <2>6. DeletedIsGone'
    BY <1>2, <2>1, <2>2, <2>3 DEF DeletedIsGone
  <2>7. QED
    BY <2>4, <2>5, <2>6
<1>12. QED
  BY <1>6, <1>7, <1>8, <1>9, <1>10, <1>11

\* The migrations of a file that was there begin after its backup.
LEMMA BackedUpNext ==
  ASSUME IInv, Next
  PROVE  (app.pc = "migrate" /\ app.existed /\ live.version < Current =>
            \E k \in kept : k.kind = "backup" /\ live.items \subseteq k.items)'
<1>1. /\ live \in Databases /\ app \in Apps
      /\ app.pc = "migrate" /\ app.existed /\ live.version < Current =>
            \E k \in kept : k.kind = "backup" /\ live.items \subseteq k.items
  BY DEF IInv, Typed, Kept, DataIsKept, MigratesSafely
<1>2. CASE app.pc = "migrate" /\ app'.pc = "migrate"
  <2>1. app' = app
    <3>1. ~BackUp /\ ~CheckVersion
      BY <1>2 DEF BackUp, CheckVersion
    <3>2. QED
      BY <1>1, <1>2, <3>1, PcSteps
  <2>2. live'.items = live.items /\ (live'.version < Current => live.version < Current)
    <3>1. CASE Migrate
      BY <1>1, <3>1 DEF Migrate, Migrated, Databases, Current
    <3>2. CASE ~Migrate
      <4>1. ~(MoveAside \/ Store \/ Erase)
        BY <1>2, StoreInUse DEF MoveAside, Erase, Holding, Opening
      <4>2. QED
        BY <1>1, <3>2, <4>1, RowsKept
    <3>3. QED
      BY <3>1, <3>2
  <2>3. kept' = kept
    <3>1. ~(BackUp \/ MoveAside \/ RemoveCopy)
      BY <1>2 DEF BackUp, MoveAside, RemoveCopy
    <3>2. QED
      BY <3>1, CopiesKept
  <2>4. QED
    BY <1>1, <1>2, <2>1, <2>2, <2>3
<1>3. CASE app.pc # "migrate" /\ app'.pc = "migrate"
  <2>1. CASE BackUp
    <3> DEFINE copy == [kind |-> "backup", items |-> live.items]
    <3>1. live' = live /\ copy \in kept'
      BY <1>3, <2>1 DEF BackUp, SessionOnly, Off
    <3>2. copy.kind = "backup" /\ live.items \subseteq copy.items
      OBVIOUS
    <3> HIDE DEF copy
    <3>3. QED
      BY <3>1, <3>2
  <2>2. CASE CheckVersion
    <3>1. live' = live /\ ~(app'.existed /\ live.version < Current)
      BY <1>1, <1>3, <2>2 DEF CheckVersion, Damaged, SessionOnly, Off, Goto, Apps
    <3>2. QED
      BY <3>1
  <2>3. QED
    BY <1>1, <1>3, <2>1, <2>2, PcSteps
<1>4. QED
  BY <1>2, <1>3

\* The data is kept by every step.
LEMMA KeptNow == ASSUME IInv, Next PROVE Kept'
BY TablesNext, ItemsNext, BackedUpNext DEF Kept, DataIsKept, MigratesSafely
-----------------------------------------------------------------------------
(* The prompts.                                                             *)

\* A whole history that is not empty loads.
LEMMA WholeLoads ==
  ASSUME NEW p \in Profiles, HistoryIsWhole(p), NEW r \in DOMAIN p.revisions
  PROVE  Loads(p)
<1>1. p.revisions \in Seq(Revisions) /\ p.active = Len(p.revisions)
  BY DEF Profiles, HistoryIsWhole, RevisionsChain
<1>2. p.active \in DOMAIN p.revisions
  BY <1>1
<1>3. QED
  BY <1>2 DEF Loads, HistoryIsWhole, RevisionsResolve

\* The seeded profile has the factory texts.
LEMMA SeedTextsActive ==
  /\ Loads(SeedProfile) /\ TextsOf(SeedProfile, SeedProfile.active) = SeedTexts
  /\ \A i \in DOMAIN SeedProfile.contents["Persona"] :
       Content(SeedProfile, "Persona", i).text = DefaultPersona
<1> DEFINE row(text) == [version |-> 1, kind |-> "FactoryRef", text |-> text,
                         parent |-> 0, from |-> 0]
           p == SeedProfile
<1>1. /\ p.active = 1 /\ p.revisions = <<[system |-> 1, persona |-> 1, previous |-> 0]>>
      /\ p.contents["System"] = <<row(DefaultPreset)>>
      /\ p.contents["Persona"] = <<row(DefaultPersona)>>
  BY DEF SeedProfile, Layers
<1>2. row(DefaultPreset).text = DefaultPreset /\ row(DefaultPersona).text = DefaultPersona
  OBVIOUS
<1> HIDE DEF row, p
<1>3. /\ p.revisions[p.active].system = 1 /\ p.revisions[p.active].persona = 1
      /\ p.active \in DOMAIN p.revisions
      /\ p.contents["System"][1] = row(DefaultPreset) /\ 1 \in DOMAIN p.contents["System"]
      /\ p.contents["Persona"][1] = row(DefaultPersona)
      /\ DOMAIN p.contents["Persona"] = {1}
  BY <1>1
<1>4. /\ Loads(p) /\ TextsOf(p, p.active) = SeedTexts
      /\ \A i \in DOMAIN p.contents["Persona"] : Content(p, "Persona", i).text = DefaultPersona
  BY <1>2, <1>3 DEF Loads, TextsOf, Content, SeedTexts
<1>5. QED
  BY <1>4 DEF p

\* The profile changes only when it is set aside with its file, seeded or applied to.
LEMMA ProfileKept ==
  ASSUME Next, ~(MoveAside \/ Seed \/ Apply), live \in Databases
  PROVE  live'.profile = live.profile /\ applied' = applied
<1>1. CASE Migrate
  BY <1>1 DEF Migrate, Migrated, Databases, Ghosts
<1>2. CASE Store \/ Erase
  BY <1>2 DEF Store, Erase, Databases
<1>3. CASE Damage
  BY <1>3 DEF Damage, Databases, Ghosts
<1>4. CASE ~(Migrate \/ Store \/ Erase \/ Damage)
  BY <1>4 DEF Next, OpeningSteps, Launch, CheckVersion, BackUp, MigrationsDone, Verify,
     MakeQuarantine, TakeOwnership, Validate, OpeningFails, StartFails, TypeText, PickPreset,
     ResetDraft, PickVersion, CancelEdit, RequestLeave, KeepEditing, Discard, Submit,
     BeginDelete, RemoveCopy, CleanupStops, Crash, OtherProcess, Screen, Ghosts
<1>5. QED
  BY <1>1, <1>2, <1>3, <1>4

\* What a committed Apply leaves: a whole history whose active texts are those shown.
LEMMA ApplyCommits ==
  ASSUME NEW p \in Profiles, HistoryIsWhole(p), NEW pn \in Panels,
         Applicable(p, p.active, DraftOf(pn)),
         \A i \in DOMAIN p.contents["Persona"] :
           Content(p, "Persona", i).kind = "FactoryRef" => Content(p, "Persona", i).text \in Personas
  PROVE  LET q == Applied(p, DraftOf(pn))
         IN /\ q \in Profiles /\ HistoryIsWhole(q) /\ Loads(q) /\ q.preset = pn.preset
            /\ TextsOf(q, q.active) = [system |-> pn.system, persona |-> pn.persona]
            /\ \A i \in DOMAIN q.contents["Persona"] :
                 Content(q, "Persona", i).kind = "FactoryRef" =>
                   Content(q, "Persona", i).text \in Personas
<1> DEFINE draft == DraftOf(pn)
           q == Applied(p, draft)
<1>1. /\ draft \in Drafts /\ draft.preset = pn.preset
      /\ draft.system.kind \in {"UserText", "ResetToFactory"}
      /\ draft.persona.kind \in {"UserText", "ResetToFactory"}
      /\ draft.system.text = pn.system /\ draft.persona.text = pn.persona
      /\ draft.persona.kind = "ResetToFactory" => pn.persona \in Personas
  BY DraftOK
<1>2. Applicable(p, p.active, draft)
  OBVIOUS
<1> HIDE DEF draft
<1>3. q \in Profiles /\ HistoryIsWhole(q)
  BY <1>1, <1>2, AppliedIsWhole
<1>4. p.active \in DOMAIN p.revisions
  BY <1>2 DEF Applicable, Loads
<1>5. p.active \in DOMAIN q.revisions
  BY <1>1, <1>2, <1>4, AppliedKeepsEarlier
<1>6. /\ q.preset = draft.preset
      /\ TextsOf(q, q.active) = [system |-> draft.system.text, persona |-> draft.persona.text]
      /\ \A i \in DOMAIN q.contents["Persona"] :
           \/ /\ i \in DOMAIN p.contents["Persona"]
              /\ q.contents["Persona"][i] = p.contents["Persona"][i]
           \/ /\ q.contents["Persona"][i].text = draft.persona.text
              /\ q.contents["Persona"][i].kind = "FactoryRef" =>
                   draft.persona.kind = "ResetToFactory"
  BY <1>1, <1>2, AppliedSaysTheDraft
<1> HIDE DEF q
<1>7. Loads(q)
  BY <1>3, <1>5, WholeLoads
<1>8. \A i \in DOMAIN q.contents["Persona"] :
        Content(q, "Persona", i).kind = "FactoryRef" => Content(q, "Persona", i).text \in Personas
  BY <1>1, <1>6 DEF Content
<1>9. QED
  BY <1>1, <1>3, <1>6, <1>7, <1>8 DEF q, draft

\* What the stored profile has to be for the panel and the turns.
Sound(p) ==
  /\ HistoryIsWhole(p)
  /\ \A i \in DOMAIN p.contents["Persona"] :
       Content(p, "Persona", i).kind = "FactoryRef" => Content(p, "Persona", i).text \in Personas

\* The stored profile stays sound, and what was applied last is active.
LEMMA StoredNext == ASSUME IInv, Next PROVE Stored'
<1>1. /\ live \in Databases /\ live.profile \in Profiles /\ app \in Apps /\ panel \in Panels
      /\ Sound(live.profile) /\ (InUse => Loads(live.profile)) /\ AppliedIsActive
  BY DEF IInv, Typed, Stored, Sound, Databases
<1>2. ASSUME Sound(live.profile)', InUse' => Loads(live'.profile), AppliedIsActive' PROVE Stored'
  BY <1>2 DEF Stored, Sound
<1>3. CASE MoveAside
  <2>1. live'.profile = NoProfile
    BY <1>3 DEF MoveAside, Blank
  <2>2. ~InUse'
    BY <1>1, <1>3 DEF MoveAside, InUse, Apps
  <2>3. Sound(live.profile)'
    BY <2>1, NoProfileIsWhole DEF Sound, Layers
  <2>4. AppliedIsActive'
    BY <2>1 DEF AppliedIsActive
  <2>5. QED
    BY <1>2, <2>2, <2>3, <2>4
<1>4. CASE Seed
  <2>1. ~InUse'
    BY <1>1, <1>4 DEF Seed, Goto, InUse, Apps
  <2>2. \/ live' = live /\ applied' = applied
        \/ live'.profile = SeedProfile /\ applied' = SeedTexts
    BY <1>1, <1>4 DEF Seed, Databases
  <2>3. Sound(SeedProfile)
    BY SeedIsWhole, SeedTextsActive, PromptAssumption DEF Sound
  <2>4. Sound(live.profile)' /\ AppliedIsActive'
    BY <1>1, <2>2, <2>3, SeedTextsActive DEF Sound, AppliedIsActive
  <2>5. QED
    BY <1>2, <2>1, <2>4
<1>5. CASE Apply
  <2> DEFINE q == Applied(live.profile, DraftOf(panel))
  <2>1. \/ UNCHANGED <<live, applied>>
        \/ /\ Applicable(live.profile, live.profile.active, DraftOf(panel))
           /\ live'.profile = q
           /\ applied' = [system |-> panel.system, persona |-> panel.persona]
    BY <1>1, <1>5 DEF Apply, Databases
  <2>2. app' = app
    BY <1>5 DEF Apply
  <2>3. CASE UNCHANGED <<live, applied>>
    BY <1>1, <1>2, <2>2, <2>3 DEF Sound, InUse, AppliedIsActive
  <2>4. CASE /\ Applicable(live.profile, live.profile.active, DraftOf(panel))
             /\ live'.profile = q
             /\ applied' = [system |-> panel.system, persona |-> panel.persona]
    <3>1. /\ HistoryIsWhole(q) /\ Loads(q)
          /\ TextsOf(q, q.active) = [system |-> panel.system, persona |-> panel.persona]
          /\ \A i \in DOMAIN q.contents["Persona"] :
               Content(q, "Persona", i).kind = "FactoryRef" =>
                 Content(q, "Persona", i).text \in Personas
      BY <1>1, <2>4, ApplyCommits DEF Sound
    <3> HIDE DEF q
    <3>2. Sound(live.profile)' /\ AppliedIsActive' /\ Loads(live'.profile)
      BY <2>4, <3>1 DEF Sound, AppliedIsActive
    <3>3. QED
      BY <1>2, <3>2
  <2>5. QED
    BY <2>1, <2>3, <2>4
<1>6. CASE ~(MoveAside \/ Seed \/ Apply)
  <2>1. live'.profile = live.profile /\ applied' = applied
    BY <1>1, <1>6, ProfileKept
  <2>2. InUse' => Loads(live.profile)
    BY <1>1, PcSteps DEF InUse
  <2>3. QED
    BY <1>1, <1>2, <2>1, <2>2 DEF Sound, AppliedIsActive
<1>7. QED
  BY <1>3, <1>4, <1>5, <1>6

\* A clean panel shows the texts and the preset of this profile.
Shows(pn, p) ==
  /\ pn.system = TextsOf(p, p.active).system
  /\ pn.persona = TextsOf(p, p.active).persona
  /\ pn.preset = p.preset

\* A panel that is clean after a step shows what is active after it.
LEMMA CleanNext ==
  ASSUME IInv, Next, InUse', ~panel'.dirty, ~panel'.unread
  PROVE  Shows(panel, live.profile)'
<1>1. /\ live \in Databases /\ live.profile \in Profiles /\ app \in Apps /\ panel \in Panels
      /\ Sound(live.profile) /\ (InUse => Loads(live.profile))
  BY DEF IInv, Typed, Stored, Sound, Databases
<1>2. InUse /\ ~panel.dirty /\ ~panel.unread => Shows(panel, live.profile)
  BY DEF IInv, Seen, Shows
<1>3. ASSUME Loads(live.profile)
      PROVE  /\ Shows(Filled(live.profile), live.profile)
             /\ Filled(live.profile) \in Panels
  BY <1>1, <1>3, FilledOK DEF Sound, Shows
<1>4. InUse \/ (Validate /\ Loads(live.profile))
  BY <1>1, PcSteps DEF InUse
<1>5. Loads(live.profile)
  BY <1>1, <1>4
<1>6. ASSUME live'.profile = live.profile, Shows(panel', live.profile)
      PROVE  Shows(panel, live.profile)'
  BY <1>6 DEF Shows
<1>7. CASE Validate
  <2>1. live' = live /\ (panel' = Filled(live.profile) \/ panel' = [FactoryPanel EXCEPT !.unread = TRUE])
    BY <1>5, <1>7 DEF Validate
  <2>2. [FactoryPanel EXCEPT !.unread = TRUE].unread
    BY DEF FactoryPanel
  <2>3. QED
    BY <1>3, <1>5, <1>6, <2>1, <2>2
<1>8. CASE Apply
  <2> DEFINE q == Applied(live.profile, DraftOf(panel))
  <2>1. panel.dirty = TRUE
    BY <1>1, <1>8 DEF Apply, Panels
  <2>2. /\ Applicable(live.profile, live.profile.active, DraftOf(panel))
        /\ live'.profile = q
        /\ panel'.system = panel.system /\ panel'.persona = panel.persona
        /\ panel'.preset = panel.preset
    BY <1>1, <1>8, <2>1 DEF Apply, Databases, Panels
  <2>3. /\ q.preset = panel.preset
        /\ TextsOf(q, q.active) = [system |-> panel.system, persona |-> panel.persona]
    BY <1>1, <2>2, ApplyCommits DEF Sound
  <2> HIDE DEF q
  <2>4. QED
    BY <2>2, <2>3 DEF Shows
<1>9. CASE ~(Validate \/ Apply)
  <2>1. ~(MoveAside \/ Seed)
    BY <1>4, <1>9 DEF MoveAside, Seed, InUse
  <2>2. live'.profile = live.profile
    BY <1>1, <1>9, <2>1, ProfileKept
  <2>3. InUse
    BY <1>4, <1>9
  <2>4. ASSUME panel'.system = panel.system, panel'.persona = panel.persona,
               panel'.preset = panel.preset, ~panel.dirty, ~panel.unread
        PROVE  Shows(panel', live.profile)
    BY <1>2, <2>3, <2>4 DEF Shows
  <2>5. CASE TypeText \/ PickPreset \/ ResetDraft \/ PickVersion
    BY <1>1, <2>5 DEF TypeText, PickPreset, ResetDraft, PickVersion, Panels
  <2>6. CASE CancelEdit
    <3>1. panel.dirty = TRUE /\ app.pc = "running"
      BY <1>1, <2>3, <2>6 DEF CancelEdit, Panels, Shown, InUse
    <3>2. panel' = [Filled(live.profile) EXCEPT !.pending = panel.pending]
      BY <2>6, <3>1 DEF CancelEdit, Reloaded
    <3>3. Shows(panel', live.profile)
      BY <1>3, <1>5, <3>2 DEF Shows, Panels
    <3>4. QED
      BY <1>6, <2>2, <3>3
  <2>7. CASE Discard
    <3>1. app.pc = "running"
      BY <2>3, <2>7 DEF Discard, Shown, InUse
    <3>2. ~Exit
      BY DEF Exit, Off, InUse
    <3>3. DiscardedPanel
      BY <2>7, <3>2, DiscardCases
    <3>4. Reloaded(TRUE) = [Filled(live.profile) EXCEPT !.pending = panel.pending]
      BY <3>1 DEF Reloaded
    <3>5. CASE panel' = [panel EXCEPT !.dirty = FALSE, !.pending = "none", !.unread = TRUE]
      <4>1. panel'.unread = TRUE
        BY <1>1, <3>5 DEF Panels
      <4>2. QED
        BY <1>6, <2>2, <4>1
    <3>6. CASE panel' = [Reloaded(TRUE) EXCEPT !.dirty = FALSE, !.pending = "none", !.unread = FALSE]
      <4>1. Shows(panel', live.profile)
        BY <1>3, <1>5, <3>4, <3>6 DEF Shows, Panels
      <4>2. QED
        BY <1>6, <2>2, <4>1
    <3>7. QED
      BY <3>3, <3>5, <3>6 DEF DiscardedPanel
  <2>8. CASE RequestLeave \/ KeepEditing
    <3>1. ~Exit
      BY DEF Exit, Off, InUse
    <3>2. panel' = panel \/ \E a : panel' = [panel EXCEPT !.pending = a]
      BY <2>8, <3>1 DEF RequestLeave, KeepEditing, Close
    <3>3. QED
      BY <1>1, <1>6, <2>2, <2>4, <3>2 DEF Panels
  <2>9. CASE Crash
    BY <2>9 DEF Crash, Exit, Off, InUse
  <2>10. CASE ~(TypeText \/ PickPreset \/ ResetDraft \/ PickVersion \/ CancelEdit \/ Discard
                \/ RequestLeave \/ KeepEditing \/ Crash)
    <3>1. panel' = panel
      BY <1>9, <2>10
         DEF Next, OpeningSteps, Launch, CheckVersion, BackUp, Migrate, MigrationsDone,
         Verify, MakeQuarantine, MoveAside, TakeOwnership, Seed, OpeningFails, StartFails, Submit,
         Store, BeginDelete, RemoveCopy, CleanupStops, Erase, Damage, OtherProcess
    <3>2. QED
      BY <1>6, <2>2, <2>4, <3>1
  <2>11. QED
    BY <2>5, <2>6, <2>7, <2>8, <2>9, <2>10
<1>10. QED
  BY <1>7, <1>8, <1>9

\* A turn is new, gone or as it was; while it is shown only the other process may act.
LEMMA SentNext == ASSUME IInv, Next PROVE (turn.sent => Shown)' /\ TurnQuotesItsRevision'
<1>1. /\ turn.sent => Shown
      /\ TurnQuotesItsRevision
  BY DEF IInv, Seen
<1>2. CASE Submit
  <2>1. live' = live /\ app' = app /\ Shown
    BY <1>2 DEF Submit
  <2>2. CASE app.pc = "session"
    <3>1. turn' = [NoTurn EXCEPT !.sent = TRUE]
      BY <1>2, <2>2 DEF Submit
    <3>2. turn'.revision = 0 /\ turn'.system = DefaultPreset /\ turn'.persona = DefaultPersona
      BY <3>1 DEF NoTurn
    <3>3. QED
      BY <2>1, <3>2 DEF TurnQuotesItsRevision, SeedTexts, Shown
  <2>3. CASE app.pc # "session"
    <3> DEFINE texts == TextsOf(live.profile, live.profile.active)
    <3>1. /\ turn'.revision \in {0, live.profile.active}
          /\ turn'.system = texts.system /\ turn'.persona = texts.persona
      BY <1>2, <2>3 DEF Submit
    <3>2. texts = [system |-> texts.system, persona |-> texts.persona]
      BY DEF TextsOf
    <3> HIDE DEF texts
    <3>3. turn'.revision # 0 =>
            [system |-> turn'.system, persona |-> turn'.persona] = TextsOf(live'.profile, turn'.revision)
      BY <2>1, <3>1, <3>2 DEF texts
    <3>4. QED
      BY <2>1, <2>3, <3>3 DEF TurnQuotesItsRevision, Shown
  <2>4. QED
    BY <2>2, <2>3
<1>3. ASSUME turn' = NoTurn PROVE (turn.sent => Shown)' /\ TurnQuotesItsRevision'
  BY <1>3 DEF NoTurn, TurnQuotesItsRevision
<1>4. ASSUME turn' = turn, ~Shown PROVE (turn.sent => Shown)' /\ TurnQuotesItsRevision'
  BY <1>1, <1>4 DEF TurnQuotesItsRevision
<1>5. CASE OtherProcess
  BY <1>1, <1>5 DEF OtherProcess, Shown, TurnQuotesItsRevision
<1>6. CASE Launch \/ OpeningFails \/ StartFails \/ RemoveCopy \/ CleanupStops \/ Damage
  BY <1>4, <1>6
     DEF Launch, OpeningFails, StartFails, RemoveCopy, CleanupStops, Damage, Shown, Opening
<1>7. CASE OpeningSteps
  BY <1>4, <1>7 DEF OpeningSteps, CheckVersion, BackUp, Migrate, MigrationsDone, Verify,
     MakeQuarantine, MoveAside, TakeOwnership, Seed, Validate, Shown
<1>8. CASE TypeText \/ PickPreset \/ ResetDraft \/ PickVersion \/ Apply \/ CancelEdit \/ RequestLeave
            \/ KeepEditing \/ Discard \/ Store \/ BeginDelete \/ Crash
  <2>1. turn' = NoTurn
    BY <1>8 DEF TypeText, PickPreset, ResetDraft, PickVersion, Apply, CancelEdit, RequestLeave,
       KeepEditing, Discard, Store, BeginDelete, Crash
  <2>2. QED
    BY <1>3, <2>1
<1>9. CASE Erase
  BY <1>4, <1>9 DEF Erase, Shown
<1>10. QED
  BY <1>2, <1>5, <1>6, <1>7, <1>8, <1>9 DEF Next

\* The panel and the turn agree with the store after every step.
LEMMA SeenNext == ASSUME IInv, Next PROVE Seen'
BY CleanNext, SentNext DEF Seen, Shows

-----------------------------------------------------------------------------
(* The theorems.                                                            *)

\* What a start finds is a database.
LEMMA FoundOK ==
  ASSUME NEW db \in Found
  PROVE  /\ db \in Databases /\ db.profile = NoProfile
         /\ db.version = 0 => db.tables \subseteq Version1
         /\ db.version \in 1..Current => db.tables = TablesAt(db.version)
<1>1. Blank \in Databases /\ Blank.profile = NoProfile /\ Blank.version = 0 /\ Blank.tables = {}
  BY BlankOK DEF Blank
<1>2. ASSUME NEW v \in 0..(Current + 1), NEW tables \in SUBSET TablesAt(Current),
             NEW items \in SUBSET Items, db = FileOf(v, tables, items)
      PROVE  /\ db \in Databases /\ db.profile = NoProfile
             /\ db.version = v /\ db.tables = tables
  BY <1>1, <1>2 DEF FileOf, Databases
<1>3. CASE db = Blank
  BY <1>1, <1>3 DEF Current
<1>4. CASE \E v \in Older, i \in SUBSET Items : db = FileOf(v, TablesAt(v), i)
  <2>1. PICK v \in Older, i \in SUBSET Items : db = FileOf(v, TablesAt(v), i)
    BY <1>4
  <2>2. v \in 1..5 /\ v - 1 \in 0..5 /\ (v - 1) + 1 = v /\ v \in 0..(Current + 1)
    BY OlderAssumption DEF Current
  <2>3. TablesAt(v) \subseteq TablesAt(Current)
    BY <2>2, TablesGrow
  <2>4. db \in Databases /\ db.profile = NoProfile /\ db.version = v /\ db.tables = TablesAt(v)
    BY <1>2, <2>1, <2>2, <2>3
  <2>5. QED
    BY <2>2, <2>4
<1>5. CASE \E i \in SUBSET Items : db = FileOf(0, Version1, i)
  <2>1. Creates[1] = Version1 /\ 0 \in 0..5 /\ 0 \in 0..(Current + 1)
    BY DEF Creates, Current
  <2>2. Version1 \subseteq TablesAt(Current)
    BY <2>1, TablesGrow
  <2>3. db \in Databases /\ db.profile = NoProfile /\ db.version = 0 /\ db.tables = Version1
    BY <1>2, <1>5, <2>1, <2>2
  <2>4. QED
    BY <2>3
<1>6. CASE db = FileOf(Current + 1, TablesAt(Current), {})
  <2>1. Current + 1 \in 0..(Current + 1)
    BY DEF Current
  <2>2. db \in Databases /\ db.profile = NoProfile /\ db.version = Current + 1
    BY <1>2, <1>6, <2>1
  <2>3. QED
    BY <2>2 DEF Current
<1>7. QED
  BY <1>3, <1>4, <1>5, <1>6 DEF Found

\* A start finds the invariant, whatever file it finds.
LEMMA InitIInv == ASSUME Init PROVE IInv
<1>1. /\ live \in Databases /\ live.profile = NoProfile
      /\ live.version = 0 => live.tables \subseteq Version1
      /\ live.version \in 1..Current => live.tables = TablesAt(live.version)
  BY FoundOK DEF Init
<1>2. Typed
  BY <1>1, FactoryOK DEF Init, Typed
<1>3. Counted
  <2>1. live.items \subseteq Items /\ 0 \in 0..MaxFaults
    BY <1>1, BoundsAssumption DEF Databases
  <2>2. QED
    BY <2>1 DEF Init, Counted
<1>4. Locked /\ app.pc = "off" /\ app.target = {}
  BY DEF Init, Locked, Off, Holding, Opening
<1>5. Kept
  BY <1>1, <1>4 DEF Init, Kept, DataIsKept, NothingIsLost, MigratesSafely, DeletedIsGone
<1>6. Stored
  BY <1>1, <1>4, NoProfileIsWhole DEF Stored, InUse, AppliedIsActive, Layers
<1>7. Seen
  BY <1>4 DEF Init, Seen, InUse, NoTurn, TurnQuotesItsRevision
<1>8. QED
  BY <1>2, <1>3, <1>4, <1>5, <1>6, <1>7 DEF IInv

\* No step of the process, of its panel or of the world around it breaks the invariant.
LEMMA NextIInv == ASSUME IInv, Next PROVE IInv'
BY LiveNext, KeptNext, AppNext, PanelNext, TurnNext, CountedNext, KeptNow, StoredNext, SeenNext
   DEF IInv, Typed

\* The inductive invariant: types, the lock, the data, the stored profile and its readers.
THEOREM Invariance == Spec => []IInv
<1>1. ASSUME IInv, UNCHANGED vars PROVE IInv'
  BY <1>1 DEF vars, IInv, Typed, Counted, Locked, Kept, DataIsKept, NothingIsLost, MigratesSafely,
     DeletedIsGone, Stored, InUse, AppliedIsActive, Seen, Shown, TurnQuotesItsRevision
<1>2. QED
  BY <1>1, InitIInv, NextIInv, PTL DEF Spec

\* db.rs:28, chat_app.rs:150.  Every record is of its type, and the lock is held exactly
\* while a storage is open.
THEOREM StartupTypes == Spec => []TypeOK
<1>1. ASSUME IInv PROVE TypeOK
  BY <1>1 DEF IInv, Typed, Counted, Locked, Databases, Copies, Apps, Panels, TypeOK
<1>2. QED
  BY <1>1, Invariance, PTL

\* db.rs:28, db.rs:389, db.rs:631.  Whatever crashes, fails or is damaged, at any
\* step of a migration, a quarantine or a deletion: what was stored is in the database or in
\* a copy until a deletion is asked for, a migration begins after its backup, and what was
\* reported as deleted is nowhere.
THEOREM DataStaysKept == Spec => []DataIsKept
<1>1. ASSUME IInv PROVE DataIsKept
  BY <1>1 DEF IInv, Kept
<1>2. QED
  BY <1>1, Invariance, PTL

\* prompt_store.rs:174, chat_app.rs:1051.  The prompt history stays whole, its active
\* revision has the texts applied last, a turn has the texts of the revision it names, and a
\* clean panel shows what is active, across crashes, failed transactions and restarts.
THEOREM PromptsStayAgreed == Spec => []PromptsAgree
<1>1. ASSUME IInv PROVE PromptsAgree
  <2>1. HistoryIsWhole(live.profile) /\ AppliedIsActive /\ TurnQuotesItsRevision
    BY <1>1 DEF IInv, Stored, Seen
  <2>2. CleanPanelIsActive
    <3>1. TextsOf(live.profile, live.profile.active)
            = [system |-> TextsOf(live.profile, live.profile.active).system,
               persona |-> TextsOf(live.profile, live.profile.active).persona]
      BY DEF TextsOf
    <3>2. QED
      BY <1>1, <3>1 DEF IInv, Seen, InUse, CleanPanelIsActive
  <2>3. QED
    BY <2>1, <2>2 DEF PromptsAgree
<1>2. QED
  BY <1>1, Invariance, PTL
============================================================================
