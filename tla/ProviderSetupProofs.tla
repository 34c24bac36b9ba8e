------------------------ MODULE ProviderSetupProofs ------------------------
(***************************************************************************)
(* Proofs about ProviderSetup for any targets, keys and models.            *)
(***************************************************************************)
EXTENDS ProviderSetup, TLAPS

\* Between two launches nothing is left in memory, so that a start begins anew.
Asleep == ~up => catalog.models = {} /\ verified = None

\* A standing verification comes with the capabilities it was accepted with.
Graded == verified # None => verifiedCaps.level \in Level

IInv ==
  /\ TypeOK
  /\ CatalogIsCurrent
  /\ VerifiedIsCurrent
  /\ ActiveWasMeasured
  /\ OneRequest
  /\ Asleep
  /\ Graded

USE DEF Conn, NoCatalog, NoCaps, Choice

-----------------------------------------------------------------------------
(* Types of the pieces the actions are made of.                             *)

\* Whatever a deletion leaves is still a state of the stores.
LEMMA ForgetType ==
  ASSUME NEW d \in [secret : Key \cup {None}, reference : BOOLEAN, row : Row \cup {None}],
         NEW e \in Forget(d)
  PROVE  /\ e \in [secret : Key \cup {None}, reference : BOOLEAN, row : Row \cup {None}]
         /\ e.row = d.row
<1>1. \/ e = [[d EXCEPT !.secret = None] EXCEPT !.reference = FALSE]
      \/ e = d
      \/ e = [d EXCEPT !.secret = None]
  BY DEF Forget
<1>2. QED
  BY <1>1

\* So is whatever an activation writes, completely or not.
LEMMA SaveType ==
  ASSUME TypeOK,
         NEW e \in FailedSaves \cup {WroteItem, WroteReference, WroteRow}
  PROVE  e \in [secret : Key \cup {None}, reference : BOOLEAN, row : Row \cup {None}]
<1> DEFINE Disk == [secret : Key \cup {None}, reference : BOOLEAN, row : Row \cup {None}]
<1>1. disk \in Disk /\ draft \in Profile /\ remember \in BOOLEAN
  BY DEF TypeOK
<1>2. Choice(draft) \in Row /\ draft.key \in Key \cup {None} /\ Remembered \in BOOLEAN
  BY <1>1 DEF Profile, Row, Remembered
<1>3. WroteItem \in Disk
  BY <1>1, <1>2 DEF WroteItem
<1>4. WroteReference \in Disk
  BY <1>2, <1>3 DEF WroteReference
<1>5. WroteRow \in Disk
  BY <1>2, <1>4 DEF WroteRow
<1>6. \A x \in Forget(WroteReference) : x \in Disk
  BY <1>4, ForgetType
<1>7. [WroteItem EXCEPT !.secret = None] \in Disk
  BY <1>3
<1>8. QED
  BY <1>1, <1>3, <1>4, <1>5, <1>6, <1>7 DEF FailedSaves

\* What a start restores has the types of the fields it fills.
LEMMA RestoredType ==
  ASSUME TypeOK, NEW r \in Restored, store' \in BOOLEAN
  PROVE  r.key \in Key \cup {None} /\ r.kept \in BOOLEAN
<1>1. disk \in [secret : Key \cup {None}, reference : BOOLEAN, row : Row \cup {None}]
  BY DEF TypeOK
<1> DEFINE kept == Known /\ disk.reference
<1>2. kept \in BOOLEAN /\ disk.secret \in Key \cup {None}
  BY <1>1 DEF Known
<1>3. \/ r = [key |-> IF kept THEN disk.secret ELSE None, kept |-> kept]
      \/ r \in [key : {None}, kept : {kept, FALSE}]
  BY DEF Restored
<1>4. CASE r = [key |-> IF kept THEN disk.secret ELSE None, kept |-> kept]
  <2>1. r.key = (IF kept THEN disk.secret ELSE None) /\ r.kept = kept
    BY <1>4
  <2>2. QED
    BY <2>1, <1>2
<1>5. CASE r \in [key : {None}, kept : {kept, FALSE}]
  <2>1. r.key = None /\ r.kept \in {kept, FALSE}
    BY <1>5
  <2>2. QED
    BY <2>1, <1>2
<1>6. QED
  BY <1>3, <1>4, <1>5

-----------------------------------------------------------------------------
(* The invariant.                                                           *)

\* Before the first start nothing is stored and nothing runs.
LEMMA InitIInv == Init => IInv
<1> SUFFICES ASSUME Init PROVE IInv
  OBVIOUS
<1>1. TypeOK
  <2>1. Default \in Target
    BY TargetAssumption
  <2>2. draft \in Profile
    BY <2>1 DEF Init, Profile
  <2>3. disk \in [secret : Key \cup {None}, reference : BOOLEAN, row : Row \cup {None}]
    BY DEF Init
  <2>4. QED
    BY <2>2, <2>3 DEF Init, TypeOK
<1>2. CatalogIsCurrent /\ VerifiedIsCurrent /\ ActiveWasMeasured /\ OneRequest /\ Asleep /\ Graded
  BY DEF Init, CatalogIsCurrent, VerifiedIsCurrent, ActiveWasMeasured, OneRequest, Asleep, Graded
<1>3. QED
  BY <1>1, <1>2 DEF IInv

\* The end of the program leaves nothing to be wrong about in memory.
LEMMA EndIInv ==
  ASSUME End, disk' \in [secret : Key \cup {None}, reference : BOOLEAN, row : Row \cup {None}]
  PROVE  IInv'
BY TargetAssumption, NoneAssumption
  DEF End, IInv, TypeOK, CatalogIsCurrent, VerifiedIsCurrent, ActiveWasMeasured,
      OneRequest, Asleep, Graded, Profile

\* Every action of the user, of a provider's answer, and of the process.
LEMMA NextIInv == IInv /\ [Next]_vars => IInv'
<1> SUFFICES ASSUME IInv, [Next]_vars PROVE IInv'
  OBVIOUS
<1> USE NoneAssumption
<1>0. /\ disk \in [secret : Key \cup {None}, reference : BOOLEAN, row : Row \cup {None}]
      /\ draft \in Profile /\ auto \in Profile \cup {None}
      /\ TypeOK
  BY DEF IInv, TypeOK
<1>1. CASE Start
  <2> DEFINE row == IF Known THEN disk.row ELSE [target |-> Default, model |-> None]
  <2>1. PICK r \in Restored, env \in EnvKey \cup {None} :
          LET key == IF r.key = None /\ row.target \in Gemini THEN env ELSE r.key
              saved == [target |-> row.target, key |-> key, model |-> row.model]
              connects == saved.model # None /\ KeyReady(saved)
          IN /\ draft' = saved
             /\ remember' = r.kept
             /\ auto' = IF connects THEN saved ELSE None
             /\ busy' = connects
             /\ asked' = IF connects THEN {[kind |-> "catalog", profile |-> saved]} ELSE {}
    BY <1>1 DEF Start
  <2>2. store' \in BOOLEAN /\ up' = TRUE
    BY <1>1, FailAssumption DEF Start
  <2>3. r.key \in Key \cup {None} /\ r.kept \in BOOLEAN
    BY <1>0, <2>2, RestoredType
  <2>4. row.target \in Target /\ row.model \in Model \cup {None}
    BY <1>0, TargetAssumption DEF Known, Row
  <2> HIDE DEF row
  <2> DEFINE key == IF r.key = None /\ row.target \in Gemini THEN env ELSE r.key
             saved == [target |-> row.target, key |-> key, model |-> row.model]
  <2>5. saved \in Profile
    BY <2>3, <2>4, TargetAssumption DEF Profile
  <2>6. /\ draft' = saved /\ remember' \in BOOLEAN
        /\ \/ auto' = saved /\ busy' = TRUE /\ asked' = {[kind |-> "catalog", profile |-> saved]}
           \/ auto' = None /\ busy' = FALSE /\ asked' = {}
    BY <2>1, <2>3
  <2> HIDE DEF saved
  <2>7. asked' \subseteq Request
    BY <2>5, <2>6 DEF Request
  <2>8. disk' \in [secret : Key \cup {None}, reference : BOOLEAN, row : Row \cup {None}]
    BY <1>0, <1>1 DEF Start
  <2>9. UNCHANGED <<catalog, verified, verifiedCaps, active, activeCaps, approved>>
    BY <1>1 DEF Start
  <2>10. up = FALSE
    BY <1>1, <1>0 DEF Start, TypeOK
  <2>11. TypeOK'
    BY <1>0, <2>2, <2>5, <2>6, <2>7, <2>8, <2>9 DEF TypeOK
  <2>12. CatalogIsCurrent' /\ VerifiedIsCurrent'
    BY <2>9, <2>10 DEF IInv, Asleep, CatalogIsCurrent, VerifiedIsCurrent
  <2>13. ActiveWasMeasured' /\ OneRequest' /\ Asleep' /\ Graded'
    BY <2>2, <2>6, <2>9 DEF IInv, ActiveWasMeasured, OneRequest, Asleep, Graded
  <2>14. QED
    BY <2>11, <2>12, <2>13 DEF IInv
<1>2. CASE Exit
  BY <1>2, <1>0, EndIInv DEF Exit
<1>3. CASE CrashWhileActivating
  BY <1>3, <1>0, SaveType, EndIInv DEF CrashWhileActivating
<1>4. ASSUME NEW t \in Target, EditTarget(t) PROVE IInv'
  <2>1. disk' \in [secret : Key \cup {None}, reference : BOOLEAN, row : Row \cup {None}]
    BY <1>0, <1>4, ForgetType DEF EditTarget
  <2>2. draft' \in Profile
    BY <1>4 DEF EditTarget, Profile
  <2>3. TypeOK'
    BY <1>0, <1>4, <2>1, <2>2 DEF EditTarget, DropConnection, TypeOK
  <2>4. CatalogIsCurrent' /\ VerifiedIsCurrent' /\ ActiveWasMeasured' /\ OneRequest' /\ Asleep' /\ Graded'
    BY <1>4 DEF EditTarget, DropConnection, IInv, CatalogIsCurrent, VerifiedIsCurrent,
       ActiveWasMeasured, OneRequest, Asleep, Graded
  <2>5. QED
    BY <2>3, <2>4 DEF IInv
<1>5. ASSUME NEW k \in Key \cup {None}, EditKey(k) PROVE IInv'
  <2>1. draft' \in Profile
    BY <1>0, <1>5 DEF EditKey, Profile
  <2>2. TypeOK'
    BY <1>0, <1>5, <2>1 DEF EditKey, DropConnection, boxes, TypeOK
  <2>3. CatalogIsCurrent' /\ VerifiedIsCurrent' /\ ActiveWasMeasured' /\ OneRequest' /\ Asleep' /\ Graded'
    BY <1>5 DEF EditKey, DropConnection, IInv, CatalogIsCurrent, VerifiedIsCurrent,
       ActiveWasMeasured, OneRequest, Asleep, Graded
  <2>4. QED
    BY <2>2, <2>3 DEF IInv
<1>6. CASE ToggleRemember
  BY <1>6 DEF ToggleRemember, setup, tasks, IInv, TypeOK, CatalogIsCurrent, VerifiedIsCurrent,
     ActiveWasMeasured, OneRequest, Asleep, Graded
<1>7. ASSUME NEW m \in Model, SelectModel(m) PROVE IInv'
  <2>1. draft' \in Profile /\ Conn(draft') = Conn(draft)
    BY <1>0, <1>7 DEF SelectModel, Profile
  <2>2. TypeOK'
    <3>1. /\ draft' \in Profile /\ verified' = None /\ verifiedCaps' = NoCaps
          /\ approved' = FALSE
          /\ UNCHANGED <<up, store, catalog, active, activeCaps, tasks, remember, disk>>
      BY <1>7, <2>1 DEF SelectModel
    <3>2. verified' \in Profile \cup {None} /\ approved' \in BOOLEAN
      BY <3>1
    <3>3. verifiedCaps' \in [of : Profile \cup {None}, level : Level \cup {None}]
      BY <3>1 DEF NoCaps
    <3>4. QED
      BY <1>0, <3>1, <3>2, <3>3 DEF tasks, TypeOK
  <2>3. CatalogIsCurrent'
    BY <1>7, <2>1 DEF SelectModel, IInv, CatalogIsCurrent
  <2>4. VerifiedIsCurrent' /\ ActiveWasMeasured' /\ OneRequest' /\ Asleep' /\ Graded'
    BY <1>7 DEF SelectModel, tasks, IInv, VerifiedIsCurrent, ActiveWasMeasured, OneRequest, Asleep, Graded
  <2>5. QED
    BY <2>2, <2>3, <2>4 DEF IInv
<1>8. CASE DiscoverClicked
  <2>1. asked = {}
    BY <1>8 DEF DiscoverClicked, IInv, OneRequest
  <2>2. asked' = {[kind |-> "catalog", profile |-> draft]} /\ busy' = TRUE
    BY <1>8, <2>1 DEF DiscoverClicked, Ask
  <2>3. asked' \subseteq Request
    BY <1>0, <2>2 DEF Request
  <2>4. TypeOK'
    BY <1>0, <1>8, <2>2, <2>3 DEF DiscoverClicked, boxes, TypeOK
  <2>5. CatalogIsCurrent' /\ VerifiedIsCurrent' /\ ActiveWasMeasured' /\ Asleep' /\ Graded'
    BY <1>8 DEF DiscoverClicked, IInv, CatalogIsCurrent, VerifiedIsCurrent, ActiveWasMeasured,
       Asleep, Graded
  <2>6. OneRequest'
    BY <2>2 DEF OneRequest
  <2>7. QED
    BY <2>4, <2>5, <2>6 DEF IInv
<1>9. CASE VerifyClicked
  <2>1. asked = {}
    BY <1>9 DEF VerifyClicked, IInv, OneRequest
  <2>2. asked' = {[kind |-> "verify", profile |-> draft]} /\ busy' = TRUE
    BY <1>9, <2>1 DEF VerifyClicked, Ask
  <2>3. asked' \subseteq Request
    BY <1>0, <2>2 DEF Request
  <2>4. TypeOK'
    BY <1>0, <1>9, <2>2, <2>3 DEF VerifyClicked, setup, boxes, TypeOK
  <2>5. CatalogIsCurrent' /\ VerifiedIsCurrent' /\ ActiveWasMeasured' /\ Asleep' /\ Graded'
    BY <1>9 DEF VerifyClicked, setup, IInv, CatalogIsCurrent, VerifiedIsCurrent,
       ActiveWasMeasured, Asleep, Graded
  <2>6. OneRequest'
    BY <2>2 DEF OneRequest
  <2>7. QED
    BY <2>4, <2>5, <2>6 DEF IInv
<1>10. CASE ActivateClicked
  <2>1. disk' \in [secret : Key \cup {None}, reference : BOOLEAN, row : Row \cup {None}]
    BY <1>0, <1>10, SaveType DEF ActivateClicked
  <2>2. \/ active' = draft /\ activeCaps' = verifiedCaps
        \/ active' = active /\ activeCaps' = activeCaps
    BY <1>10 DEF ActivateClicked
  <2>3. TypeOK'
    BY <1>0, <1>10, <2>1, <2>2 DEF ActivateClicked, tasks, boxes, TypeOK
  <2>4. verified = draft /\ draft # None
    BY <1>0, <1>10 DEF ActivateClicked, Stage
  <2>5. verifiedCaps.of = draft /\ verifiedCaps.level \in Level
    BY <2>4 DEF IInv, VerifiedIsCurrent, Graded
  <2>6. ActiveWasMeasured'
    BY <2>2, <2>5 DEF IInv, ActiveWasMeasured
  <2>7. CatalogIsCurrent' /\ VerifiedIsCurrent' /\ OneRequest' /\ Asleep' /\ Graded'
    BY <1>10 DEF ActivateClicked, tasks, IInv, CatalogIsCurrent, VerifiedIsCurrent, OneRequest,
       Asleep, Graded
  <2>8. QED
    BY <2>3, <2>6, <2>7 DEF IInv
<1>11. CASE Approve
  <2>2. approved' = TRUE
    BY <1>11 DEF Approve
  <2>3. TypeOK'
    BY <1>0, <1>11, <2>2 DEF Approve, setup, tasks, TypeOK
  <2>4. QED
    BY <1>11, <2>3 DEF Approve, setup, tasks, IInv, CatalogIsCurrent, VerifiedIsCurrent,
       ActiveWasMeasured, OneRequest, Asleep, Graded
<1>12. CASE Withdraw
  <2>0. UNCHANGED <<up, store, setup, tasks, remember, disk>>
    BY <1>12 DEF Withdraw
  <2>1. TypeOK'
    <3>1. approved' \in BOOLEAN
      BY <1>12 DEF Withdraw
    <3>2. QED
      BY <1>0, <2>0, <3>1 DEF setup, tasks, TypeOK
  <2>2. UNCHANGED <<up, store, setup, tasks>>
    BY <2>0
  <2>3. CatalogIsCurrent' /\ VerifiedIsCurrent' /\ ActiveWasMeasured' /\ OneRequest' /\ Asleep' /\ Graded'
    BY <2>2 DEF setup, tasks, IInv, CatalogIsCurrent, VerifiedIsCurrent,
       ActiveWasMeasured, OneRequest, Asleep, Graded
  <2>4. QED
    BY <2>1, <2>3 DEF IInv
<1>13. ASSUME NEW r \in asked, ResultDropped(r) PROVE IInv'
  <2>1. busy' = FALSE /\ asked' = {}
    BY <1>13 DEF ResultDropped, Settled, IInv, OneRequest
  <2>2. TypeOK'
    <3>1. UNCHANGED <<up, store, setup, auto, boxes, disk>>
      BY <1>13 DEF ResultDropped
    <3>2. busy' \in BOOLEAN /\ asked' \subseteq Request
      BY <2>1
    <3>3. QED
      BY <1>0, <3>1, <3>2 DEF setup, boxes, TypeOK
  <2>3. OneRequest'
    BY <2>1 DEF OneRequest
  <2>4. CatalogIsCurrent' /\ VerifiedIsCurrent' /\ ActiveWasMeasured' /\ Asleep' /\ Graded'
    BY <1>13 DEF ResultDropped, setup, IInv, CatalogIsCurrent, VerifiedIsCurrent,
       ActiveWasMeasured, Asleep, Graded
  <2>5. QED
    BY <2>2, <2>3, <2>4 DEF IInv
<1>14. ASSUME NEW r \in asked, NEW L \in SUBSET Model, CatalogAccepted(r, L) PROVE IInv'
  <2> DEFINE kept == [draft EXCEPT !.model = IF @ \in L THEN @ ELSE None]
  <2>1. kept \in Profile /\ Conn(kept) = Conn(draft) /\ Conn(draft) \in Connection
    BY <1>0 DEF Profile, Connection
  <2> HIDE DEF kept
  <2>2. asked \ {r} = {}
    BY <1>14 DEF IInv, OneRequest
  <2>3. /\ draft' = kept /\ catalog' = [of |-> Conn(r.profile), models |-> L]
        /\ r.profile = draft /\ up
        /\ verified' = None /\ verifiedCaps' = NoCaps
        /\ UNCHANGED <<up, store, active, activeCaps, boxes, disk>>
    BY <1>14 DEF CatalogAccepted, kept
  <2>4. /\ \/ busy' = TRUE /\ asked' = {[kind |-> "verify", profile |-> kept]}
           \/ busy' = FALSE /\ asked' = {}
        /\ auto' \in {auto, None}
    BY <1>14, <2>2 DEF CatalogAccepted, Settled, kept
  <2>5. asked' \subseteq Request
    BY <2>1, <2>4 DEF Request
  <2>6. catalog' \in [of : Connection \cup {None}, models : SUBSET Model]
    BY <2>1, <2>3
  <2>7. TypeOK'
    <3>1. /\ draft' \in Profile /\ verified' \in Profile \cup {None}
          /\ busy' \in BOOLEAN /\ auto' \in Profile \cup {None}
      BY <1>0, <2>1, <2>3, <2>4
    <3>2. verifiedCaps' \in [of : Profile \cup {None}, level : Level \cup {None}]
      BY <2>3
    <3>3. UNCHANGED <<up, store, active, activeCaps, boxes, disk>>
      BY <2>3
    <3>4. QED
      BY <1>0, <2>5, <2>6, <3>1, <3>2, <3>3 DEF boxes, TypeOK
  <2>8. CatalogIsCurrent' /\ VerifiedIsCurrent' /\ ActiveWasMeasured' /\ Asleep' /\ Graded'
    BY <2>1, <2>3 DEF IInv, CatalogIsCurrent, VerifiedIsCurrent, ActiveWasMeasured, Asleep, Graded
  <2>9. OneRequest'
    BY <2>4 DEF OneRequest
  <2>10. QED
    BY <2>7, <2>8, <2>9 DEF IInv
<1>15. ASSUME NEW r \in asked, VerdictNoChat(r) PROVE IInv'
  <2>1. busy' = FALSE /\ asked' = {}
    BY <1>15 DEF VerdictNoChat, Settled, IInv, OneRequest
  <2>2. TypeOK'
    <3>1. /\ verified' = None /\ verifiedCaps' = [of |-> None, level |-> None]
          /\ UNCHANGED <<up, store, draft, catalog, active, activeCaps, auto, boxes, disk>>
      BY <1>15 DEF VerdictNoChat, NoCaps
    <3>2. busy' \in BOOLEAN /\ asked' \subseteq Request
      BY <2>1
    <3>3. QED
      BY <1>0, <3>1, <3>2 DEF boxes, TypeOK
  <2>3. OneRequest'
    BY <2>1 DEF OneRequest
  <2>4. CatalogIsCurrent' /\ VerifiedIsCurrent' /\ ActiveWasMeasured' /\ Asleep' /\ Graded'
    BY <1>15 DEF VerdictNoChat, IInv, CatalogIsCurrent, VerifiedIsCurrent,
       ActiveWasMeasured, Asleep, Graded
  <2>5. QED
    BY <2>2, <2>3, <2>4 DEF IInv
<1>16. ASSUME NEW r \in asked, NEW l \in Level, VerdictAccepted(r, l) PROVE IInv'
  <2>1. busy' = FALSE /\ asked' = {}
    BY <1>16 DEF VerdictAccepted, Settled, IInv, OneRequest
  <2>2. r.profile = draft /\ up /\ draft.model \in catalog.models
    BY <1>16 DEF VerdictAccepted, Answers
  <2>3. /\ verified' = draft
        /\ verifiedCaps' = [of |-> draft, level |-> l]
        /\ UNCHANGED <<up, store, draft, catalog, boxes, disk>>
    BY <1>16, <2>2 DEF VerdictAccepted
  <2>4. \/ auto' = None /\ active' = draft /\ activeCaps' = verifiedCaps'
        \/ UNCHANGED <<auto, active, activeCaps>>
    BY <1>16 DEF VerdictAccepted
  <2>5. verifiedCaps' \in [of : Profile \cup {None}, level : Level \cup {None}]
    BY <1>0, <2>3
  <2>6. TypeOK'
    BY <1>0, <2>1, <2>3, <2>4, <2>5 DEF boxes, TypeOK
  <2>7. ActiveWasMeasured'
    BY <2>3, <2>4 DEF IInv, ActiveWasMeasured
  <2>8. CatalogIsCurrent' /\ VerifiedIsCurrent' /\ OneRequest' /\ Asleep' /\ Graded'
    BY <2>1, <2>2, <2>3 DEF IInv, CatalogIsCurrent, VerifiedIsCurrent, OneRequest, Asleep, Graded
  <2>9. QED
    BY <2>6, <2>7, <2>8 DEF IInv
<1>17. CASE UNCHANGED vars
  BY <1>17 DEF vars, setup, tasks, boxes, IInv, TypeOK, CatalogIsCurrent, VerifiedIsCurrent,
     ActiveWasMeasured, OneRequest, Asleep, Graded
<1>18. QED
  BY <1>1, <1>2, <1>3, <1>4, <1>5, <1>6, <1>7, <1>8, <1>9, <1>10, <1>11, <1>12,
     <1>13, <1>14, <1>15, <1>16, <1>17 DEF Next, Edits, Clicks, Result
-----------------------------------------------------------------------------
(* The theorems.                                                            *)

\* The invariant holds in every state of every run.
THEOREM Inductive == Spec => []IInv
<1>1. QED
  BY InitIInv, NextIInv, PTL DEF Spec

\* Types, for any targets, keys and models.
THEOREM TypeInvariant == Spec => []TypeOK
<1>1. IInv => TypeOK
  BY DEF IInv
<1>2. QED
  BY <1>1, Inductive, PTL

\* No list of models outlives the connection it was asked of.
THEOREM CatalogTheorem == Spec => []CatalogIsCurrent
<1>1. IInv => CatalogIsCurrent
  BY DEF IInv
<1>2. QED
  BY <1>1, Inductive, PTL

\* No verification outlives the draft it was made for.
THEOREM VerifiedTheorem == Spec => []VerifiedIsCurrent
<1>1. IInv => VerifiedIsCurrent
  BY DEF IInv
<1>2. QED
  BY <1>1, Inductive, PTL

\* Nothing becomes the active AI with capabilities measured for another profile.
THEOREM MeasuredTheorem == Spec => []ActiveWasMeasured
<1>1. IInv => ActiveWasMeasured
  BY DEF IInv
<1>2. QED
  BY <1>1, Inductive, PTL

\* At most one request is in flight, and the busy flag says so.
THEOREM RequestTheorem == Spec => []OneRequest
<1>1. IInv => OneRequest
  BY DEF IInv
<1>2. QED
  BY <1>1, Inductive, PTL

\* All of what the setup knows is about the draft it is used for.
THEOREM CurrentTheorem == Spec => []SetupIsCurrent
<1>1. IInv => SetupIsCurrent
  BY DEF IInv, SetupIsCurrent
<1>2. QED
  BY <1>1, Inductive, PTL

-----------------------------------------------------------------------------
(* Keys, when no store fails and no process dies inside an activation.      *)

FaultFree == MayFail = FALSE

\* What is on disk between two launches must lead the next one to own keys only.
KeyInv ==
  /\ up => store
  /\ disk.secret # None => disk.row # None /\ Own([target |-> disk.row.target, key |-> disk.secret])
  /\ Own(draft)
  /\ active # None => Own(active)
  /\ \A r \in asked : Own(r.profile)

\* Starting, editing, activating and reconnecting keep keys with their targets.
LEMMA NextKeyInv == FaultFree /\ IInv /\ KeyInv /\ [Next]_vars => KeyInv'
<1> SUFFICES ASSUME FaultFree, IInv, KeyInv, [Next]_vars PROVE KeyInv'
  OBVIOUS
<1> USE NoneAssumption
<1>0. /\ disk \in [secret : Key \cup {None}, reference : BOOLEAN, row : Row \cup {None}]
      /\ draft \in Profile /\ up \in BOOLEAN /\ store \in BOOLEAN
      /\ MayFail = FALSE
  BY DEF IInv, TypeOK, FaultFree
<1>1. CASE Start
  <2> DEFINE row == IF Known THEN disk.row ELSE [target |-> Default, model |-> None]
             kept == Known /\ disk.reference
  <2>1. PICK r \in Restored, env \in EnvKey \cup {None} :
          LET key == IF r.key = None /\ row.target \in Gemini THEN env ELSE r.key
              saved == [target |-> row.target, key |-> key, model |-> row.model]
              connects == saved.model # None /\ KeyReady(saved)
          IN /\ draft' = saved
             /\ asked' = IF connects THEN {[kind |-> "catalog", profile |-> saved]} ELSE {}
    BY <1>1 DEF Start
  <2>2. store' = TRUE
    BY <1>0, <1>1 DEF Start
  <2>3. r.key = IF kept THEN disk.secret ELSE None
    BY <1>0 DEF Restored
  <2>4. Own([target |-> row.target, key |-> r.key])
    BY <2>3 DEF KeyInv, Own
  <2> HIDE DEF row, kept
  <2> DEFINE key == IF r.key = None /\ row.target \in Gemini THEN env ELSE r.key
             saved == [target |-> row.target, key |-> key, model |-> row.model]
  <2>6. Own(saved)
    BY <2>4 DEF Own
  <2>7. draft' = saved /\ (asked' = {[kind |-> "catalog", profile |-> saved]} \/ asked' = {})
    BY <2>1
  <2> HIDE DEF saved
  <2>8. disk' = disk \/ disk'.secret = None
    BY <1>0, <1>1 DEF Start
  <2>9. active' = active
    BY <1>1 DEF Start
  <2>10. QED
    BY <2>2, <2>6, <2>7, <2>8, <2>9 DEF KeyInv, Own
<1>2. CASE Exit
  BY <1>2 DEF Exit, End, KeyInv, Own
<1>3. CASE CrashWhileActivating
  BY <1>0, <1>3 DEF CrashWhileActivating
<1>4. ASSUME NEW t \in Target, EditTarget(t) PROVE KeyInv'
  <2>1. up /\ store
    BY <1>4 DEF EditTarget, KeyInv
  <2>2. disk' = [[disk EXCEPT !.secret = None] EXCEPT !.reference = FALSE]
    BY <1>0, <1>4, <2>1 DEF EditTarget, Forget
  <2>3. disk'.secret = None
    BY <1>0, <2>2
  <2>4. draft'.key = None /\ UNCHANGED <<up, store, active, asked>>
    BY <1>4 DEF EditTarget
  <2>5. QED
    BY <2>3, <2>4 DEF KeyInv, Own
<1>5. ASSUME NEW k \in Key \cup {None}, EditKey(k) PROVE KeyInv'
  <2>1. draft'.key = k /\ draft'.target = draft.target
    BY <1>0, <1>5 DEF EditKey, Profile
  <2>2. k # None => KeyOf[k] = draft.target
    BY <1>5 DEF EditKey
  <2>3. UNCHANGED <<up, store, active, asked, disk>>
    BY <1>5 DEF EditKey
  <2>4. QED
    BY <2>1, <2>2, <2>3 DEF KeyInv, Own
<1>6. CASE ToggleRemember
  BY <1>6 DEF ToggleRemember, setup, tasks, KeyInv, Own
<1>7. ASSUME NEW m \in Model, SelectModel(m) PROVE KeyInv'
  <2>1. draft'.key = draft.key /\ draft'.target = draft.target
    BY <1>0, <1>7 DEF SelectModel, Profile
  <2>2. UNCHANGED <<up, store, active, asked, disk>>
    BY <1>7 DEF SelectModel, tasks
  <2>3. QED
    BY <2>1, <2>2 DEF KeyInv, Own
<1>8. CASE DiscoverClicked
  BY <1>8 DEF DiscoverClicked, Ask, KeyInv, Own
<1>9. CASE VerifyClicked
  BY <1>9 DEF VerifyClicked, setup, Ask, KeyInv, Own
<1>10. CASE ActivateClicked
  <2>1. up /\ store /\ disk' = WroteRow /\ active' = draft
    BY <1>0, <1>10 DEF ActivateClicked, KeyInv
  <2>2. /\ WroteRow.row = Choice(draft)
        /\ WroteRow.secret = IF Remembered THEN draft.key ELSE None
    BY <1>0 DEF WroteRow, WroteReference, WroteItem
  <2>3. Choice(draft) \in Row /\ Choice(draft).target = draft.target
    BY <1>0 DEF Row, Profile
  <2>4. disk'.secret # None =>
          disk'.row # None /\ Own([target |-> disk'.row.target, key |-> disk'.secret])
    BY <2>1, <2>2, <2>3 DEF KeyInv, Own
  <2>5. UNCHANGED <<up, store, draft, asked>>
    BY <1>10 DEF ActivateClicked, tasks
  <2>6. QED
    BY <2>1, <2>4, <2>5 DEF KeyInv, Own
<1>11. CASE Approve
  BY <1>11 DEF Approve, setup, tasks, KeyInv, Own
<1>12. CASE Withdraw
  BY <1>12 DEF Withdraw, setup, tasks, KeyInv, Own
<1>13. ASSUME NEW r \in asked, ResultDropped(r) PROVE KeyInv'
  BY <1>13 DEF ResultDropped, setup, Settled, KeyInv, Own
<1>14. ASSUME NEW r \in asked, NEW L \in SUBSET Model, CatalogAccepted(r, L) PROVE KeyInv'
  <2> DEFINE kept == [draft EXCEPT !.model = IF @ \in L THEN @ ELSE None]
  <2>1. kept.key = draft.key /\ kept.target = draft.target
    BY <1>0 DEF Profile
  <2> HIDE DEF kept
  <2>2. draft' = kept /\ UNCHANGED <<up, store, active, disk>>
    BY <1>14 DEF CatalogAccepted, kept
  <2>3. \A q \in asked' : q \in asked \/ q = [kind |-> "verify", profile |-> kept]
    BY <1>14 DEF CatalogAccepted, Settled, kept
  <2>4. Own(kept)
    BY <2>1 DEF KeyInv, Own
  <2>5. \A q \in asked' : Own(q.profile)
    BY <2>3, <2>4 DEF KeyInv
  <2>6. QED
    BY <2>2, <2>4, <2>5 DEF KeyInv, Own
<1>15. ASSUME NEW r \in asked, VerdictNoChat(r) PROVE KeyInv'
  BY <1>15 DEF VerdictNoChat, Settled, KeyInv, Own
<1>16. ASSUME NEW r \in asked, NEW l \in Level, VerdictAccepted(r, l) PROVE KeyInv'
  <2>1. (active' = draft \/ active' = active) /\ asked' = asked \ {r}
    BY <1>16 DEF VerdictAccepted, Settled
  <2>2. UNCHANGED <<up, store, draft, disk>>
    BY <1>16 DEF VerdictAccepted
  <2>3. QED
    BY <2>1, <2>2 DEF KeyInv, Own
<1>17. CASE UNCHANGED vars
  BY <1>17 DEF vars, setup, tasks, KeyInv, Own
<1>18. QED
  BY <1>1, <1>2, <1>3, <1>4, <1>5, <1>6, <1>7, <1>8, <1>9, <1>10, <1>11, <1>12,
     <1>13, <1>14, <1>15, <1>16, <1>17 DEF Next, Edits, Clicks, Result

\* A key is sent to no target but the one it was typed for, and that of .env.local to
\* none but Gemini profiles, edited ones included, whatever the user edits, saves,
\* restarts and reconnects, as long as no write of an activation is lost.
THEOREM OwnKeysTheorem == FaultFree => (Spec => []OwnKeysOnly)
<1> SUFFICES ASSUME FaultFree PROVE Spec => []OwnKeysOnly
  OBVIOUS
<1>1. Init => KeyInv
  BY DEF Init, KeyInv, Own
<1>2. IInv /\ KeyInv /\ [Next]_vars => KeyInv'
  BY NextKeyInv
<1>3. KeyInv => OwnKeysOnly
  BY DEF KeyInv, Own, OwnKeysOnly
<1>4. QED
  BY <1>1, <1>2, <1>3, Inductive, PTL DEF Spec

-----------------------------------------------------------------------------
(* The two stores of a remembered key.                                      *)

\* A list of models, and a request, are only there for a profile with its key.
PairInv ==
  /\ KeyIsReferenced
  /\ catalog.models # {} => KeyReady(draft)
  /\ \A r \in asked : KeyReady(r.profile)

\* Native item and preference are written and deleted together.
LEMMA NextPairInv == FaultFree /\ IInv /\ PairInv /\ [Next]_vars => PairInv'
<1> SUFFICES ASSUME FaultFree, IInv, PairInv, [Next]_vars PROVE PairInv'
  OBVIOUS
<1> USE NoneAssumption DEF KeyReady
<1>0. /\ disk \in [secret : Key \cup {None}, reference : BOOLEAN, row : Row \cup {None}]
      /\ draft \in Profile /\ up \in BOOLEAN
      /\ MayFail = FALSE
  BY DEF IInv, TypeOK, FaultFree
<1>1. CASE Start
  <2>1. KeyIsReferenced'
    <3>1. disk' = disk \/ disk' = [disk EXCEPT !.secret = None, !.reference = FALSE]
      BY <1>1 DEF Start
    <3>2. QED
      BY <1>0, <3>1 DEF PairInv, KeyIsReferenced
  <2>2. catalog'.models = {}
    BY <1>1, <1>0 DEF Start, IInv, Asleep
  <2>3. PICK saved : \/ asked' = {[kind |-> "catalog", profile |-> saved]} /\ KeyReady(saved)
                    \/ asked' = {}
    BY <1>1 DEF Start
  <2>4. QED
    BY <2>1, <2>2, <2>3 DEF PairInv
<1>2. CASE Exit
  BY <1>2 DEF Exit, End, PairInv, KeyIsReferenced
<1>3. CASE CrashWhileActivating
  BY <1>0, <1>3 DEF CrashWhileActivating
<1>4. ASSUME NEW t \in Target, EditTarget(t) PROVE PairInv'
  <2>1. disk' = [[disk EXCEPT !.secret = None] EXCEPT !.reference = FALSE] \/ disk' = disk
    BY <1>0, <1>4 DEF EditTarget, Forget
  <2>2. catalog'.models = {} /\ asked' = asked
    BY <1>4 DEF EditTarget, DropConnection
  <2>3. QED
    BY <1>0, <2>1, <2>2 DEF PairInv, KeyIsReferenced
<1>5. ASSUME NEW k \in Key \cup {None}, EditKey(k) PROVE PairInv'
  BY <1>5 DEF EditKey, DropConnection, PairInv, KeyIsReferenced
<1>6. CASE ToggleRemember
  BY <1>6 DEF ToggleRemember, setup, tasks, PairInv, KeyIsReferenced
<1>7. ASSUME NEW m \in Model, SelectModel(m) PROVE PairInv'
  <2>1. draft'.key = draft.key /\ draft'.target = draft.target
    BY <1>0, <1>7 DEF SelectModel, Profile
  <2>2. UNCHANGED <<catalog, asked, disk>>
    BY <1>7 DEF SelectModel, tasks
  <2>3. QED
    BY <2>1, <2>2 DEF PairInv, KeyIsReferenced
<1>8. CASE DiscoverClicked
  BY <1>8 DEF DiscoverClicked, Ask, PairInv, KeyIsReferenced
<1>9. CASE VerifyClicked
  <2>1. KeyReady(draft)
    BY <1>9 DEF VerifyClicked, PairInv
  <2>2. asked' = asked \cup {[kind |-> "verify", profile |-> draft]} /\ UNCHANGED <<draft, catalog, disk>>
    BY <1>9 DEF VerifyClicked, Ask, setup
  <2>3. QED
    BY <2>1, <2>2 DEF PairInv, KeyIsReferenced
<1>10. CASE ActivateClicked
  <2>1. UNCHANGED <<draft, catalog, asked>> /\ (disk' = WroteRow \/ disk' = disk)
    BY <1>0, <1>10 DEF ActivateClicked, tasks
  <2>2. Remembered => draft.key # None
    <3>1. verified = draft
      BY <1>10 DEF ActivateClicked, Stage
    <3>2. CASE verified = None
      BY <1>0, <3>1, <3>2 DEF Profile
    <3>3. CASE verified # None
      BY <3>3 DEF IInv, VerifiedIsCurrent, PairInv, Remembered
    <3>4. QED
      BY <3>2, <3>3
  <2>3. WroteRow.secret = (IF Remembered THEN draft.key ELSE None) /\ WroteRow.reference = Remembered
    BY <1>0 DEF WroteRow, WroteReference, WroteItem
  <2>4. KeyIsReferenced'
    BY <2>1, <2>2, <2>3 DEF PairInv, KeyIsReferenced
  <2>5. QED
    BY <2>1, <2>4 DEF PairInv
<1>11. CASE Approve
  BY <1>11 DEF Approve, setup, tasks, PairInv, KeyIsReferenced
<1>12. CASE Withdraw
  BY <1>12 DEF Withdraw, setup, tasks, PairInv, KeyIsReferenced
<1>13. ASSUME NEW r \in asked, ResultDropped(r) PROVE PairInv'
  BY <1>13 DEF ResultDropped, setup, Settled, PairInv, KeyIsReferenced
<1>14. ASSUME NEW r \in asked, NEW L \in SUBSET Model, CatalogAccepted(r, L) PROVE PairInv'
  <2> DEFINE kept == [draft EXCEPT !.model = IF @ \in L THEN @ ELSE None]
  <2>1. kept.key = draft.key /\ kept.target = draft.target
    BY <1>0 DEF Profile
  <2> HIDE DEF kept
  <2>2. draft' = kept /\ disk' = disk /\ r.profile = draft
    BY <1>14 DEF CatalogAccepted, kept
  <2>3. \A q \in asked' : q \in asked \/ q = [kind |-> "verify", profile |-> kept]
    BY <1>14 DEF CatalogAccepted, Settled, kept
  <2>4. KeyReady(kept)
    BY <2>1, <2>2 DEF PairInv
  <2>5. QED
    BY <2>2, <2>3, <2>4 DEF PairInv, KeyIsReferenced
<1>15. ASSUME NEW r \in asked, VerdictNoChat(r) PROVE PairInv'
  BY <1>15 DEF VerdictNoChat, Settled, PairInv, KeyIsReferenced
<1>16. ASSUME NEW r \in asked, NEW l \in Level, VerdictAccepted(r, l) PROVE PairInv'
  BY <1>16 DEF VerdictAccepted, Settled, PairInv, KeyIsReferenced
<1>17. CASE UNCHANGED vars
  BY <1>17 DEF vars, setup, tasks, PairInv, KeyIsReferenced
<1>18. QED
  BY <1>1, <1>2, <1>3, <1>4, <1>5, <1>6, <1>7, <1>8, <1>9, <1>10, <1>11, <1>12,
     <1>13, <1>14, <1>15, <1>16, <1>17 DEF Next, Edits, Clicks, Result

\* Without faults key and target stay a pair in memory, and native item and
\* preference a pair on disk, for any targets and keys.
THEOREM PairedTheorem == FaultFree => (Spec => []KeysStayPaired)
<1> SUFFICES ASSUME FaultFree PROVE Spec => []KeysStayPaired
  OBVIOUS
<1>1. Init => PairInv
  BY NoneAssumption DEF Init, PairInv, KeyIsReferenced, KeyReady
<1>2. IInv /\ PairInv /\ [Next]_vars => PairInv'
  BY NextPairInv
<1>3. PairInv /\ OwnKeysOnly => KeysStayPaired
  BY DEF PairInv, KeysStayPaired
<1>4. Spec => []OwnKeysOnly
  BY OwnKeysTheorem
<1>5. QED
  BY <1>1, <1>2, <1>3, <1>4, Inductive, PTL DEF Spec
=============================================================================
