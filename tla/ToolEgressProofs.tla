-------------------------- MODULE ToolEgressProofs --------------------------
(***************************************************************************)
(* The safety of tool egress for every number of launches, turns, bodies,  *)
(* calls and receipts: what a receipt says agrees with what the network    *)
(* saw, no launch closes the receipts of another's running request, and   *)
(* together the receipts implement ReceiptLedger.                          *)
(***************************************************************************)
EXTENDS ToolEgress, TLAPS

OpenPhases == {"authorize", "pending", "checked", "send", "polled", "inflight"}
ApprovedPhases == {"pending", "checked", "send", "polled", "inflight"}
UnsentPhases == {"authorize", "pending", "checked", "send", "polled"}
Seals == [turn : Turn, body : Body, call : Call]

\* A body belongs to one turn, for good, and carries what it carried at first.
Bodies ==
  /\ \A t \in Turn : phase[t] \in OpenPhases => body[t] \in Body
  /\ \A t \in Turn : body[t] \in Body => carried[body[t]] # {}
  /\ \A t, u \in Turn : body[t] \in Body /\ body[t] = body[u] => t = u
  /\ \A b \in wire : carried[b] # {}

\* A receipt that exists is about a body that exists, of a turn that began.
Receipts ==
  \A r \in Receipt : status[r] # "Absent" =>
    /\ seal[r] \in Seals
    /\ carried[seal[r].body] # {}
    /\ phase[seal[r].turn] # "unborn"

\* A receipt is about a result its body carries.
OfItsBody ==
  \A r \in Receipt : status[r] # "Absent" => seal[r].call \in carried[seal[r].body]

\* Between approval and answer every result of the body is sealed; before the
\* send the body is not on the network.
Approved ==
  /\ \A t \in Turn : phase[t] \in ApprovedPhases => Unsealed(t) = {}
  /\ \A t \in Turn : phase[t] \in UnsentPhases => body[t] \notin wire

\* The lock is held by the launch that has the storage open, and by one whose
\* workers still run.
Ownership ==
  /\ \A p \in Launch : run[p] \in {"locked", "owner"} => lock = p
  /\ \A t \in Turn : Live(t) =>
       /\ host[t] \in Launch
       /\ run[host[t]] \in {"owner", "closing"}
       /\ lock = host[t]

IInv ==
  /\ TypeOK /\ Bodies /\ Receipts /\ OfItsBody /\ Approved /\ Ownership
  /\ FailedNeverSent /\ SentWasAnswered /\ WireIsSealed
  /\ BodyAgrees /\ LiveBatchPrepared /\ RecoveredClean

-----------------------------------------------------------------------------
(* Types.                                                                   *)

TypedLaunch == lock \in Launch \cup {None} /\ run \in [Launch -> RunStates]
TypedUi ==
  /\ busy \in [Launch -> BOOLEAN]
  /\ active \in [Launch -> Turn \cup {None}]
  /\ appScope \in [Launch -> Turn \cup {None}]
  /\ frame \in [Launch -> {"open", "top", "replacing"}]
TypedHost == host \in [Turn -> Launch \cup {None}]
TypedPhase == phase \in [Turn -> Phases]
TypedCancel == cancelled \in [Turn -> BOOLEAN]
TypedBody ==
  /\ results \in [Turn -> SUBSET Call]
  /\ body \in [Turn -> Body \cup {None}]
  /\ carried \in [Body -> SUBSET Call]
TypedConsent == consent \in [Turn -> {"Absent", "Granted", "Revoked"}]
TypedStatus == status \in [Receipt -> Statuses]
TypedSeal == seal \in [Receipt -> Seals \cup {NoSeal}]
TypedNet == wire \in SUBSET Body /\ answered \in SUBSET Body

\* TypeOK, split into groups the actions change together.
LEMMA TypeParts ==
  TypeOK <=> /\ TypedLaunch /\ TypedUi /\ TypedHost /\ TypedPhase /\ TypedCancel
             /\ TypedBody /\ TypedConsent /\ TypedStatus /\ TypedSeal /\ TypedNet
BY DEF TypeOK, TypedLaunch, TypedUi, TypedHost, TypedPhase, TypedCancel, TypedBody,
       TypedConsent, TypedStatus, TypedSeal, TypedNet, Seals

\* The initial state is typed.
LEMMA TypeInit == Init => TypeOK
<1> SUFFICES ASSUME Init PROVE TypeOK
  OBVIOUS
<1>1. TypedLaunch /\ TypedUi
  BY DEF Init, TypedLaunch, TypedUi, RunStates
<1>2. TypedHost /\ TypedPhase /\ TypedCancel /\ TypedBody
  BY DEF Init, TypedHost, TypedPhase, TypedCancel, TypedBody, Phases
<1>3. TypedConsent /\ TypedStatus /\ TypedSeal /\ TypedNet
  BY DEF Init, TypedConsent, TypedStatus, TypedSeal, TypedNet, Statuses
<1> QED
  BY <1>1, <1>2, <1>3, TypeParts

\* The operators the worker's actions share.
LEMMA CasTyped ==
  ASSUME TypeOK, NEW B, NEW s \in Statuses, CasBatch(B, s)
  PROVE  status' \in [Receipt -> Statuses]
BY DEF TypeOK, CasBatch

\* The revocation a gate call records keeps the type of the consent rows.
LEMMA RevokeTyped ==
  ASSUME TypeOK, NEW t \in Turn, RevokeIfCancelled(t)
  PROVE  consent' \in [Turn -> {"Absent", "Granted", "Revoked"}]
BY DEF TypeOK, RevokeIfCancelled

\* However the closing of a batch turns out, the durable rows keep their types.
LEMMA FinishTyped ==
  ASSUME TypeOK, NEW t \in Turn, NEW s \in {"Sent", "Failed", "OutcomeUnknown"},
         FinishBatch(t, s)
  PROVE  /\ status' \in [Receipt -> Statuses]
         /\ consent' \in [Turn -> {"Absent", "Granted", "Revoked"}]
<1>1. s \in Statuses /\ "OutcomeUnknown" \in Statuses
  BY DEF Statuses
<1>2. status' \in [Receipt -> Statuses]
  BY <1>1, CasTyped DEF FinishBatch, TypeOK
<1>3. consent' \in [Turn -> {"Absent", "Granted", "Revoked"}]
  BY RevokeTyped DEF FinishBatch, TypeOK
<1> QED
  BY <1>2, <1>3

\* The end of a worker keeps the types of its phase and of the lock.
LEMMA EndsTyped ==
  ASSUME TypeOK, NEW t \in Turn, WorkerEnds(t)
  PROVE  phase' \in [Turn -> Phases] /\ lock' \in Launch \cup {None}
<1>1. phase' \in [Turn -> Phases]
  BY DEF TypeOK, WorkerEnds, Phases
<1>2. lock' \in Launch \cup {None}
  BY DEF TypeOK, WorkerEnds, LockAfter
<1> QED
  BY <1>1, <1>2

\* A round that is given up keeps the types.
LEMMA AbandonTyped ==
  ASSUME TypeOK, NEW t \in Turn, NEW s \in {"Sent", "Failed", "OutcomeUnknown"},
         Abandon(t, s)
  PROVE  TypeOK'
<1>1. /\ status' \in [Receipt -> Statuses]
      /\ consent' \in [Turn -> {"Absent", "Granted", "Revoked"}]
  BY FinishTyped DEF Abandon
<1>2. phase' \in [Turn -> Phases] /\ lock' \in Launch \cup {None}
  BY EndsTyped DEF Abandon
<1>3. UNCHANGED <<run, ui, host, cancelled, results, body, seal, carried, net>>
  BY DEF Abandon
<1> QED
  BY <1>1, <1>2, <1>3 DEF TypeOK, ui, net

\* The steps of a launch keep the types.
LEMMA LaunchTyped ==
  ASSUME TypeOK, NEW p \in Launch, LaunchStep(p)
  PROVE  TypeOK'
<1> USE DEF TypeOK, ui, mem, durable, net
<1>1. CASE AcquireLock(p)
  BY <1>1 DEF AcquireLock, RunStates
<1>2. CASE OpenFails(p)
  BY <1>2 DEF OpenFails, RunStates
<1>3. CASE Recover(p)
  BY <1>3 DEF Recover, RunStates, Statuses
<1>4. CASE Close(p)
  BY <1>4 DEF Close, RunStates, ForgetUi, LockAfter
<1>5. CASE Crash(p)
  BY <1>5 DEF Crash, RunStates, ForgetUi, Phases
<1> QED
  BY <1>1, <1>2, <1>3, <1>4, <1>5 DEF LaunchStep

\* The steps of the UI thread keep the types.
LEMMA UiTyped ==
  ASSUME TypeOK, NEW p \in Launch, UiStep(p)
  PROVE  TypeOK'
<1> USE DEF TypeOK, ui, mem, durable, net
<1>1. ASSUME NEW t \in Turn, BeginTurn(p, t) PROVE TypeOK'
  BY <1>1 DEF BeginTurn, Phases
<1>2. CASE PollTop(p)
  BY <1>2 DEF PollTop
<1>3. CASE RepositoryChanged(p)
  BY <1>3 DEF RepositoryChanged
<1>4. CASE UiTerminal(p)
  BY <1>4 DEF UiTerminal
<1>5. CASE Withdraw(p)
  BY <1>5 DEF Withdraw
<1>6. CASE NewConversationRevoke(p)
  BY <1>6 DEF NewConversationRevoke
<1>7. CASE NewConversationCancel(p)
  BY <1>7 DEF NewConversationCancel
<1> QED
  BY <1>1, <1>2, <1>3, <1>4, <1>5, <1>6, <1>7 DEF UiStep

\* The steps of a worker and the network keep the types.
LEMMA WorkerTyped ==
  ASSUME TypeOK, Bodies, NEW t \in Turn, Worker(t) \/ Transmit(t)
  PROVE  TypeOK'
<1> USE DEF ui, mem, durable, net
<1>0. "authorize" \in Phases /\ "pending" \in Phases /\ "checked" \in Phases
      /\ "send" \in Phases /\ "inflight" \in Phases /\ "stream" \in Phases
      /\ "round" \in Phases /\ "polled" \in Phases
  BY DEF Phases
<1>1. CASE RoundStops(t)
  <2>1. phase' \in [Turn -> Phases] /\ lock' \in Launch \cup {None}
    BY <1>1, EndsTyped DEF RoundStops
  <2>2. consent' \in [Turn -> {"Absent", "Granted", "Revoked"}]
    BY <1>1, RevokeTyped DEF RoundStops, TypeOK
  <2> QED
    BY <1>1, <2>1, <2>2 DEF RoundStops, TypeOK
<1>2. CASE SendPlain(t)
  BY <1>0, <1>2 DEF SendPlain, TypeOK
<1>3. ASSUME NEW C \in SUBSET Call, ToolsExecuted(t, C) PROVE TypeOK'
  BY <1>0, <1>3 DEF ToolsExecuted, TypeOK
<1>4. ASSUME NEW b \in Body, BeginAuthorize(t, b) PROVE TypeOK'
  BY <1>0, <1>4 DEF BeginAuthorize, TypeOK
<1>5. ASSUME NEW c \in Call, NEW r \in Receipt, SealResult(t, c, r) PROVE TypeOK'
  <2>1. status' \in [Receipt -> Statuses]
    BY <1>5 DEF SealResult, TypeOK, Statuses
  <2>2. seal' \in [Receipt -> [turn : Turn, body : Body, call : Call] \cup {NoSeal}]
    <3>1. body[t] \in Body
      BY <1>5 DEF SealResult, Bodies, OpenPhases
    <3> QED
      BY <1>5, <3>1 DEF SealResult, TypeOK
  <2> QED
    BY <1>5, <2>1, <2>2 DEF SealResult, TypeOK
<1>6. CASE SealRefused(t)
  <2>1. phase' \in [Turn -> Phases] /\ lock' \in Launch \cup {None}
    BY <1>6, EndsTyped DEF SealRefused
  <2>2. status' \in [Receipt -> Statuses]
    <3>1. "Failed" \in Statuses
      BY DEF Statuses
    <3> QED
      BY <1>6, <3>1, CasTyped DEF SealRefused, FailPrepared, TypeOK
  <2> QED
    BY <1>6, <2>1, <2>2 DEF SealRefused, TypeOK
<1>7. CASE Authorized(t)
  BY <1>0, <1>7 DEF Authorized, TypeOK
<1>8. CASE CheckAuthorized(t)
  BY <1>0, <1>8, AbandonTyped DEF CheckAuthorized, TypeOK
<1>9. CASE CheckCancelled(t)
  BY <1>0, <1>9, AbandonTyped DEF CheckCancelled, TypeOK
<1>10. CASE PollToken(t) \/ StartSend(t)
  BY <1>0, <1>10 DEF PollToken, StartSend, TypeOK
<1>11. CASE SelectCancelled(t) \/ SendFails(t)
  BY <1>11, AbandonTyped DEF SelectCancelled, SendFails
<1>12. CASE Response(t)
  <2>1. answered' \in SUBSET Body
    BY <1>12 DEF Response, TypeOK
  <2>2. phase' \in [Turn -> Phases] /\ lock' \in Launch \cup {None}
    BY <1>12, <1>0, EndsTyped DEF Response, TypeOK
  <2>3. /\ status' \in [Receipt -> Statuses]
        /\ consent' \in [Turn -> {"Absent", "Granted", "Revoked"}]
    <3>1. "Sent" \in Statuses
      BY DEF Statuses
    <3> QED
      BY <1>12, <3>1, CasTyped, RevokeTyped, FinishTyped DEF Response
  <2> QED
    BY <1>12, <2>1, <2>2, <2>3 DEF Response, TypeOK
<1>13. CASE Transmit(t)
  <2>1. wire' \in SUBSET Body
    BY <1>13 DEF Transmit, TypeOK, Bodies, OpenPhases
  <2> QED
    BY <1>13, <2>1 DEF Transmit, TypeOK
<1> QED
  BY <1>1, <1>2, <1>3, <1>4, <1>5, <1>6, <1>7, <1>8, <1>9, <1>10, <1>11, <1>12, <1>13
     DEF Worker, RoundStep, AuthorizeStep, SendStep

\* Every step keeps the types.
LEMMA TypeStep == TypeOK /\ Bodies /\ [Next]_vars => TypeOK'
<1> SUFFICES ASSUME TypeOK, Bodies, [Next]_vars PROVE TypeOK'
  OBVIOUS
<1>1. CASE UNCHANGED vars
  BY <1>1 DEF vars, ui, mem, durable, net, TypeOK
<1>2. CASE Next
  BY <1>2, LaunchTyped, UiTyped, WorkerTyped DEF Next
<1> QED
  BY <1>1, <1>2

-----------------------------------------------------------------------------
(* Ownership of the lock.                                                   *)

\* A step of the UI thread starts turns of the launch that has the storage and
\* otherwise leaves lock, launches and workers alone.
LEMMA UiShape ==
  ASSUME TypeOK, NEW p \in Launch, UiStep(p)
  PROVE  /\ run[p] = "owner" /\ UNCHANGED <<lock, run>>
         /\ \/ UNCHANGED <<host, phase>>
            \/ \E t \in Turn :
                 /\ phase[t] = "unborn"
                 /\ phase' = [phase EXCEPT ![t] = "round"]
                 /\ host' = [host EXCEPT ![t] = p]
BY DEF UiStep, AtUi, BeginTurn, PollTop, RepositoryChanged, UiTerminal, Withdraw,
       NewConversationRevoke, NewConversationCancel, mem

\* A worker's step moves on within a live phase, or ends the worker.
LEMMA WorkerShape ==
  ASSUME TypeOK, NEW t \in Turn, Worker(t) \/ Transmit(t)
  PROVE  /\ Live(t) /\ UNCHANGED <<run, host>>
         /\ \/ WorkerEnds(t)
            \/ /\ UNCHANGED lock
               /\ \E q \in Phases \ {"unborn", "done"} : phase' = [phase EXCEPT ![t] = q]
<1>0. UNCHANGED phase => phase' = [phase EXCEPT ![t] = phase[t]]
  BY DEF TypeOK
<1>1. CASE Transmit(t)
  BY <1>0, <1>1 DEF Transmit, mem, Live, Phases
<1>2. CASE RoundStep(t)
  BY <1>2 DEF RoundStep, RoundStops, SendPlain, ToolsExecuted, Live, Phases
<1>3. CASE AuthorizeStep(t)
  <2>1. ASSUME NEW c \in Call, NEW r \in Receipt, SealResult(t, c, r)
        PROVE  Live(t) /\ UNCHANGED <<run, host, lock, phase>>
    BY <2>1 DEF SealResult, mem, Live
  <2>2. ASSUME NEW b \in Body, BeginAuthorize(t, b)
        PROVE  Live(t) /\ UNCHANGED <<run, host, lock>>
               /\ phase' = [phase EXCEPT ![t] = "authorize"]
    BY <2>2 DEF BeginAuthorize, Live
  <2>3. CASE SealRefused(t)
    BY <2>3 DEF SealRefused, Live
  <2>4. CASE Authorized(t)
    BY <2>4 DEF Authorized, Live, Phases
  <2>5. "authorize" \in Phases \ {"unborn", "done"}
    BY DEF Phases
  <2>6. Live(t) => phase[t] \in Phases \ {"unborn", "done"}
    BY DEF Live, TypeOK
  <2> QED
    BY <1>0, <1>3, <2>1, <2>2, <2>3, <2>4, <2>5, <2>6 DEF AuthorizeStep
<1>4. CASE SendStep(t)
  BY <1>4 DEF SendStep, CheckAuthorized, CheckCancelled, PollToken, StartSend, SelectCancelled,
              SendFails, Response, Abandon, Live, Phases
<1> QED
  BY <1>1, <1>2, <1>3, <1>4 DEF Worker

\* Every step keeps the lock with the launch whose workers hold the storage.
LEMMA OwnershipStep == TypeOK /\ Ownership /\ [Next]_vars => Ownership'
<1> SUFFICES ASSUME TypeOK, Ownership, [Next]_vars PROVE Ownership'
  OBVIOUS
<1>1. ASSUME NEW p \in Launch, LaunchStep(p) PROVE Ownership'
  <2> USE NoneAssumption DEF TypeOK, Ownership, Live, ui, mem
  <2>1. CASE AcquireLock(p)
    BY <1>1, <2>1 DEF AcquireLock
  <2>2. CASE OpenFails(p)
    BY <1>1, <2>2 DEF OpenFails
  <2>3. CASE Recover(p)
    BY <1>1, <2>3 DEF Recover
  <2>4. CASE Close(p)
    BY <1>1, <2>4 DEF Close, LockAfter, Workers
  <2>5. CASE Crash(p)
    BY <1>1, <2>5 DEF Crash, Workers
  <2> QED
    BY <1>1, <2>1, <2>2, <2>3, <2>4, <2>5 DEF LaunchStep
<1>2. ASSUME NEW p \in Launch, UiStep(p) PROVE Ownership'
  BY <1>2, UiShape DEF TypeOK, Ownership, Live
<1>3. ASSUME NEW t \in Turn, Worker(t) \/ Transmit(t) PROVE Ownership'
  <2>1. CASE WorkerEnds(t)
    BY <1>3, <2>1, WorkerShape DEF TypeOK, Ownership, Live, WorkerEnds, LockAfter, Workers
  <2>2. CASE ~WorkerEnds(t)
    BY <1>3, <2>2, WorkerShape DEF TypeOK, Ownership, Live
  <2> QED
    BY <2>1, <2>2
<1>4. CASE UNCHANGED vars
  BY <1>4 DEF vars, mem, Ownership, Live
<1> QED
  BY <1>1, <1>2, <1>3, <1>4 DEF Next

-----------------------------------------------------------------------------
(* What a step can do to the receipts and to the network.                   *)

\* Nothing, while no worker gets nearer to the network than its approval allows.
Quiet ==
  /\ UNCHANGED <<status, seal, carried, body, wire>>
  /\ answered \subseteq answered'
  /\ \A t \in Turn :
       /\ phase'[t] \in OpenPhases => phase[t] \in OpenPhases
       /\ phase'[t] \in ApprovedPhases => phase[t] \in ApprovedPhases \/ Unsealed(t) = {}
       /\ phase'[t] \in UnsentPhases => phase[t] \in UnsentPhases
       /\ phase'[t] = "unborn" => phase[t] = "unborn"
       /\ phase[t] # "unborn" => host'[t] = host[t]
  /\ \A p \in Launch : run'[p] = "owner" => run[p] = "owner"

\* The batch of one open round is closed, in a way its phase allows.
Closing(t) ==
  /\ phase[t] \in OpenPhases
  /\ \E s \in {"Sent", "Failed", "OutcomeUnknown"} :
       /\ CasBatch(Batch(t), s)
       /\ s = "Failed" => phase[t] \in UnsentPhases
       /\ s = "Sent" => body[t] \in answered'
  /\ \E q \in {"stream", "done"} : phase' = [phase EXCEPT ![t] = q]
  /\ answered \subseteq answered'
  /\ UNCHANGED <<seal, carried, body, wire, host, run>>

\* A round that is given up leaves its batch as it was or closes it once.
LEMMA AbandonShape ==
  ASSUME TypeOK, NEW t \in Turn, NEW s \in {"Sent", "Failed", "OutcomeUnknown"},
         Abandon(t, s), phase[t] \in OpenPhases,
         s = "Failed" => phase[t] \in UnsentPhases,
         s # "Sent"
  PROVE  Quiet \/ Closing(t)
<1>1. /\ phase' = [phase EXCEPT ![t] = "done"]
      /\ UNCHANGED <<seal, carried, body, wire, answered, host, run>>
  BY DEF Abandon, WorkerEnds, net
<1>2. \/ UNCHANGED status
      \/ CasBatch(Batch(t), s)
      \/ CasBatch(Batch(t), "OutcomeUnknown")
  BY DEF Abandon, FinishBatch
<1>3. CASE UNCHANGED status
  BY <1>1, <1>3 DEF Quiet, TypeOK, OpenPhases, ApprovedPhases, UnsentPhases
<1>4. CASE CasBatch(Batch(t), s) \/ CasBatch(Batch(t), "OutcomeUnknown")
  BY <1>1, <1>4 DEF Closing
<1> QED
  BY <1>2, <1>3, <1>4

\* What the step of a worker may do to the receipts.
LEMMA WorkerLedger ==
  ASSUME TypeOK, NEW t \in Turn, Worker(t)
  PROVE  \/ Quiet \/ Closing(t)
         \/ \E b \in Body : BeginAuthorize(t, b)
         \/ \E c \in Call, r \in Receipt : SealResult(t, c, r)
<1> USE DEF OpenPhases, ApprovedPhases, UnsentPhases
<1>1. CASE RoundStep(t)
  BY <1>1 DEF RoundStep, RoundStops, SendPlain, ToolsExecuted, WorkerEnds, net, durable,
              Quiet, TypeOK
<1>2. CASE SealRefused(t)
  <2>1. /\ phase[t] = "authorize"
        /\ phase' = [phase EXCEPT ![t] = "done"]
        /\ UNCHANGED <<seal, carried, body, wire, answered, host, run>>
    BY <1>2 DEF SealRefused, WorkerEnds, net
  <2>2. CASE UNCHANGED status
    BY <2>1, <2>2 DEF Quiet, TypeOK
  <2>3. CASE CasBatch(Batch(t), "Failed")
    BY <2>1, <2>3 DEF Closing
  <2> QED
    BY <1>2, <2>2, <2>3 DEF SealRefused, FailPrepared
<1>3. CASE Authorized(t)
  BY <1>3 DEF Authorized, net, durable, Quiet, TypeOK
<1>4. CASE CheckAuthorized(t)
  <2>1. CASE Abandon(t, "Failed")
    BY <1>4, <2>1, AbandonShape DEF CheckAuthorized
  <2>2. CASE ~Abandon(t, "Failed")
    BY <1>4, <2>2 DEF CheckAuthorized, net, durable, Quiet, TypeOK
  <2> QED
    BY <2>1, <2>2
<1>5. CASE CheckCancelled(t)
  <2>1. CASE Abandon(t, "Failed")
    BY <1>5, <2>1, AbandonShape DEF CheckCancelled
  <2>2. CASE ~Abandon(t, "Failed")
    BY <1>5, <2>2 DEF CheckCancelled, net, durable, Quiet, TypeOK
  <2> QED
    BY <2>1, <2>2
<1>6. CASE PollToken(t) \/ StartSend(t)
  BY <1>6 DEF PollToken, StartSend, net, durable, Quiet, TypeOK
<1>7. CASE SelectCancelled(t) \/ SendFails(t)
  BY <1>7, AbandonShape DEF SelectCancelled, SendFails
<1>8. CASE Response(t)
  <2>1. /\ phase[t] = "inflight"
        /\ answered' = answered \cup {body[t]}
        /\ \E q \in {"stream", "done"} : phase' = [phase EXCEPT ![t] = q]
        /\ UNCHANGED <<seal, carried, body, wire, host, run>>
    BY <1>8 DEF Response, WorkerEnds
  <2>2. \/ UNCHANGED status
        \/ CasBatch(Batch(t), "Sent")
        \/ CasBatch(Batch(t), "OutcomeUnknown")
    BY <1>8 DEF Response, FinishBatch
  <2>3. CASE UNCHANGED status
    BY <2>1, <2>3 DEF Quiet, TypeOK
  <2>4. CASE CasBatch(Batch(t), "Sent") \/ CasBatch(Batch(t), "OutcomeUnknown")
    BY <2>1, <2>4 DEF Closing
  <2> QED
    BY <2>2, <2>3, <2>4
<1> QED
  BY <1>1, <1>2, <1>3, <1>4, <1>5, <1>6, <1>7, <1>8 DEF Worker, AuthorizeStep, SendStep

\* What any step may do to the receipts: the case split of every later lemma.
LEMMA LedgerShape ==
  ASSUME TypeOK, [Next]_vars
  PROVE  \/ Quiet
         \/ \E p \in Launch : Recover(p)
         \/ \E t \in Turn : \/ Closing(t) \/ Transmit(t)
                            \/ \E b \in Body : BeginAuthorize(t, b)
                            \/ \E c \in Call, r \in Receipt : SealResult(t, c, r)
<1>1. ASSUME NEW p \in Launch, LaunchStep(p), ~Recover(p) PROVE Quiet
  <2>1. UNCHANGED <<status, seal, carried, body, wire, answered>>
    BY <1>1 DEF LaunchStep, AcquireLock, OpenFails, Close, Crash, mem, durable, net
  <2>2. CASE AcquireLock(p) \/ OpenFails(p) \/ Close(p)
    BY <1>1, <2>1, <2>2 DEF AcquireLock, OpenFails, Close, mem, durable, net, Quiet,
                TypeOK, OpenPhases, ApprovedPhases, UnsentPhases
  <2>3. CASE Crash(p)
    BY <1>1, <2>1, <2>3 DEF Crash, mem, durable, net, Quiet,
                TypeOK, OpenPhases, ApprovedPhases, UnsentPhases
  <2> QED
    BY <1>1, <2>2, <2>3 DEF LaunchStep
<1>2. ASSUME NEW p \in Launch, UiStep(p) PROVE Quiet
  <2>1. UNCHANGED <<status, seal, carried, body, wire, answered>>
    BY <1>2 DEF UiStep, BeginTurn, PollTop, RepositoryChanged, UiTerminal, Withdraw,
                NewConversationRevoke, NewConversationCancel, mem, durable, net
  <2> QED
    BY <1>2, <2>1, UiShape DEF Quiet, TypeOK, OpenPhases, ApprovedPhases, UnsentPhases
<1>3. CASE UNCHANGED vars
  BY <1>3 DEF vars, mem, durable, net, Quiet
<1> QED
  BY <1>1, <1>2, <1>3, WorkerLedger DEF Next

-----------------------------------------------------------------------------
(* The parts of the invariant, each over the shapes of a step.              *)

\* Every step keeps the bodies of the turns apart.
LEMMA BodiesStep == TypeOK /\ Bodies /\ [Next]_vars => Bodies'
<1> SUFFICES ASSUME TypeOK, Bodies, [Next]_vars PROVE Bodies'
  OBVIOUS
<1> USE NoneAssumption DEF Bodies, OpenPhases
<1>1. CASE Quiet
  BY <1>1 DEF Quiet
<1>2. ASSUME NEW p \in Launch, Recover(p) PROVE Bodies'
  BY <1>2 DEF Recover, mem, net
<1>3. ASSUME NEW t \in Turn, Closing(t) PROVE Bodies'
  BY <1>3 DEF Closing, TypeOK
<1>4. ASSUME NEW t \in Turn, Transmit(t) PROVE Bodies'
  BY <1>4 DEF Transmit, mem
<1>5. ASSUME NEW t \in Turn, NEW b \in Body, BeginAuthorize(t, b) PROVE Bodies'
  BY <1>5 DEF BeginAuthorize, TypeOK, net
<1>6. ASSUME NEW t \in Turn, NEW c \in Call, NEW r \in Receipt, SealResult(t, c, r)
      PROVE  Bodies'
  BY <1>6 DEF SealResult, mem, net
<1> QED
  BY <1>1, <1>2, <1>3, <1>4, <1>5, <1>6, LedgerShape

\* Every step keeps the receipts bound to a body and a result of it.
LEMMA ReceiptsStep == TypeOK /\ Bodies /\ Receipts /\ [Next]_vars => Receipts'
<1> SUFFICES ASSUME TypeOK, Bodies, Receipts, [Next]_vars PROVE Receipts'
  OBVIOUS
<1>1. CASE Quiet
  BY <1>1 DEF Quiet, Receipts, Seals
<1>2. ASSUME NEW p \in Launch, Recover(p) PROVE Receipts'
  BY <1>2 DEF Recover, mem, TypeOK, Receipts
<1>3. ASSUME NEW t \in Turn, Closing(t) PROVE Receipts'
  BY <1>3 DEF Closing, CasBatch, OpenPhases, TypeOK, Receipts, Seals
<1>4. ASSUME NEW t \in Turn, Transmit(t) PROVE Receipts'
  BY <1>4 DEF Transmit, mem, durable, Receipts
<1>5. ASSUME NEW t \in Turn, NEW b \in Body, BeginAuthorize(t, b) PROVE Receipts'
  BY <1>5 DEF BeginAuthorize, TypeOK, durable, Receipts, Seals
<1>6. ASSUME NEW t \in Turn, NEW c \in Call, NEW r \in Receipt, SealResult(t, c, r)
      PROVE  Receipts'
  BY <1>6 DEF SealResult, mem, TypeOK, Bodies, OpenPhases, Receipts, Seals
<1> QED
  BY <1>1, <1>2, <1>3, <1>4, <1>5, <1>6, LedgerShape

\* Every step keeps the receipts about results of their body.
LEMMA OfItsBodyStep == TypeOK /\ Bodies /\ Receipts /\ OfItsBody /\ [Next]_vars => OfItsBody'
<1> SUFFICES ASSUME TypeOK, Bodies, Receipts, OfItsBody, [Next]_vars PROVE OfItsBody'
  OBVIOUS
<1>1. CASE Quiet
  BY <1>1 DEF Quiet, OfItsBody
<1>2. ASSUME NEW p \in Launch, Recover(p) PROVE OfItsBody'
  BY <1>2 DEF Recover, TypeOK, OfItsBody
<1>3. ASSUME NEW t \in Turn, Closing(t) PROVE OfItsBody'
  BY <1>3 DEF Closing, CasBatch, TypeOK, OfItsBody
<1>4. ASSUME NEW t \in Turn, Transmit(t) PROVE OfItsBody'
  BY <1>4 DEF Transmit, durable, OfItsBody
<1>5. ASSUME NEW t \in Turn, NEW b \in Body, BeginAuthorize(t, b) PROVE OfItsBody'
  BY <1>5 DEF BeginAuthorize, TypeOK, durable, Receipts, OfItsBody, Seals
<1>6. ASSUME NEW t \in Turn, NEW c \in Call, NEW r \in Receipt, SealResult(t, c, r)
      PROVE  OfItsBody'
  BY <1>6 DEF SealResult, TypeOK, Unsealed, OfItsBody
<1> QED
  BY <1>1, <1>2, <1>3, <1>4, <1>5, <1>6, LedgerShape

\* Every step keeps an approved body sealed in full.
LEMMA ApprovedStep == TypeOK /\ Bodies /\ Receipts /\ Approved /\ [Next]_vars => Approved'
<1> SUFFICES ASSUME TypeOK, Bodies, Receipts, Approved, [Next]_vars PROVE Approved'
  OBVIOUS
<1> USE DEF Approved
<1>1. CASE Quiet
  <2>1. \A t \in Turn : Unsealed(t)' = Unsealed(t)
    BY <1>1 DEF Quiet, Unsealed, Batch
  <2> QED
    BY <1>1, <2>1 DEF Quiet
<1>2. ASSUME NEW p \in Launch, Recover(p) PROVE Approved'
  <2>1. \A t \in Turn : Batch(t)' = Batch(t)
    BY <1>2 DEF Recover, mem, TypeOK, Batch
  <2>2. \A t \in Turn : Unsealed(t)' = Unsealed(t)
    BY <1>2, <2>1 DEF Recover, mem, Unsealed
  <2> QED
    BY <1>2, <2>2 DEF Recover, mem, net
<1>3. ASSUME NEW t \in Turn, Closing(t) PROVE Approved'
  <2>1. \A u \in Turn : Batch(u)' = Batch(u)
    BY <1>3 DEF Closing, CasBatch, TypeOK, Batch
  <2>2. \A u \in Turn : Unsealed(u)' = Unsealed(u)
    BY <1>3, <2>1 DEF Closing, Unsealed
  <2> QED
    BY <1>3, <2>2 DEF Closing, TypeOK, ApprovedPhases, UnsentPhases
<1>4. ASSUME NEW t \in Turn, Transmit(t) PROVE Approved'
  <2>1. \A u \in Turn : Unsealed(u)' = Unsealed(u)
    BY <1>4 DEF Transmit, mem, durable, Unsealed, Batch
  <2>2. \A u \in Turn : phase'[u] \in UnsentPhases => body'[u] \notin wire'
    BY <1>4 DEF Transmit, mem, UnsentPhases, OpenPhases, Bodies
  <2> QED
    BY <1>4, <2>1, <2>2 DEF Transmit, mem
<1>5. ASSUME NEW t \in Turn, NEW b \in Body, BeginAuthorize(t, b) PROVE Approved'
  <2>1. \A u \in Turn \ {t} : phase'[u] = phase[u] /\ body'[u] = body[u]
    BY <1>5 DEF BeginAuthorize, TypeOK
  <2>2. ASSUME NEW u \in Turn \ {t}, phase[u] \in ApprovedPhases
        PROVE  Unsealed(u)' = Unsealed(u)
    <3>1. body[u] \in Body /\ carried'[body[u]] = carried[body[u]]
      BY <1>5, <2>2 DEF BeginAuthorize, TypeOK, ApprovedPhases, OpenPhases, Bodies
    <3>2. Batch(u)' = Batch(u)
      BY <1>5, <2>1 DEF BeginAuthorize, durable, Batch
    <3> QED
      BY <1>5, <2>1, <3>1, <3>2 DEF BeginAuthorize, durable, Unsealed
  <2>3. phase'[t] = "authorize" /\ body'[t] \notin wire' /\ wire' = wire
    BY <1>5 DEF BeginAuthorize, TypeOK, net, Bodies
  <2> QED
    BY <2>1, <2>2, <2>3 DEF ApprovedPhases
<1>6. ASSUME NEW t \in Turn, NEW c \in Call, NEW r \in Receipt, SealResult(t, c, r)
      PROVE  Approved'
  <2>1. ASSUME NEW u \in Turn, Unsealed(u) = {} PROVE Unsealed(u)' = {}
    <3>1. \A q \in Batch(u) : q \in Batch(u)' /\ seal'[q] = seal[q]
      BY <1>6 DEF SealResult, mem, TypeOK, Batch
    <3>2. carried'[body'[u]] = carried[body[u]]
      BY <1>6 DEF SealResult, mem
    <3> QED
      BY <2>1, <3>1, <3>2 DEF Unsealed
  <2> QED
    BY <1>6, <2>1 DEF SealResult, mem, net
<1> QED
  BY <1>1, <1>2, <1>3, <1>4, <1>5, <1>6, LedgerShape

\* A receipt closes with its whole batch, and its batch is open until then.
LEMMA LivePreparedStep ==
  TypeOK /\ Bodies /\ Receipts /\ Ownership /\ LiveBatchPrepared /\ [Next]_vars
    => LiveBatchPrepared'
<1> SUFFICES ASSUME TypeOK, Bodies, Receipts, Ownership, LiveBatchPrepared, [Next]_vars
             PROVE  LiveBatchPrepared'
  OBVIOUS
<1> USE DEF LiveBatchPrepared, Batch
<1>1. CASE Quiet
  BY <1>1 DEF Quiet, OpenPhases
\* No worker is live while a launch recovers: the lock would be its own.
<1>2. ASSUME NEW p \in Launch, Recover(p) PROVE LiveBatchPrepared'
  BY <1>2 DEF Recover, mem, Ownership, Live
<1>3. ASSUME NEW t \in Turn, Closing(t) PROVE LiveBatchPrepared'
  BY <1>3 DEF Closing, CasBatch, TypeOK, OpenPhases, Bodies
<1>4. ASSUME NEW t \in Turn, Transmit(t) PROVE LiveBatchPrepared'
  BY <1>4 DEF Transmit, mem, durable
<1>5. ASSUME NEW t \in Turn, NEW b \in Body, BeginAuthorize(t, b) PROVE LiveBatchPrepared'
  BY <1>5 DEF BeginAuthorize, TypeOK, durable, Receipts
<1>6. ASSUME NEW t \in Turn, NEW c \in Call, NEW r \in Receipt, SealResult(t, c, r)
      PROVE  LiveBatchPrepared'
  BY <1>6 DEF SealResult, mem, TypeOK
<1> QED
  BY <1>1, <1>2, <1>3, <1>4, <1>5, <1>6, LedgerShape

\* No step closes a body Failed that is on the wire, or transmits a Failed one.
LEMMA FailedStep ==
  TypeOK /\ Bodies /\ Approved /\ LiveBatchPrepared /\ FailedNeverSent /\ [Next]_vars
    => FailedNeverSent'
<1> SUFFICES ASSUME TypeOK, Bodies, Approved, LiveBatchPrepared, FailedNeverSent, [Next]_vars
             PROVE  FailedNeverSent'
  OBVIOUS
<1> USE DEF FailedNeverSent
<1>1. CASE Quiet
  BY <1>1 DEF Quiet
<1>2. ASSUME NEW p \in Launch, Recover(p) PROVE FailedNeverSent'
  BY <1>2 DEF Recover, net, TypeOK
\* Failed is chosen before the send only.
<1>3. ASSUME NEW t \in Turn, Closing(t) PROVE FailedNeverSent'
  BY <1>3 DEF Closing, CasBatch, Batch, TypeOK, Approved
\* What is transmitted has an open batch, so none of its receipts is Failed.
<1>4. ASSUME NEW t \in Turn, Transmit(t) PROVE FailedNeverSent'
  BY <1>4 DEF Transmit, durable, LiveBatchPrepared, Batch
<1>5. ASSUME NEW t \in Turn, NEW b \in Body, BeginAuthorize(t, b) PROVE FailedNeverSent'
  BY <1>5 DEF BeginAuthorize, durable, net
<1>6. ASSUME NEW t \in Turn, NEW c \in Call, NEW r \in Receipt, SealResult(t, c, r)
      PROVE  FailedNeverSent'
  BY <1>6 DEF SealResult, net, TypeOK
<1> QED
  BY <1>1, <1>2, <1>3, <1>4, <1>5, <1>6, LedgerShape

\* No step closes a body Sent that was not answered.
LEMMA SentStep == TypeOK /\ SentWasAnswered /\ [Next]_vars => SentWasAnswered'
<1> SUFFICES ASSUME TypeOK, SentWasAnswered, [Next]_vars PROVE SentWasAnswered'
  OBVIOUS
<1> USE DEF SentWasAnswered
<1>1. CASE Quiet
  BY <1>1 DEF Quiet
<1>2. ASSUME NEW p \in Launch, Recover(p) PROVE SentWasAnswered'
  BY <1>2 DEF Recover, net, TypeOK
<1>3. ASSUME NEW t \in Turn, Closing(t) PROVE SentWasAnswered'
  BY <1>3 DEF Closing, CasBatch, Batch, TypeOK
<1>4. ASSUME NEW t \in Turn, Transmit(t) PROVE SentWasAnswered'
  BY <1>4 DEF Transmit, durable
<1>5. ASSUME NEW t \in Turn, NEW b \in Body, BeginAuthorize(t, b) PROVE SentWasAnswered'
  BY <1>5 DEF BeginAuthorize, durable, net
<1>6. ASSUME NEW t \in Turn, NEW c \in Call, NEW r \in Receipt, SealResult(t, c, r)
      PROVE  SentWasAnswered'
  BY <1>6 DEF SealResult, net, TypeOK
<1> QED
  BY <1>1, <1>2, <1>3, <1>4, <1>5, <1>6, LedgerShape

\* No step separates the receipts of one body.
LEMMA AgreesStep ==
  TypeOK /\ Bodies /\ LiveBatchPrepared /\ BodyAgrees /\ [Next]_vars => BodyAgrees'
<1> SUFFICES ASSUME TypeOK, Bodies, LiveBatchPrepared, BodyAgrees, [Next]_vars
             PROVE  BodyAgrees'
  OBVIOUS
<1> USE DEF BodyAgrees
<1>1. CASE Quiet
  BY <1>1 DEF Quiet
<1>2. ASSUME NEW p \in Launch, Recover(p) PROVE BodyAgrees'
  BY <1>2 DEF Recover, TypeOK
<1>3. ASSUME NEW t \in Turn, Closing(t) PROVE BodyAgrees'
  <2>1. PICK s \in {"Sent", "Failed", "OutcomeUnknown"} :
          status' = [q \in Receipt |-> IF q \in Batch(t) THEN s ELSE status[q]]
    BY <1>3 DEF Closing, CasBatch
  <2>2. seal' = seal
    BY <1>3 DEF Closing
  <2>3. \A q \in Receipt : status'[q] # "Absent" => status[q] # "Absent"
    BY <2>1 DEF Batch
  <2>4. \A q, r \in Receipt : status[q] # "Absent" /\ seal[q].body = seal[r].body
          /\ r \in Batch(t) => q \in Batch(t)
    BY DEF Batch
  <2> QED
    BY <2>1, <2>2, <2>3, <2>4
<1>4. ASSUME NEW t \in Turn, Transmit(t) PROVE BodyAgrees'
  BY <1>4 DEF Transmit, durable
<1>5. ASSUME NEW t \in Turn, NEW b \in Body, BeginAuthorize(t, b) PROVE BodyAgrees'
  BY <1>5 DEF BeginAuthorize, durable
\* The new receipt is Prepared, and so are the others of an open batch.
<1>6. ASSUME NEW t \in Turn, NEW c \in Call, NEW r \in Receipt, SealResult(t, c, r)
      PROVE  BodyAgrees'
  <2>1. \A q \in Receipt : status[q] # "Absent" /\ seal[q].body = body[t]
          => status[q] = "Prepared"
    BY <1>6 DEF SealResult, LiveBatchPrepared, Batch
  <2>2. \A q \in Receipt \ {r} : status'[q] = status[q] /\ seal'[q] = seal[q]
    BY <1>6 DEF SealResult, TypeOK
  <2>3. status'[r] = "Prepared" /\ seal'[r].body = body[t]
    BY <1>6 DEF SealResult, TypeOK
  <2> QED
    BY <2>1, <2>2, <2>3
<1> QED
  BY <1>1, <1>2, <1>3, <1>4, <1>5, <1>6, LedgerShape

\* No step puts an unsealed body on the wire or unseals one that is there.
LEMMA SealedStep ==
  TypeOK /\ Bodies /\ Approved /\ LiveBatchPrepared /\ WireIsSealed /\ [Next]_vars
    => WireIsSealed'
<1> SUFFICES ASSUME TypeOK, Bodies, Approved, LiveBatchPrepared, WireIsSealed, [Next]_vars
             PROVE  WireIsSealed'
  OBVIOUS
<1> USE DEF WireIsSealed
<1>1. CASE Quiet
  BY <1>1 DEF Quiet
<1>2. ASSUME NEW p \in Launch, Recover(p) PROVE WireIsSealed'
  BY <1>2 DEF Recover, net, TypeOK
\* A batch on the network is not closed as Failed.
<1>3. ASSUME NEW t \in Turn, Closing(t) PROVE WireIsSealed'
  <2>1. PICK s \in {"Sent", "Failed", "OutcomeUnknown"} :
          /\ status' = [q \in Receipt |-> IF q \in Batch(t) THEN s ELSE status[q]]
          /\ s = "Failed" => phase[t] \in UnsentPhases
    BY <1>3 DEF Closing, CasBatch
  <2>2. UNCHANGED <<seal, carried, wire>>
    BY <1>3 DEF Closing
  <2>3. s = "Failed" => body[t] \notin wire
    BY <2>1 DEF Approved
  <2>4. \A b \in wire : \A q \in Receipt : q \in Batch(t) /\ seal[q].body = b => s # "Failed"
    BY <2>3 DEF Batch
  <2>5. \A q \in Receipt : status'[q] = IF q \in Batch(t) THEN s ELSE status[q]
    BY <2>1
  <2> QED
    BY <2>2, <2>4, <2>5
\* What is transmitted is sealed in full and its batch is open.
<1>4. ASSUME NEW t \in Turn, Transmit(t) PROVE WireIsSealed'
  <2>1. \A c \in carried[body[t]] : \E q \in Receipt :
          seal[q].body = body[t] /\ seal[q].call = c /\ status[q] = "Prepared"
    BY <1>4 DEF Transmit, Approved, ApprovedPhases, Unsealed, Batch, LiveBatchPrepared
  <2> QED
    BY <1>4, <2>1 DEF Transmit, durable
<1>5. ASSUME NEW t \in Turn, NEW b \in Body, BeginAuthorize(t, b) PROVE WireIsSealed'
  BY <1>5 DEF BeginAuthorize, durable, net, TypeOK, Bodies
<1>6. ASSUME NEW t \in Turn, NEW c \in Call, NEW r \in Receipt, SealResult(t, c, r)
      PROVE  WireIsSealed'
  <2>1. \A q \in Receipt \ {r} : status'[q] = status[q] /\ seal'[q] = seal[q]
    BY <1>6 DEF SealResult, TypeOK
  <2>2. status[r] = "Absent" /\ UNCHANGED <<carried, wire>>
    BY <1>6 DEF SealResult, net
  <2> QED
    BY <2>1, <2>2
<1> QED
  BY <1>1, <1>2, <1>3, <1>4, <1>5, <1>6, LedgerShape

\* An open receipt belongs to the launch that holds the lock: only it writes
\* receipts, and taking the lock ends with none open.
LEMMA RecoveredStep ==
  TypeOK /\ Bodies /\ Receipts /\ Ownership /\ RecoveredClean /\ [Next]_vars
    => RecoveredClean'
<1> SUFFICES ASSUME TypeOK, Bodies, Receipts, Ownership, RecoveredClean, [Next]_vars
             PROVE  RecoveredClean'
  OBVIOUS
<1> USE DEF RecoveredClean
<1>1. CASE Quiet
  BY <1>1 DEF Quiet, Receipts, Seals
<1>2. ASSUME NEW p \in Launch, Recover(p) PROVE RecoveredClean'
  <2>1. \A r \in Receipt : status'[r] # "Prepared"
    BY <1>2 DEF Recover
  <2> QED
    BY <2>1
<1>3. ASSUME NEW t \in Turn, Closing(t) PROVE RecoveredClean'
  <2>1. \A r \in Receipt : status'[r] = "Prepared" => status[r] = "Prepared"
    BY <1>3 DEF Closing, CasBatch
  <2> QED
    BY <1>3, <2>1 DEF Closing
<1>4. ASSUME NEW t \in Turn, Transmit(t) PROVE RecoveredClean'
  BY <1>4 DEF Transmit, mem, durable
<1>5. ASSUME NEW t \in Turn, NEW b \in Body, BeginAuthorize(t, b) PROVE RecoveredClean'
  BY <1>5 DEF BeginAuthorize, durable
<1>6. ASSUME NEW t \in Turn, NEW c \in Call, NEW r \in Receipt, SealResult(t, c, r)
      PROVE  RecoveredClean'
  <2>1. \A p \in Launch : run[p] = "owner" => host[t] = p
    BY <1>6 DEF SealResult, Ownership, Live
  <2>2. \A q \in Receipt \ {r} : status'[q] = status[q] /\ seal'[q] = seal[q]
    BY <1>6 DEF SealResult, TypeOK
  <2>3. seal'[r].turn = t
    BY <1>6 DEF SealResult, TypeOK
  <2> QED
    BY <1>6, <2>1, <2>2, <2>3 DEF SealResult, mem
<1> QED
  BY <1>1, <1>2, <1>3, <1>4, <1>5, <1>6, LedgerShape

-----------------------------------------------------------------------------
(* The theorems.                                                            *)

\* The inductive invariant.
THEOREM Inductive == Spec => []IInv
<1>1. Init => IInv
  <2> SUFFICES ASSUME Init PROVE IInv
    OBVIOUS
  <2>1. TypeOK
    BY TypeInit
  <2>2. Bodies /\ Receipts /\ OfItsBody /\ Approved
    BY NoneAssumption DEF Init, Bodies, OpenPhases, Receipts, OfItsBody, Approved, ApprovedPhases, UnsentPhases
  <2>3. Ownership /\ LiveBatchPrepared /\ RecoveredClean
    BY DEF Init, Ownership, Live, LiveBatchPrepared, RecoveredClean
  <2>4. FailedNeverSent /\ SentWasAnswered /\ WireIsSealed /\ BodyAgrees
    BY DEF Init, FailedNeverSent, SentWasAnswered, WireIsSealed, BodyAgrees
  <2> QED
    BY <2>1, <2>2, <2>3, <2>4 DEF IInv
<1>2. IInv /\ [Next]_vars => IInv'
  BY TypeStep, BodiesStep, ReceiptsStep, OfItsBodyStep, ApprovedStep, OwnershipStep,
     LivePreparedStep, FailedStep, SentStep, AgreesStep, SealedStep, RecoveredStep DEF IInv
<1> QED
  BY <1>1, <1>2, PTL DEF Spec

\* Every variable, durable or in memory, keeps its type.
THEOREM TypeInvariant == Spec => []TypeOK
<1>1. IInv => TypeOK
  BY DEF IInv
<1> QED
  BY <1>1, Inductive, PTL

\* A receipt closed Failed is true: no byte of its body left (fail_prepared and
\* the finish(Failed) of the adapters).
THEOREM FailedTheorem == Spec => []FailedNeverSent
<1>1. IInv => FailedNeverSent
  BY DEF IInv
<1> QED
  BY <1>1, Inductive, PTL

\* A receipt closed Sent is true: the provider answered its body.
THEOREM SentTheorem == Spec => []SentWasAnswered
<1>1. IInv => SentWasAnswered
  BY DEF IInv
<1> QED
  BY <1>1, Inductive, PTL

\* No body reaches the network without a durable receipt for each of its results.
THEOREM SealedTheorem == Spec => []WireIsSealed
<1>1. IInv => WireIsSealed
  BY DEF IInv
<1> QED
  BY <1>1, Inductive, PTL

\* The receipts of a body are closed together (the batch compare-and-set).
THEOREM AgreesTheorem == Spec => []BodyAgrees
<1>1. IInv => BodyAgrees
  BY DEF IInv
<1> QED
  BY <1>1, Inductive, PTL

\* No launch closes the receipts of a request another launch is still making.
THEOREM LiveTheorem == Spec => []LiveBatchPrepared
<1>1. IInv => LiveBatchPrepared
  BY DEF IInv
<1> QED
  BY <1>1, Inductive, PTL

\* A launch that owns the storage finds none of its predecessors' receipts open.
THEOREM RecoveredTheorem == Spec => []RecoveredClean
<1>1. IInv => RecoveredClean
  BY DEF IInv
<1> QED
  BY <1>1, Inductive, PTL

\* What the receipts say is what happened on the network.
THEOREM NetworkTheorem == Spec => []ReceiptsMatchNetwork
<1>1. IInv => ReceiptsMatchNetwork
  BY DEF IInv, ReceiptsMatchNetwork
<1> QED
  BY <1>1, Inductive, PTL

\* Batches are opened and closed as one, by their own launch.
THEOREM OwnedTheorem == Spec => []BatchesAreOwned
<1>1. IInv => BatchesAreOwned
  BY DEF IInv, BatchesAreOwned
<1> QED
  BY <1>1, Inductive, PTL

-----------------------------------------------------------------------------
(* Recorded revocations and cancelled tokens.                               *)

Stopped(t) == cancelled[t] \/ ~Live(t)

\* What a launch remembers: the turn in stream_cancel is its own, and a scope in
\* active_consent_scope is of that turn or of one that is over.
Remembered ==
  /\ \A p \in Launch : active[p] # None =>
       host[active[p]] = p /\ phase[active[p]] # "unborn"
  /\ \A p \in Launch : appScope[p] # None =>
       /\ phase[appScope[p]] # "unborn"
       /\ appScope[p] = active[p] \/ Stopped(appScope[p])

SInv == TypeOK /\ Remembered /\ RevokedMeansStopped

\* What the step of a worker or the network does to consent and to the workers:
\* only a cancelled turn is revoked, and no ended worker comes back.
LEMMA WorkerStops ==
  ASSUME TypeOK, NEW t \in Turn, Worker(t) \/ Transmit(t)
  PROVE  /\ UNCHANGED <<run, ui, host, cancelled>>
         /\ \A u \in Turn : consent'[u] = "Revoked" => consent[u] = "Revoked" \/ cancelled[u]
         /\ \A u \in Turn : phase'[u] = "unborn" <=> phase[u] = "unborn"
         /\ \A u \in Turn : ~Live(u) => ~Live(u)'
<1>1. UNCHANGED <<run, ui, host, cancelled>>
  BY DEF Worker, RoundStep, RoundStops, SendPlain, ToolsExecuted, AuthorizeStep,
         BeginAuthorize, SealResult, SealRefused, Authorized, SendStep, CheckAuthorized,
         CheckCancelled, PollToken, StartSend, SelectCancelled, SendFails, Response, Abandon,
         Transmit, mem
<1>2. consent' = consent \/ RevokeIfCancelled(t)
  BY DEF Worker, RoundStep, RoundStops, SendPlain, ToolsExecuted, AuthorizeStep,
         BeginAuthorize, SealResult, SealRefused, Authorized, SendStep, CheckAuthorized,
         CheckCancelled, PollToken, StartSend, SelectCancelled, SendFails, Response, Abandon,
         FinishBatch, Transmit, durable
<1>3. \A u \in Turn : consent'[u] = "Revoked" => consent[u] = "Revoked" \/ cancelled[u]
  BY <1>2 DEF RevokeIfCancelled, TypeOK
<1>4. Live(t) /\ \E q \in Phases \ {"unborn"} : phase' = [phase EXCEPT ![t] = q]
  BY WorkerShape DEF WorkerEnds, Phases
<1> QED
  BY <1>1, <1>3, <1>4 DEF Live, TypeOK

\* The second half of start_new_conversation cancels the turn it forgets.
LEMMA CancelShape ==
  ASSUME TypeOK, NEW p \in Launch, NewConversationCancel(p)
  PROVE  /\ UNCHANGED <<lock, run, appScope, host, phase, consent>>
         /\ frame' = [frame EXCEPT ![p] = "open"]
         /\ active' = active \/ active' = [active EXCEPT ![p] = None]
         /\ \A u \in Turn : cancelled[u] => cancelled'[u]
         /\ active[p] # None => cancelled'[active[p]]
<1>1. \A u \in Turn : cancelled'[u] = (cancelled[u] \/ u = active[p])
  BY DEF NewConversationCancel
<1>2. active[p] # None => active[p] \in Turn
  BY DEF TypeOK
<1>3. \A u \in Turn : cancelled[u] => cancelled'[u]
  BY <1>1
<1>4. active[p] # None => cancelled'[active[p]]
  BY <1>1, <1>2
<1> QED
  BY <1>3, <1>4 DEF NewConversationCancel, durable

\* Every step keeps what a launch remembers to its own turns.
LEMMA RememberedStep == TypeOK /\ Remembered /\ [Next]_vars => Remembered'
<1> SUFFICES ASSUME TypeOK, Remembered, [Next]_vars PROVE Remembered'
  OBVIOUS
<1> USE NoneAssumption
<1>1. ASSUME NEW p \in Launch, LaunchStep(p) PROVE Remembered'
  <2> USE DEF TypeOK, Remembered, Stopped, Live, ui, mem
  <2>1. CASE AcquireLock(p) \/ OpenFails(p) \/ Recover(p)
    BY <1>1, <2>1 DEF AcquireLock, OpenFails, Recover
  <2>2. CASE Close(p)
    BY <2>2 DEF Close, ForgetUi
  <2>3. CASE Crash(p)
    BY <2>3 DEF Crash, ForgetUi, Workers
  <2> QED
    BY <1>1, <2>1, <2>2, <2>3 DEF LaunchStep
<1>2. ASSUME NEW p \in Launch, UiStep(p) PROVE Remembered'
  <2> USE DEF TypeOK, Remembered, Stopped, Live, mem
  <2>1. ASSUME NEW t \in Turn, BeginTurn(p, t) PROVE Remembered'
    BY <2>1 DEF BeginTurn
  <2>2. CASE PollTop(p)
    BY <2>2 DEF PollTop
  <2>3. CASE RepositoryChanged(p) \/ Withdraw(p)
    BY <2>3 DEF RepositoryChanged, Withdraw, ui
  <2>4. CASE UiTerminal(p)
    BY <2>4 DEF UiTerminal
  <2>5. CASE NewConversationRevoke(p)
    BY <2>5 DEF NewConversationRevoke
  <2>6. CASE NewConversationCancel(p)
    BY <2>6, CancelShape
  <2> QED
    BY <1>2, <2>1, <2>2, <2>3, <2>4, <2>5, <2>6 DEF UiStep
<1>3. ASSUME NEW t \in Turn, Worker(t) \/ Transmit(t) PROVE Remembered'
  BY <1>3, WorkerStops DEF Remembered, Stopped, ui, TypeOK
<1>4. CASE UNCHANGED vars
  BY <1>4 DEF vars, ui, mem, Remembered, Stopped, Live
<1> QED
  BY <1>1, <1>2, <1>3, <1>4 DEF Next

\* Every step keeps a revoked scope with a stopped worker, or with the window that
\* is about to cancel it.
LEMMA RevokedStep == SInv /\ [Next]_vars => RevokedMeansStopped'
<1> SUFFICES ASSUME SInv, [Next]_vars PROVE RevokedMeansStopped'
  OBVIOUS
<1> USE NoneAssumption DEF SInv
<1>1. ASSUME NEW p \in Launch, LaunchStep(p) PROVE RevokedMeansStopped'
  <2> USE DEF TypeOK, RevokedMeansStopped, BeingReplaced, Live, ui, mem, durable
  <2>1. CASE AcquireLock(p) \/ OpenFails(p) \/ Recover(p)
    BY <1>1, <2>1 DEF AcquireLock, OpenFails, Recover
  <2>2. CASE Close(p)
    BY <2>2 DEF Close, ForgetUi
  <2>3. CASE Crash(p)
    BY <2>3 DEF Crash, ForgetUi, Workers, Remembered
  <2> QED
    BY <1>1, <2>1, <2>2, <2>3 DEF LaunchStep
<1>2. ASSUME NEW p \in Launch, UiStep(p) PROVE RevokedMeansStopped'
  <2> USE DEF TypeOK, RevokedMeansStopped, BeingReplaced, Live, mem
  <2>1. ASSUME NEW t \in Turn, BeginTurn(p, t) PROVE RevokedMeansStopped'
    BY <2>1 DEF BeginTurn, AtUi
  <2>2. CASE PollTop(p)
    BY <2>2 DEF PollTop, Remembered, Stopped
  <2>3. CASE RepositoryChanged(p) \/ Withdraw(p)
    BY <2>3 DEF RepositoryChanged, Withdraw, AtUi, ui, durable
  <2>4. CASE UiTerminal(p)
    BY <2>4 DEF UiTerminal, AtUi, durable
  <2>5. CASE NewConversationRevoke(p)
    BY <2>5 DEF NewConversationRevoke, AtUi, Remembered, Stopped
  <2>6. CASE NewConversationCancel(p)
    BY <2>6, CancelShape
  <2> QED
    BY <1>2, <2>1, <2>2, <2>3, <2>4, <2>5, <2>6 DEF UiStep
<1>3. ASSUME NEW t \in Turn, Worker(t) \/ Transmit(t) PROVE RevokedMeansStopped'
  BY <1>3, WorkerStops DEF RevokedMeansStopped, BeingReplaced, ui
<1>4. CASE UNCHANGED vars
  BY <1>4 DEF vars, ui, mem, durable, RevokedMeansStopped, BeingReplaced, Live
<1> QED
  BY <1>1, <1>2, <1>3, <1>4 DEF Next

\* No worker goes on sending under a scope that is on record as revoked, except
\* within the one step of start_new_conversation that is about to cancel it.
THEOREM RevokedTheorem == Spec => []RevokedMeansStopped
<1>1. Init => SInv
  <2>1. Init => Remembered /\ RevokedMeansStopped
    BY DEF Init, Remembered, RevokedMeansStopped
  <2> QED
    BY <2>1, TypeInit DEF SInv
<1>2. IInv /\ SInv /\ [Next]_vars => SInv'
  BY TypeStep, RememberedStep, RevokedStep DEF IInv, SInv
<1> QED
  BY <1>1, <1>2, Inductive, PTL DEF Spec, SInv

-----------------------------------------------------------------------------
(* The receipts implement ReceiptLedger.                                    *)

\* Body b is recorded: it has a receipt for each result it carries.
Sealed(b) == carried[b] # {} /\ carried[b] = {seal[r].call : r \in Recorded(b)}

\* The record of a body is the status of any of its receipts, once it has them all.
RecordsMean ==
  \A b \in Body :
    /\ ~Sealed(b) => record[b] = "Unrecorded"
    /\ Sealed(b) => /\ \E r \in Recorded(b) : TRUE
                    /\ \A r \in Recorded(b) : record[b] = status[r]

\* It is, because the receipts of a body agree.
LEMMA RecordMeans == BodyAgrees => RecordsMean
<1> SUFFICES ASSUME BodyAgrees, NEW b \in Body
             PROVE  /\ ~Sealed(b) => record[b] = "Unrecorded"
                    /\ Sealed(b) => /\ \E r \in Recorded(b) : TRUE
                                    /\ \A r \in Recorded(b) : record[b] = status[r]
  BY DEF RecordsMean
<1>1. record[b] = IF Sealed(b) THEN status[CHOOSE r \in Recorded(b) : TRUE] ELSE "Unrecorded"
  BY DEF record, Sealed
<1>2. ASSUME Sealed(b) PROVE \E r \in Recorded(b) : TRUE
  BY <1>2 DEF Sealed
<1>3. ASSUME NEW r \in Recorded(b), NEW q \in Recorded(b) PROVE status[r] = status[q]
  BY DEF Recorded, BodyAgrees
<1>4. ASSUME NEW r \in Recorded(b) PROVE (CHOOSE q \in Recorded(b) : TRUE) \in Recorded(b)
  OBVIOUS
<1> QED
  BY <1>1, <1>2, <1>3, <1>4

\* The same of the state after a step.
LEMMA RecordMeansNext == BodyAgrees' => RecordsMean'
BY RecordMeans, PTL

\* A record is given by what it says of each body.
LEMMA RecordIsFunction ==
  record = [b \in Body |-> record[b]] /\ record' = [b \in Body |-> record'[b]]
BY DEF record

\* Headers only arrive for a body on the wire, in the step that ends its send.
LEMMA AnswerShape ==
  ASSUME TypeOK, [Next]_vars
  PROVE  \/ UNCHANGED answered
         \/ \E t \in Turn : /\ phase[t] = "inflight" /\ phase'[t] # "inflight"
                            /\ body[t] \in wire /\ answered' = answered \cup {body[t]}
<1>1. ASSUME NEW t \in Turn, Response(t)
      PROVE  /\ phase[t] = "inflight" /\ phase'[t] # "inflight"
             /\ body[t] \in wire /\ answered' = answered \cup {body[t]}
  BY <1>1 DEF Response, WorkerEnds, TypeOK
<1>2. ASSUME NEW p \in Launch, LaunchStep(p) \/ UiStep(p) PROVE UNCHANGED answered
  BY <1>2 DEF LaunchStep, AcquireLock, OpenFails, Recover, Close, Crash, UiStep, BeginTurn,
              PollTop, RepositoryChanged, UiTerminal, Withdraw, NewConversationRevoke,
              NewConversationCancel, net
<1>3. ASSUME NEW t \in Turn, Worker(t) \/ Transmit(t), ~Response(t) PROVE UNCHANGED answered
  BY <1>3 DEF Worker, RoundStep, RoundStops, SendPlain, ToolsExecuted, AuthorizeStep,
              BeginAuthorize, SealResult, SealRefused, Authorized, SendStep, CheckAuthorized,
              CheckCancelled, PollToken, StartSend, SelectCancelled, SendFails, Abandon, Transmit, net
<1>4. CASE UNCHANGED vars
  BY <1>4 DEF vars, net
<1> QED
  BY <1>1, <1>2, <1>3, <1>4 DEF Next

\* Where receipts, seals and bodies are the same, so are the records.
LEMMA SameRecord ==
  ASSUME UNCHANGED <<status, seal, carried>>
  PROVE  record' = record
BY DEF record, Recorded

\* A step that closes no record: the network answers, or nothing happens.
LEMMA OnlyAnswer ==
  ASSUME TypeOK, Bodies, [Next]_vars, record' = record, UNCHANGED wire
  PROVE  [Ledger!Next]_Ledger!vars
<1>1. CASE UNCHANGED answered
  BY <1>1 DEF Ledger!vars
<1>2. ASSUME NEW t \in Turn, phase[t] = "inflight", body[t] \in wire,
             answered' = answered \cup {body[t]}
      PROVE  Ledger!Next
  <2>1. body[t] \in Body
    BY <1>2 DEF Bodies, OpenPhases
  <2>2. Ledger!Answer(body[t])
    BY <1>2 DEF Ledger!Answer
  <2> QED
    BY <2>1, <2>2 DEF Ledger!Next
<1> QED
  BY <1>1, <1>2, AnswerShape


\* The startup recovery closes every open record at once.
LEMMA RecoverCloses ==
  ASSUME TypeOK, BodyAgrees, BodyAgrees', NEW p \in Launch, Recover(p)
  PROVE  Ledger!Next
<1> DEFINE B == {b \in Body : record[b] = "Prepared"}
<1>1. \A b \in Body : Recorded(b)' = Recorded(b)
  BY DEF Recover, Recorded, TypeOK
<1>2. \A b \in Body : Sealed(b)' = Sealed(b)
  BY <1>1 DEF Recover, Sealed
<1>3. ASSUME NEW b \in Body
      PROVE  record'[b] = IF b \in B THEN "OutcomeUnknown" ELSE record[b]
  <2>1. CASE Sealed(b)
    <3>1. PICK r \in Recorded(b) : TRUE
      BY <2>1, RecordMeans DEF RecordsMean
    <3>2. record[b] = status[r]
      BY <2>1, RecordMeans DEF RecordsMean
    <3>3. record'[b] = status'[r]
      BY <1>1, <1>2, <2>1, RecordMeansNext DEF RecordsMean
    <3>4. status'[r] = IF status[r] = "Prepared" THEN "OutcomeUnknown" ELSE status[r]
      BY DEF Recover, Recorded
    <3> QED
      BY <3>2, <3>3, <3>4
  <2>2. CASE ~Sealed(b)
    BY <1>2, <2>2, RecordMeans, RecordMeansNext DEF RecordsMean
  <2> QED
    BY <2>1, <2>2
<1>4. record' = [b \in Body |-> IF b \in B THEN "OutcomeUnknown" ELSE record[b]]
  BY <1>3, RecordIsFunction
<1>5. Ledger!Close(B, "OutcomeUnknown") /\ answered' = answered
  BY <1>4 DEF Ledger!Close, Recover, net
<1> QED
  BY <1>5 DEF Ledger!Next, Ledger!Closed

\* The batch of a round closes the record of its body, if it has one by then.
LEMMA ClosingCloses ==
  ASSUME TypeOK, Bodies, Approved, LiveBatchPrepared, BodyAgrees, BodyAgrees', [Next]_vars,
         NEW t \in Turn, Closing(t)
  PROVE  [Ledger!Next]_Ledger!vars
<1>1. body[t] \in Body /\ UNCHANGED <<seal, carried, wire>>
  BY DEF Closing, Bodies
<1>2. PICK s \in {"Sent", "Failed", "OutcomeUnknown"} :
        /\ CasBatch(Batch(t), s)
        /\ s = "Failed" => phase[t] \in UnsentPhases
        /\ s = "Sent" => body[t] \in answered'
  BY DEF Closing
<1>3. \A r \in Receipt : status'[r] = IF r \in Batch(t) THEN s ELSE status[r]
  BY <1>2 DEF CasBatch
<1>4. \A b \in Body : Recorded(b)' = Recorded(b)
  BY <1>1, <1>3 DEF Recorded, Batch
<1>5. \A b \in Body : Sealed(b)' = Sealed(b)
  BY <1>1, <1>4 DEF Sealed
<1>6. ASSUME NEW b \in Body
      PROVE  record'[b] = IF Sealed(b) /\ b = body[t] THEN s ELSE record[b]
  <2>1. CASE Sealed(b)
    <3>1. PICK r \in Recorded(b) : TRUE
      BY <2>1, RecordMeans DEF RecordsMean
    <3>2. record[b] = status[r] /\ record'[b] = status'[r]
      BY <1>4, <1>5, <2>1, RecordMeans, RecordMeansNext DEF RecordsMean
    <3>3. r \in Batch(t) <=> b = body[t]
      BY DEF Recorded, Batch
    <3> QED
      BY <1>3, <2>1, <3>2, <3>3 DEF Recorded
  <2>2. CASE ~Sealed(b)
    BY <1>5, <2>2, RecordMeans, RecordMeansNext DEF RecordsMean
  <2> QED
    BY <2>1, <2>2
<1>7. CASE ~Sealed(body[t])
  <2>1. record' = record
    BY <1>6, <1>7, RecordIsFunction
  <2> QED
    BY <1>1, <2>1, OnlyAnswer
<1>8. CASE Sealed(body[t])
  <2>1. record[body[t]] = "Prepared"
    <3>1. PICK r \in Recorded(body[t]) : record[body[t]] = status[r]
      BY <1>1, <1>8, RecordMeans DEF RecordsMean
    <3> QED
      BY <1>2, <3>1 DEF CasBatch, Recorded, Batch
  <2>2. record' = [b \in Body |-> IF b \in {body[t]} THEN s ELSE record[b]]
    BY <1>6, <1>8, RecordIsFunction
  <2>3. s = "Failed" => body[t] \notin wire
    BY <1>2 DEF Approved
  <2>4. Ledger!Close({body[t]}, s)
    BY <1>1, <1>2, <2>1, <2>2, <2>3 DEF Ledger!Close
  <2>5. s \in Ledger!Closed /\ {body[t]} \in SUBSET Body
    BY <1>1 DEF Ledger!Closed
  <2>6. CASE UNCHANGED answered
    BY <2>4, <2>5, <2>6 DEF Ledger!Next
  <2>7. CASE ~UNCHANGED answered
    <3>1. PICK u \in Turn : /\ phase[u] = "inflight" /\ phase'[u] # "inflight"
                            /\ body[u] \in wire /\ answered' = answered \cup {body[u]}
      BY <2>7, AnswerShape
    <3>2. u = t
      BY <3>1 DEF Closing, TypeOK
    <3>3. Ledger!Answer(body[t])
      BY <3>1, <3>2 DEF Ledger!Answer
    <3> QED
      BY <1>1, <2>4, <2>5, <3>3 DEF Ledger!Next
  <2> QED
    BY <2>6, <2>7
<1> QED
  BY <1>7, <1>8

\* A body is only transmitted while its record is open.
LEMMA TransmitTransmits ==
  ASSUME TypeOK, Bodies, OfItsBody, Approved, LiveBatchPrepared, BodyAgrees,
         NEW t \in Turn, Transmit(t)
  PROVE  Ledger!Next
<1>1. phase[t] = "inflight" /\ body[t] \in Body
  BY DEF Transmit, Bodies, OpenPhases
<1>2. Recorded(body[t]) = Batch(t)
  BY DEF Recorded, Batch
<1>3. Sealed(body[t])
  <2>1. Unsealed(t) = {}
    BY <1>1 DEF Approved, ApprovedPhases
  <2>2. \A r \in Batch(t) : seal[r].call \in carried[body[t]]
    BY DEF Batch, OfItsBody
  <2> QED
    BY <1>1, <1>2, <2>1, <2>2 DEF Sealed, Unsealed, Bodies
<1>4. record[body[t]] = "Prepared"
  BY <1>1, <1>2, <1>3, RecordMeans DEF LiveBatchPrepared, RecordsMean
<1>5. record' = record
  BY SameRecord DEF Transmit, durable
<1>6. Ledger!Transmit(body[t])
  BY <1>4, <1>5 DEF Ledger!Transmit, Transmit
<1> QED
  BY <1>1, <1>6 DEF Ledger!Next

\* A body without receipts is recorded no more than a body that does not exist yet.
LEMMA BeginStutters ==
  ASSUME TypeOK, Bodies, Receipts, BodyAgrees, BodyAgrees', [Next]_vars,
         NEW t \in Turn, NEW b \in Body, BeginAuthorize(t, b)
  PROVE  record' = record
<1>1. \A a \in Body : Recorded(a)' = Recorded(a)
  BY DEF BeginAuthorize, durable, Recorded
<1>2. Recorded(b) = {}
  BY DEF BeginAuthorize, Recorded, Receipts
<1>3. ~Sealed(b) /\ ~Sealed(b)'
  BY <1>1, <1>2 DEF Sealed
<1>4. ASSUME NEW a \in Body, a # b PROVE record'[a] = record[a]
  <2>1. carried'[a] = carried[a] /\ UNCHANGED <<status, seal>>
    BY <1>4 DEF BeginAuthorize, durable, TypeOK
  <2>2. Sealed(a)' = Sealed(a)
    BY <1>1, <2>1 DEF Sealed
  <2>3. CASE Sealed(a)
    <3>1. PICK q \in Recorded(a) : record[a] = status[q]
      BY <2>3, RecordMeans DEF RecordsMean
    <3>2. record'[a] = status'[q]
      BY <1>1, <2>2, <2>3, RecordMeansNext DEF RecordsMean
    <3> QED
      BY <2>1, <3>1, <3>2
  <2>4. CASE ~Sealed(a)
    BY <2>2, <2>4, RecordMeans, RecordMeansNext DEF RecordsMean
  <2> QED
    BY <2>3, <2>4
<1>5. record'[b] = record[b]
  BY <1>3, RecordMeans, RecordMeansNext DEF RecordsMean
<1> QED
  BY <1>4, <1>5, RecordIsFunction

\* The last receipt of a body records it; the earlier ones do not show.
LEMMA SealRecords ==
  ASSUME TypeOK, Bodies, LiveBatchPrepared, LiveBatchPrepared', BodyAgrees, BodyAgrees',
         NEW t \in Turn, NEW c \in Call, NEW r \in Receipt, SealResult(t, c, r)
  PROVE  Ledger!Next \/ UNCHANGED Ledger!vars
<1>1. PICK b \in Body : body[t] = b
  BY DEF SealResult, Bodies, OpenPhases
<1>2. /\ status[r] = "Absent"
      /\ \A q \in Receipt \ {r} : status'[q] = status[q] /\ seal'[q] = seal[q]
  BY DEF SealResult, TypeOK
<1>3. status'[r] = "Prepared" /\ seal'[r].body = b
  BY <1>1 DEF SealResult, TypeOK
<1>4. ASSUME NEW a \in Body, a # b PROVE record'[a] = record[a]
  <2>1. Recorded(a)' = Recorded(a) /\ r \notin Recorded(a)
    BY <1>2, <1>3, <1>4 DEF Recorded
  <2>2. {seal[q].call : q \in Recorded(a)}' = {seal[q].call : q \in Recorded(a)}
    BY <1>2, <2>1 DEF Recorded
  <2>3. Sealed(a)' = Sealed(a)
    BY <2>2 DEF Sealed, SealResult
  <2>4. CASE Sealed(a)
    <3>1. PICK q \in Recorded(a) : TRUE
      BY <2>4, RecordMeans DEF RecordsMean
    <3>2. record[a] = status[q] /\ record'[a] = status'[q]
      BY <2>1, <2>3, <2>4, RecordMeans, RecordMeansNext DEF RecordsMean
    <3> QED
      BY <1>2, <2>1, <3>2 DEF Recorded
  <2>5. CASE ~Sealed(a)
    BY <2>3, <2>5, RecordMeans, RecordMeansNext DEF RecordsMean
  <2> QED
    BY <2>4, <2>5
<1>5. record[b] = "Unrecorded"
  <2>1. ~Sealed(b)
    BY <1>1 DEF SealResult, Unsealed, Sealed, Recorded, Batch
  <2> QED
    BY <1>1, <2>1, RecordMeans DEF RecordsMean
<1>6. CASE Sealed(b)'
  <2>1. r \in Recorded(b)'
    BY <1>3 DEF Recorded
  <2>2. record'[b] = "Prepared"
    BY <1>3, <1>6, <2>1, RecordMeansNext DEF RecordsMean
  <2>3. record' = [record EXCEPT ![b] = "Prepared"]
    BY <1>4, <2>2, RecordIsFunction
  <2>4. Ledger!Record(b)
    BY <1>5, <2>3 DEF Ledger!Record, SealResult, net
  <2> QED
    BY <2>4 DEF Ledger!Next
<1>7. CASE ~Sealed(b)'
  <2>1. record'[b] = "Unrecorded"
    BY <1>1, <1>7, RecordMeansNext DEF RecordsMean
  <2>2. record' = record
    BY <1>4, <1>5, <2>1, RecordIsFunction
  <2> QED
    BY <2>2 DEF Ledger!vars, SealResult, net
<1> QED
  BY <1>6, <1>7

\* Every step of the program is a step of the ledger or invisible to it.
LEMMA LedgerStep ==
  ASSUME IInv, IInv', [Next]_vars
  PROVE  [Ledger!Next]_Ledger!vars
<1> USE DEF IInv
<1>1. CASE Quiet
  BY <1>1, SameRecord, OnlyAnswer DEF Quiet
<1>2. ASSUME NEW p \in Launch, Recover(p) PROVE Ledger!Next
  BY <1>2, RecoverCloses
<1>3. ASSUME NEW t \in Turn, Closing(t) PROVE [Ledger!Next]_Ledger!vars
  BY <1>3, ClosingCloses
<1>4. ASSUME NEW t \in Turn, Transmit(t) PROVE Ledger!Next
  BY <1>4, TransmitTransmits
<1>5. ASSUME NEW t \in Turn, NEW b \in Body, BeginAuthorize(t, b)
      PROVE  [Ledger!Next]_Ledger!vars
  BY <1>5, BeginStutters, OnlyAnswer DEF BeginAuthorize, net
<1>6. ASSUME NEW t \in Turn, NEW c \in Call, NEW r \in Receipt, SealResult(t, c, r)
      PROVE  [Ledger!Next]_Ledger!vars
  BY <1>6, SealRecords
<1> QED
  BY <1>1, <1>2, <1>3, <1>4, <1>5, <1>6, LedgerShape

\* The receipts implement the ledger: each body is recorded in full before it is
\* transmitted, closed once, and never in contradiction with the network.
THEOREM ReceiptsImplementLedger == Spec => ImplementsLedger
<1>1. Init => Ledger!Init
  <2> SUFFICES ASSUME Init PROVE Ledger!Init
    OBVIOUS
  <2>1. record = [b \in Body |-> "Unrecorded"]
    BY DEF Init, record
  <2> QED
    BY <2>1 DEF Init, Ledger!Init
<1>2. IInv /\ IInv' /\ [Next]_vars => [Ledger!Next]_Ledger!vars
  BY LedgerStep
<1> QED
  BY <1>1, <1>2, Inductive, PTL DEF Spec, ImplementsLedger, Ledger!Spec
=============================================================================
