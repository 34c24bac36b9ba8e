-------------------------- MODULE AgentLoopProofs ---------------------------
(***************************************************************************)
(* The safety of a run of the agent loop, for every value of the limits,   *)
(* every set of fingerprints and every batch the provider may request.     *)
(***************************************************************************)
EXTENDS AgentLoop, SequenceTheorems, TLAPS

Running == at # "returned"

\* The calls of a batch are asked for, and leave todo as their results arrive.
Calls ==
  /\ at \in {"top", "wait", "stream"} => todo = <<>>
  /\ at \in {"calls", "fresh"} \cup InTool => todo # <<>>
  /\ asked = given + Len(todo)
  /\ given = traced
  /\ Running => carried = bytes

\* What was asked for is within the limits, and bounds what was executed.
Budgets ==
  /\ Running => total = asked /\ ran = given + (IF at \in InTool THEN 1 ELSE 0)
  /\ asked <= MaxCalls
  /\ ran <= asked
  /\ carried <= MaxBytes
  /\ at \in {"wait", "stream", "calls", "fresh"} \cup InTool => round <= MaxRounds
  /\ at \in {"fresh"} \cup InTool => seen[Head(todo)] < RepeatLimit

\* The text of finished rounds and of the round being read is what was shown.
Texts ==
  /\ audit => shown = 0
  /\ Running /\ ~audit => shown = prior + (IF at = "stream" THEN text ELSE 0)
  /\ Running => outcome.event = "none"
  /\ outcome.event \in {"Completed", "Cancelled"} => outcome.text = shown

\* Each kind of late work needs a look that came before the stop: once it is done, the
\* worker is not past such a look any more.
Stops ==
  /\ StopTakesHold
  /\ lateReads = 1 => cancelled /\ at # "looked"
  /\ lateResults = 1 => cancelled /\ at \notin InTool
  /\ staleResults = 1 =>
       stale /\ (at \in {"fresh"} \cup InTool => Head(todo) \in StatusCall)

IInv == TypeOK /\ Calls /\ Budgets /\ Texts /\ Stops

-----------------------------------------------------------------------------
(* Facts the steps rest on.                                                 *)

Events == {"none", "Completed", "Cancelled", "Failed"}
Outcomes == [event : Events, code : Codes, text : Nat]

\* Every way out of the loop leaves a well-formed outcome and only moves at.
LEMMA ReturnTyped ==
  ASSUME TypeOK,
         NEW event \in Events, NEW code \in Codes, NEW payload \in Nat,
         Return(event, code, payload)
  PROVE  /\ at' = "returned" /\ at' \in Places
         /\ outcome' \in Outcomes
         /\ outcome'.event = event /\ outcome'.text = payload
         /\ audit' = audit /\ grounded' = grounded
         /\ cancelled' = cancelled /\ stale' = stale
BY DEF Return, Outcomes, Places, env

\* The ways out the actions use.
LEMMA FailsTyped ==
  ASSUME TypeOK, NEW code \in Codes, Fails(code)
  PROVE  /\ at' = "returned" /\ at' \in Places
         /\ outcome' \in Outcomes
         /\ outcome'.event = "Failed"
         /\ audit' = audit /\ grounded' = grounded
         /\ cancelled' = cancelled /\ stale' = stale
BY ReturnTyped DEF Fails, Events

\* A cancellation ends the run with the partial answer the contract keeps.
LEMMA CancelTyped ==
  ASSUME TypeOK, NEW partial \in Nat, ReturnCancelled(partial)
  PROVE  /\ at' = "returned" /\ at' \in Places
         /\ outcome' \in Outcomes
         /\ outcome'.event = "Cancelled"
         /\ outcome'.text = IF audit THEN 0 ELSE partial
         /\ audit' = audit /\ grounded' = grounded
         /\ cancelled' = cancelled /\ stale' = stale
<1>1. "Cancelled" \in Events /\ "CANCELLED" \in Codes
  BY DEF Events, Codes
<1>2. (IF audit THEN 0 ELSE partial) \in Nat
  OBVIOUS
<1> QED
  BY <1>1, <1>2, ReturnTyped DEF ReturnCancelled

\* What happens to the queue of calls when one of them is done.
LEMMA QueueShrinks ==
  ASSUME TypeOK, todo # <<>>
  PROVE  /\ Head(todo) \in Call
         /\ Tail(todo) \in Seq(Call)
         /\ Len(todo) \in Nat /\ Len(todo) >= 1
         /\ Len(Tail(todo)) = Len(todo) - 1
<1>1. todo \in Seq(Call)
  BY DEF TypeOK
<1>2. Len(todo) \in Nat \ {0}
  BY <1>1, EmptySeq
<1>3. Head(todo) \in Call /\ Tail(todo) \in Seq(Call) /\ Len(Tail(todo)) = Len(todo) - 1
  BY <1>1, HeadTailProperties
<1> QED
  BY <1>2, <1>3

\* A requested batch is a non-empty sequence of calls.
LEMMA BatchTyped ==
  ASSUME NEW calls \in Batch
  PROVE  calls \in Seq(Call) /\ calls # <<>> /\ Len(calls) \in Nat /\ Len(calls) >= 1
<1>1. calls \in Seq(Call) /\ calls # <<>>
  BY BatchAssumption
<1>2. Len(calls) \in Nat \ {0}
  BY <1>1, EmptySeq
<1> QED
  BY <1>1, <1>2

-----------------------------------------------------------------------------
(* Types.                                                                   *)

TypedWords == prior \in Nat /\ text \in Nat /\ shown \in Nat /\ streamed \in Nat
TypedBudget ==
  round \in Nat /\ total \in Nat /\ bytes \in Nat /\ ran \in Nat /\ seen \in [Call -> Nat]
TypedRequest == asked \in Nat /\ given \in Nat /\ carried \in Nat /\ traced \in Nat
TypedQueue == todo \in Seq(Call) /\ left \in Nat
TypedLate == lateReads \in Nat /\ lateResults \in Nat /\ staleResults \in Nat
TypedEnv == audit \in BOOLEAN /\ grounded \in BOOLEAN /\ cancelled \in BOOLEAN /\ stale \in BOOLEAN

\* TypeOK, split into groups the actions change together.
LEMMA TypeParts ==
  TypeOK <=> /\ at \in Places /\ TypedEnv /\ TypedWords /\ TypedBudget /\ TypedRequest
             /\ TypedQueue /\ TypedLate /\ outcome \in Outcomes
BY DEF TypeOK, TypedEnv, TypedWords, TypedBudget, TypedRequest, TypedQueue, TypedLate, Outcomes,
       Events

\* The initial state is typed.
LEMMA TypeInit == Init => TypeOK
<1> SUFFICES ASSUME Init PROVE TypeOK
  OBVIOUS
<1>1. at \in Places /\ TypedEnv
  BY DEF Init, Places, TypedEnv
<1>2. TypedWords /\ TypedBudget /\ TypedRequest /\ TypedLate
  BY DEF Init, TypedWords, TypedBudget, TypedRequest, TypedLate
<1>3. TypedQueue
  BY EmptySeq DEF Init, TypedQueue
<1>4. outcome \in Outcomes
  BY DEF Init, NoOutcome, Outcomes, Events, Codes
<1> QED
  BY <1>1, <1>2, <1>3, <1>4, TypeParts

\* Every step keeps the types; the queue of calls is not empty when one is run.
LEMMA TypeStep == TypeOK /\ Calls /\ [Next]_vars => TypeOK'
<1> SUFFICES ASSUME TypeOK, Calls, [Next]_vars PROVE TypeOK'
  OBVIOUS
<1>0. /\ at \in Places /\ TypedEnv /\ TypedWords /\ TypedBudget /\ TypedRequest
      /\ TypedQueue /\ TypedLate /\ outcome \in Outcomes
  BY TypeParts
<1>a. ASSUME at' \in Places, TypedEnv', TypedWords', TypedBudget', TypedRequest',
             TypedQueue', TypedLate', outcome' \in Outcomes
      PROVE  TypeOK'
  BY <1>a DEF TypeOK, TypedEnv, TypedWords, TypedBudget, TypedRequest, TypedQueue, TypedLate,
              Outcomes, Events
<1>c. "CANCELLED" \in Codes /\ "AGENT_LOOP_LIMIT_REACHED" \in Codes
      /\ "AGENT_LOOP_REPEATED_CALL" \in Codes /\ "REPOSITORY_TOOL_UNAVAILABLE" \in Codes
      /\ "REPOSITORY_REINDEX_REQUIRED" \in Codes /\ "TOOL_RESULT_LIMIT_REACHED" \in Codes
      /\ "TOOL_FAILED" \in Codes /\ "PROVIDER_FAILED" \in Codes
      /\ "AUDIT_RESPONSE_INVALID" \in Codes /\ "none" \in Codes /\ "Completed" \in Events
  BY DEF Codes, Events
<1> USE DEF words, budget, pending, request, late, TypedEnv, TypedWords, TypedBudget,
            TypedRequest, TypedQueue, TypedLate
\* A return that leaves the loop's own variables as they are.
<1>r. ASSUME UNCHANGED <<words, budget, pending, request>>,
             \/ \E code \in Codes : Fails(code)
             \/ \E partial \in Nat : ReturnCancelled(partial)
             \/ \E payload \in Nat : Return("Completed", "none", payload)
      PROVE  TypeOK'
  <2>1. at' \in Places /\ outcome' \in Outcomes /\ UNCHANGED env
    BY <1>r, <1>c, FailsTyped, CancelTyped, ReturnTyped DEF env
  <2> QED
    BY <2>1, <1>r, <1>0, <1>a DEF env
<1>1. CASE Local
  <2>1. CASE CancelledAtTop
    BY <2>1, <1>r, <1>0 DEF CancelledAtTop
  <2>2. CASE RoundsExhausted
    BY <2>2, <1>r, <1>c DEF RoundsExhausted
  <2>3. CASE RequestRound
    BY <2>3, <1>0, <1>a DEF RequestRound, env, Places
  <2>4. CASE CallRefused
    <3>1. Head(todo) \in Call
      BY <2>4, QueueShrinks DEF CallRefused, Calls
    <3>2. seen' \in [Call -> Nat]
      BY <2>4, <3>1, <1>0 DEF CallRefused, Count
    <3>3. at' \in Places /\ outcome' \in Outcomes /\ UNCHANGED env
      BY <2>4, <1>c, FailsTyped DEF CallRefused, env
    <3> QED
      BY <2>4, <3>2, <3>3, <1>0, <1>a DEF CallRefused, env
  <2>5. CASE SnapshotIsFresh
    <3>1. Head(todo) \in Call
      BY <2>5, QueueShrinks DEF SnapshotIsFresh, Calls
    <3>2. seen' \in [Call -> Nat]
      BY <2>5, <3>1, <1>0 DEF SnapshotIsFresh, Count
    <3> QED
      BY <2>5, <3>2, <1>0, <1>a DEF SnapshotIsFresh, env, Places
  <2>6. CASE CallBegins
    <3>1. Head(todo) \in Call
      BY <2>6, QueueShrinks DEF CallBegins, Calls
    <3>2. left' \in Nat
      BY <2>6, <3>1, OpensAssumption DEF CallBegins
    <3> QED
      BY <2>6, <3>2, <1>0, <1>a DEF CallBegins, env, Places, InTool
  <2>7. CASE CallCancelled
    BY <2>7, <1>r, <1>c DEF CallCancelled
  <2>8. CASE TokenIsAlive
    <3>1. left' \in Nat
      BY <2>8, <1>0 DEF TokenIsAlive
    <3> QED
      BY <2>8, <3>1, <1>0, <1>a DEF TokenIsAlive, env, Places, InTool
  <2>9. CASE ReadBegins
    <3>1. lateReads' \in Nat
      BY <2>9, <1>0 DEF ReadBegins
    <3> QED
      BY <2>9, <3>1, <1>0, <1>a DEF ReadBegins, env, Places, InTool
  <2> QED
    BY <1>1, <2>1, <2>2, <2>3, <2>4, <2>5, <2>6, <2>7, <2>8, <2>9 DEF Local
<1>2. CASE Provider
  <2>1. CASE Headers
    BY <2>1, <1>0, <1>a DEF Headers, env, Places
  <2>2. CASE RequestFails \/ RequestCancelled \/ StreamFails
    BY <2>2, <1>r, <1>c DEF RequestFails, RequestCancelled, StreamFails
  <2>3. CASE Delta
    BY <2>3, <1>0, <1>a DEF Delta, env
  <2>4. CASE StreamCancelled
    BY <2>4, <1>r, <1>0 DEF StreamCancelled
  <2>5. CASE Completed \/ AuditChecked
    BY <2>5, <1>r, <1>0, <1>c DEF Completed, AuditChecked
  <2>6. ASSUME NEW calls \in Batch, ToolCallsRefused(calls) PROVE TypeOK'
    <3>1. at' \in Places /\ outcome' \in Outcomes /\ UNCHANGED env
      BY <2>6, <1>c, FailsTyped DEF ToolCallsRefused, env
    <3> QED
      BY <2>6, <3>1, <1>0, <1>a, BatchTyped DEF ToolCallsRefused, Requested, env
  <2>7. ASSUME NEW calls \in Batch, ToolCalls(calls) PROVE TypeOK'
    BY <2>7, <1>0, <1>a, BatchTyped DEF ToolCalls, Requested, env, Places
  <2> QED
    BY <1>2, <2>1, <2>2, <2>3, <2>4, <2>5, <2>6, <2>7 DEF Provider
<1>3. CASE Repository
  <2>1. CASE NextFile \/ CallFails
    BY <2>1, <1>r, <1>c, <1>0, <1>a DEF NextFile, CallFails, env, Places, InTool
  <2>2. ASSUME NEW size \in 0..MaxSize, ResultTooLarge(size) PROVE TypeOK'
    <3>1. at' \in Places /\ outcome' \in Outcomes /\ UNCHANGED env
      BY <2>2, <1>c, FailsTyped DEF ResultTooLarge, env
    <3> QED
      BY <2>2, <3>1, <1>0, <1>a DEF ResultTooLarge, env
  <2>3. ASSUME NEW size \in 0..MaxSize, CallReturns(size) PROVE TypeOK'
    <3>1. Tail(todo) \in Seq(Call)
      BY <2>3, QueueShrinks DEF CallReturns, CallIsDone, InTool, Calls
    <3>2. lateResults' \in Nat /\ staleResults' \in Nat
      BY <2>3, <1>0 DEF CallReturns
    <3>3. bytes' \in Nat /\ given' \in Nat /\ carried' \in Nat /\ traced' \in Nat
      BY <2>3, <1>0 DEF CallReturns
    <3>4. at' \in Places /\ round' \in Nat
      BY <2>3, <1>0 DEF CallReturns, Places
    <3> QED
      BY <2>3, <3>1, <3>2, <3>3, <3>4, <1>0, <1>a DEF CallReturns, env
  <2> QED
    BY <1>3, <2>1, <2>2, <2>3 DEF Repository
<1>4. CASE TimeLimit
  BY <1>4, <1>r, <1>c DEF TimeLimit
<1>5. CASE Cancel \/ MarkStale
  BY <1>5, <1>0, <1>a DEF Cancel, MarkStale
<1>6. CASE UNCHANGED vars
  BY <1>6, <1>0, <1>a DEF vars, env
<1> QED
  BY <1>1, <1>2, <1>3, <1>4, <1>5, <1>6 DEF Next

-----------------------------------------------------------------------------
(* The queue of calls, the budgets and the texts.                           *)

\* No call is asked for, queued or answered before the first round.
LEMMA CallsInit == Init => Calls
BY EmptySeq DEF Init, Calls, Running, InTool

\* A return touches neither the queue nor the request.
LEMMA CallsStep == TypeOK /\ Calls /\ [Next]_vars => Calls'
<1> SUFFICES ASSUME TypeOK, Calls, [Next]_vars PROVE Calls'
  OBVIOUS
<1>0. asked \in Nat /\ given \in Nat /\ carried \in Nat /\ traced \in Nat /\ bytes \in Nat
  BY DEF TypeOK
<1> USE DEF words, budget, pending, request, late, env, InTool
<1>r. ASSUME at' = "returned", UNCHANGED <<todo, asked, given, traced>> PROVE Calls'
  BY <1>r DEF Calls, Running
<1>f. ASSUME NEW code, Fails(code), UNCHANGED <<todo, asked, given, traced>> PROVE Calls'
  BY <1>f, <1>r DEF Fails, Return
<1>1. CASE Local
  <2>1. CASE CancelledAtTop
    BY <2>1, <1>r DEF CancelledAtTop, ReturnCancelled, Return
  <2>2. CASE RoundsExhausted \/ CallRefused
    BY <2>2, <1>f DEF RoundsExhausted, CallRefused
  <2>3. CASE RequestRound
    BY <2>3 DEF RequestRound, Calls, Running
  <2>4. CASE SnapshotIsFresh \/ CallBegins \/ TokenIsAlive \/ ReadBegins
    BY <2>4 DEF SnapshotIsFresh, CallBegins, TokenIsAlive, ReadBegins, Calls, Running
  <2>5. CASE CallCancelled
    BY <2>5, <1>f DEF CallCancelled
  <2> QED
    BY <1>1, <2>1, <2>2, <2>3, <2>4, <2>5 DEF Local
<1>2. CASE Provider
  <2>1. CASE Headers \/ Delta
    BY <2>1 DEF Headers, Delta, Calls, Running
  <2>2. CASE RequestFails \/ RequestCancelled \/ StreamFails
    BY <2>2, <1>f DEF RequestFails, RequestCancelled, StreamFails
  <2>3. CASE StreamCancelled \/ Completed \/ AuditChecked
    BY <2>3, <1>r DEF StreamCancelled, ReturnCancelled, Completed, AuditChecked, Fails, Return
  <2>4. ASSUME NEW calls \in Batch, ToolCallsRefused(calls) PROVE Calls'
    BY <2>4, <1>f DEF ToolCallsRefused
  <2>5. ASSUME NEW calls \in Batch, ToolCalls(calls) PROVE Calls'
    <3>1. at' = "calls" /\ todo' = calls /\ asked' = asked + Len(calls)
          /\ UNCHANGED <<given, traced, carried, bytes>>
      BY <2>5 DEF ToolCalls
    <3>2. todo = <<>> /\ Len(todo) = 0
      BY <2>5, EmptySeq DEF ToolCalls, Requested, Calls
    <3> QED
      BY <2>5, <3>1, <3>2, <1>0, BatchTyped DEF ToolCalls, Requested, Calls, Running
  <2> QED
    BY <1>2, <2>1, <2>2, <2>3, <2>4, <2>5 DEF Provider
<1>3. CASE Repository
  <2>0. CASE NextFile
    BY <2>0 DEF NextFile, Calls, Running
  <2>1. CASE CallFails
    BY <2>1, <1>f DEF CallFails
  <2>2. ASSUME NEW size \in 0..MaxSize, ResultTooLarge(size) PROVE Calls'
    BY <2>2, <1>f DEF ResultTooLarge
  <2>3. ASSUME NEW size \in 0..MaxSize, CallReturns(size) PROVE Calls'
    <3>1. Len(todo) \in Nat /\ Len(Tail(todo)) = Len(todo) - 1
      BY <2>3, QueueShrinks DEF CallReturns, CallIsDone, Calls
    <3>0. asked = given + Len(todo) /\ given = traced /\ carried = bytes
      BY <2>3 DEF CallReturns, CallIsDone, Calls, Running
    <3>a. asked' = asked /\ given' = given + 1 /\ traced' = traced + 1 /\ todo' = Tail(todo)
      BY <2>3 DEF CallReturns
    <3>b. bytes' = bytes + size /\ carried' = carried + size
      BY <2>3 DEF CallReturns
    <3>c. Len(todo') = Len(todo) - 1
      BY <3>a, <3>1
    <3>d. asked' = given' + Len(todo')
      <4> DEFINE n == Len(todo)
      <4>1. n \in Nat /\ asked = given + n /\ Len(todo') = n - 1
        BY <3>0, <3>1, <3>c
      <4> HIDE DEF n
      <4>2. given + n = (given + 1) + (n - 1)
        BY <4>1, <1>0
      <4> QED
        BY <4>1, <4>2, <3>a
    <3>2. asked' = given' + Len(todo') /\ given' = traced' /\ carried' = bytes'
      BY <3>a, <3>b, <3>d, <3>0
    <3>3. CASE Tail(todo) = <<>>
      BY <2>3, <3>2, <3>3 DEF CallReturns, Calls, Running
    <3>4. CASE Tail(todo) # <<>>
      BY <2>3, <3>2, <3>4 DEF CallReturns, Calls, Running
    <3> QED
      BY <3>3, <3>4
  <2> QED
    BY <1>3, <2>0, <2>1, <2>2, <2>3 DEF Repository
<1>4. CASE TimeLimit
  BY <1>4, <1>f DEF TimeLimit
<1>5. CASE Cancel \/ MarkStale \/ UNCHANGED vars
  BY <1>5 DEF Cancel, MarkStale, vars, Calls, Running
<1> QED
  BY <1>1, <1>2, <1>3, <1>4, <1>5 DEF Next

\* No budget is used before the first round.
LEMMA BudgetsInit == Init => Budgets
<1> SUFFICES ASSUME Init PROVE Budgets
  OBVIOUS
<1> QED
  BY LimitsAssumption DEF Init, Budgets, Running, InTool

\* Every step keeps the budgets: one case per way a call, a round or a result begins.
LEMMA BudgetsStep == TypeOK /\ Calls /\ Budgets /\ [Next]_vars => Budgets'
<1> SUFFICES ASSUME TypeOK, Calls, Budgets, [Next]_vars PROVE Budgets'
  OBVIOUS
<1>0. /\ asked \in Nat /\ given \in Nat /\ carried \in Nat /\ bytes \in Nat
      /\ ran \in Nat /\ round \in Nat /\ total \in Nat /\ seen \in [Call -> Nat]
      /\ MaxCalls \in Nat /\ MaxBytes \in Nat
  BY LimitsAssumption DEF TypeOK
<1> USE DEF words, budget, pending, request, late, env, InTool
<1>r. ASSUME at' = "returned", UNCHANGED <<asked, ran, carried>> PROVE Budgets'
  BY <1>r DEF Budgets, Running
<1>f. ASSUME NEW code, Fails(code), UNCHANGED <<asked, ran, carried>> PROVE Budgets'
  BY <1>f, <1>r DEF Fails, Return
<1>1. CASE Local
  <2>1. CASE CancelledAtTop
    BY <2>1, <1>r DEF CancelledAtTop, ReturnCancelled, Return
  <2>2. CASE RoundsExhausted \/ CallRefused
    BY <2>2, <1>f DEF RoundsExhausted, CallRefused
  <2>3. CASE RequestRound
    BY <2>3 DEF RequestRound, Budgets, Running
  <2>4. CASE CallBegins
    \* At least the call at the head was asked for and has no result yet.
    <3>1. Head(todo) \in Call /\ Len(todo) \in Nat /\ Len(todo) >= 1
      BY <2>4, QueueShrinks DEF CallBegins, Calls
    <3>2. ran' <= asked'
      BY <2>4, <3>1, <1>0 DEF CallBegins, Calls, Budgets, Running
    <3> QED
      BY <2>4, <3>2, <1>0 DEF CallBegins, Calls, Budgets, Running
  <2>5. CASE SnapshotIsFresh
    <3>1. Head(todo) \in Call
      BY <2>5, QueueShrinks DEF SnapshotIsFresh, Calls
    <3>2. seen'[Head(todo')] < RepeatLimit
      BY <2>5, <3>1, <1>0 DEF SnapshotIsFresh, Count, Repeats, RepeatLimit
    <3> QED
      BY <2>5, <3>2, <1>0 DEF SnapshotIsFresh, Budgets, Running
  <2>6. CASE CallCancelled
    BY <2>6, <1>f DEF CallCancelled
  <2>7. CASE TokenIsAlive \/ ReadBegins
    BY <2>7 DEF TokenIsAlive, ReadBegins, Budgets, Running
  <2> QED
    BY <1>1, <2>1, <2>2, <2>3, <2>4, <2>5, <2>6, <2>7 DEF Local
<1>2. CASE Provider
  <2>1. CASE Headers \/ Delta
    BY <2>1 DEF Headers, Delta, Budgets, Running
  <2>2. CASE RequestFails \/ RequestCancelled \/ StreamFails
    BY <2>2, <1>f DEF RequestFails, RequestCancelled, StreamFails
  <2>3. CASE StreamCancelled \/ Completed \/ AuditChecked
    BY <2>3, <1>r DEF StreamCancelled, ReturnCancelled, Completed, AuditChecked, Fails, Return
  <2>4. ASSUME NEW calls \in Batch, ToolCallsRefused(calls) PROVE Budgets'
    BY <2>4, <1>f DEF ToolCallsRefused
  <2>5. ASSUME NEW calls \in Batch, ToolCalls(calls) PROVE Budgets'
    \* The batch is admitted against the running total, which is what was asked.
    <3>1. Len(calls) \in Nat
      BY BatchTyped
    <3>2. asked' = total' /\ asked' <= MaxCalls /\ asked <= asked'
      BY <2>5, <3>1, <1>0 DEF ToolCalls, Requested, Budgets, Running
    <3> QED
      BY <2>5, <3>1, <3>2, <1>0 DEF ToolCalls, Requested, Budgets, Running
  <2> QED
    BY <1>2, <2>1, <2>2, <2>3, <2>4, <2>5 DEF Provider
<1>3. CASE Repository
  <2>0. CASE NextFile
    BY <2>0 DEF NextFile, Budgets, Running
  <2>1. CASE CallFails
    BY <2>1, <1>f DEF CallFails
  <2>2. ASSUME NEW size \in 0..MaxSize, ResultTooLarge(size) PROVE Budgets'
    BY <2>2, <1>f DEF ResultTooLarge
  <2>3. ASSUME NEW size \in 0..MaxSize, CallReturns(size) PROVE Budgets'
    <3>1. carried' <= MaxBytes
      BY <2>3, <1>0 DEF CallReturns, CallIsDone, Calls, Running
    <3>2. ran' = given' /\ at' \in {"top", "calls"}
      BY <2>3, <1>0 DEF CallReturns, CallIsDone, Budgets, Running
    <3> QED
      BY <2>3, <3>1, <3>2, <1>0 DEF CallReturns, CallIsDone, Budgets, Running
  <2> QED
    BY <1>3, <2>0, <2>1, <2>2, <2>3 DEF Repository
<1>4. CASE TimeLimit
  BY <1>4, <1>f DEF TimeLimit
<1>5. CASE Cancel \/ MarkStale \/ UNCHANGED vars
  BY <1>5 DEF Cancel, MarkStale, vars, Budgets, Running
<1> QED
  BY <1>1, <1>2, <1>3, <1>4, <1>5 DEF Next

\* Nothing is streamed before the first round.
LEMMA TextsInit == Init => Texts
BY DEF Init, Texts, Running, NoOutcome

\* Every step keeps the accounts of the streamed text.
LEMMA TextsStep == TypeOK /\ Texts /\ [Next]_vars => Texts'
<1> SUFFICES ASSUME TypeOK, Texts, [Next]_vars PROVE Texts'
  OBVIOUS
<1>0. prior \in Nat /\ text \in Nat /\ shown \in Nat /\ audit \in BOOLEAN
  BY DEF TypeOK
<1>c. /\ "CANCELLED" \in Codes /\ "AGENT_LOOP_LIMIT_REACHED" \in Codes
      /\ "AGENT_LOOP_REPEATED_CALL" \in Codes /\ "REPOSITORY_TOOL_UNAVAILABLE" \in Codes
      /\ "REPOSITORY_REINDEX_REQUIRED" \in Codes /\ "TOOL_RESULT_LIMIT_REACHED" \in Codes
      /\ "TOOL_FAILED" \in Codes /\ "PROVIDER_FAILED" \in Codes
      /\ "AUDIT_RESPONSE_INVALID" \in Codes /\ "none" \in Codes /\ "Completed" \in Events
  BY DEF Codes, Events
<1> USE DEF words, budget, pending, request, late, InTool
\* A failure carries no text; the two other ways out carry what was shown.
<1>f. ASSUME NEW code \in Codes, Fails(code), UNCHANGED shown PROVE Texts'
  BY <1>f, FailsTyped DEF Texts, Running
<1>k. ASSUME ReturnCancelled(prior + (IF at = "stream" THEN text ELSE 0)),
             at # "returned", UNCHANGED words
      PROVE  Texts'
  <2>1. (prior + (IF at = "stream" THEN text ELSE 0)) \in Nat
    BY <1>0
  <2>2. /\ at' = "returned" /\ audit' = audit /\ outcome'.event = "Cancelled"
        /\ outcome'.text = IF audit THEN 0 ELSE prior + (IF at = "stream" THEN text ELSE 0)
    BY <1>k, <2>1, CancelTyped
  <2> QED
    BY <1>k, <2>2 DEF Texts, Running
<1>1. CASE Local
  <2>1. CASE CancelledAtTop
    BY <2>1, <1>k, <1>0 DEF CancelledAtTop
  <2>2. CASE RoundsExhausted \/ CallRefused \/ CallCancelled
    BY <2>2, <1>f, <1>c DEF RoundsExhausted, CallRefused, CallCancelled
  <2>3. CASE RequestRound \/ SnapshotIsFresh \/ CallBegins \/ TokenIsAlive \/ ReadBegins
    BY <2>3 DEF RequestRound, SnapshotIsFresh, CallBegins, TokenIsAlive, ReadBegins, Texts,
                Running, env
  <2> QED
    BY <1>1, <2>1, <2>2, <2>3 DEF Local
<1>2. CASE Provider
  <2>1. CASE Headers
    BY <2>1, <1>0 DEF Headers, Texts, Running, env
  <2>2. CASE RequestFails \/ RequestCancelled \/ StreamFails
    BY <2>2, <1>f, <1>c DEF RequestFails, RequestCancelled, StreamFails
  <2>3. CASE Delta
    BY <2>3, <1>0 DEF Delta, Texts, Running, env
  <2>4. CASE StreamCancelled
    BY <2>4, <1>k, <1>0 DEF StreamCancelled
  <2>5. CASE Completed
    <3>1. /\ at' = "returned" /\ audit' = audit
          /\ outcome'.event = "Completed" /\ outcome'.text = prior + text
      BY <2>5, <1>0, <1>c, ReturnTyped DEF Completed
    <3> QED
      BY <2>5, <3>1 DEF Completed, Texts, Running
  <2>6. CASE AuditChecked
    <3>1. ASSUME Return("Completed", "none", 0) PROVE Texts'
      <4>1. /\ at' = "returned" /\ audit' = audit
            /\ outcome'.event = "Completed" /\ outcome'.text = 0
        BY <3>1, <1>c, ReturnTyped
      <4> QED
        BY <2>6, <4>1 DEF AuditChecked, Texts, Running
    <3> QED
      BY <2>6, <3>1, <1>f, <1>c DEF AuditChecked
  <2>7. ASSUME NEW calls \in Batch, ToolCallsRefused(calls) PROVE Texts'
    BY <2>7, <1>f, <1>c DEF ToolCallsRefused, Requested
  <2>8. ASSUME NEW calls \in Batch, ToolCalls(calls) PROVE Texts'
    BY <2>8, <1>0 DEF ToolCalls, Requested, Texts, Running, env
  <2> QED
    BY <1>2, <2>1, <2>2, <2>3, <2>4, <2>5, <2>6, <2>7, <2>8 DEF Provider
<1>3. CASE Repository
  <2>0. CASE NextFile
    BY <2>0 DEF NextFile, Texts, Running, env
  <2>1. CASE CallFails
    BY <2>1, <1>f, <1>c DEF CallFails
  <2>2. ASSUME NEW size \in 0..MaxSize, ResultTooLarge(size) PROVE Texts'
    BY <2>2, <1>f, <1>c DEF ResultTooLarge
  <2>3. ASSUME NEW size \in 0..MaxSize, CallReturns(size) PROVE Texts'
    BY <2>3 DEF CallReturns, CallIsDone, Texts, Running, env
  <2> QED
    BY <1>3, <2>0, <2>1, <2>2, <2>3 DEF Repository
<1>4. CASE TimeLimit
  BY <1>4, <1>f, <1>c DEF TimeLimit
<1>5. CASE Cancel \/ MarkStale \/ UNCHANGED vars
  BY <1>5 DEF Cancel, MarkStale, vars, Texts, Running, env
<1> QED
  BY <1>1, <1>2, <1>3, <1>4, <1>5 DEF Next

-----------------------------------------------------------------------------
(* Stops.                                                                   *)

\* Nothing is late before anything was stopped.
LEMMA StopsInit == Init => Stops
BY DEF Init, Stops, StopTakesHold

\* A step that adds no late work keeps the account, unless it passes a look.
LEMMA StopsStay ==
  ASSUME Stops, UNCHANGED late, cancelled => cancelled', stale => stale',
         at' = "looked" => at = "looked" \/ ~cancelled,
         at' \in InTool => at \in InTool \/ ~cancelled,
         at' \in {"fresh"} \cup InTool =>
           \/ at \in {"fresh"} \cup InTool /\ todo' = todo
           \/ ~stale
           \/ Head(todo') \in StatusCall
  PROVE  Stops'
BY DEF Stops, StopTakesHold, late

\* Every step keeps the account of late work.
LEMMA StopsStep == TypeOK /\ Stops /\ [Next]_vars => Stops'
<1> SUFFICES ASSUME TypeOK, Stops, [Next]_vars PROVE Stops'
  OBVIOUS
<1>0. lateReads \in Nat /\ lateResults \in Nat /\ staleResults \in Nat
  BY DEF TypeOK
<1> USE DEF budget, pending, request, env, InTool
\* A worker that returns or is not inside a call is past no look.
<1>r. ASSUME at' \notin {"fresh"} \cup InTool, UNCHANGED late, cancelled => cancelled',
             stale => stale'
      PROVE  Stops'
  BY <1>r, StopsStay
<1>f. ASSUME NEW code, Fails(code), UNCHANGED late PROVE Stops'
  BY <1>f, <1>r DEF Fails, Return
<1>1. CASE Local
  <2>1. CASE CancelledAtTop \/ RequestRound
    BY <2>1, <1>r DEF CancelledAtTop, RequestRound, ReturnCancelled, Return
  <2>2. CASE RoundsExhausted \/ CallRefused \/ CallCancelled
    BY <2>2, <1>f DEF RoundsExhausted, CallRefused, CallCancelled
  <2>3. CASE SnapshotIsFresh
    BY <2>3, StopsStay DEF SnapshotIsFresh, StaleRefuses
  <2>4. CASE CallBegins \/ TokenIsAlive
    BY <2>4, StopsStay DEF CallBegins, TokenIsAlive
  <2>5. CASE ReadBegins
    <3>1. /\ at = "looked" /\ at' = "read" /\ UNCHANGED <<cancelled, stale, todo>>
          /\ lateReads' = IF cancelled THEN lateReads + 1 ELSE lateReads
          /\ UNCHANGED <<lateResults, staleResults>>
      BY <2>5 DEF ReadBegins
    <3>2. lateReads' = 1 => cancelled
      BY <3>1 DEF Stops
    <3>3. lateReads' <= 1
      BY <3>1, <1>0 DEF Stops, StopTakesHold
    <3> QED
      BY <3>1, <3>2, <3>3 DEF Stops, StopTakesHold
  <2> QED
    BY <1>1, <2>1, <2>2, <2>3, <2>4, <2>5 DEF Local
<1>2. CASE Provider
  <2>1. CASE Headers \/ Delta
    BY <2>1, <1>r DEF Headers, Delta
  <2>2. CASE RequestFails \/ RequestCancelled \/ StreamFails
    BY <2>2, <1>f DEF RequestFails, RequestCancelled, StreamFails
  <2>3. CASE StreamCancelled \/ Completed \/ AuditChecked
    BY <2>3, <1>r DEF StreamCancelled, ReturnCancelled, Completed, AuditChecked, Fails, Return
  <2>4. ASSUME NEW calls \in Batch, ToolCallsRefused(calls) \/ ToolCalls(calls) PROVE Stops'
    BY <2>4, <1>f, <1>r DEF ToolCallsRefused, ToolCalls
  <2> QED
    BY <1>2, <2>1, <2>2, <2>3, <2>4 DEF Provider
<1>3. CASE Repository
  <2>1. CASE NextFile
    BY <2>1, StopsStay DEF NextFile
  <2>2. CASE CallFails
    BY <2>2, <1>f DEF CallFails
  <2>3. ASSUME NEW size \in 0..MaxSize, ResultTooLarge(size) PROVE Stops'
    BY <2>3, <1>f DEF ResultTooLarge
  <2>4. ASSUME NEW size \in 0..MaxSize, CallReturns(size) PROVE Stops'
    <3>1. /\ at \in InTool /\ at' \in {"top", "calls"} /\ UNCHANGED <<cancelled, stale, lateReads>>
          /\ lateResults' = IF cancelled THEN lateResults + 1 ELSE lateResults
          /\ staleResults' = IF StaleRefuses THEN staleResults + 1 ELSE staleResults
      BY <2>4 DEF CallReturns, CallIsDone
    <3>2. lateResults' <= 1 /\ (lateResults' = 1 => cancelled)
      BY <3>1, <1>0 DEF Stops, StopTakesHold
    <3>3. staleResults' <= 1 /\ (staleResults' = 1 => stale)
      BY <3>1, <1>0 DEF Stops, StopTakesHold, StaleRefuses
    <3> QED
      BY <3>1, <3>2, <3>3 DEF Stops, StopTakesHold
  <2> QED
    BY <1>3, <2>1, <2>2, <2>3, <2>4 DEF Repository
<1>4. CASE TimeLimit
  BY <1>4, <1>f DEF TimeLimit
<1>5. CASE Cancel \/ MarkStale \/ UNCHANGED vars
  BY <1>5, StopsStay DEF Cancel, MarkStale, vars
<1> QED
  BY <1>1, <1>2, <1>3, <1>4, <1>5 DEF Next

-----------------------------------------------------------------------------
(* The theorems.                                                            *)

\* The inductive invariant: types, the queue of calls, budgets, texts and stops.
THEOREM Inductive == Spec => []IInv
<1>1. Init => IInv
  BY TypeInit, CallsInit, BudgetsInit, TextsInit, StopsInit DEF IInv
<1>2. IInv /\ [Next]_vars => IInv'
  BY TypeStep, CallsStep, BudgetsStep, TextsStep, StopsStep DEF IInv
<1> QED
  BY <1>1, <1>2, PTL DEF Spec

\* Every variable of the loop keeps its type (run_bounded's locals).
THEOREM TypeInvariant == Spec => []TypeOK
<1>1. IInv => TypeOK
  BY DEF IInv
<1> QED
  BY <1>1, Inductive, PTL

\* The limits of AgentLimits bound what a run executes, sends and repeats,
\* however the provider splits its requests over rounds.
THEOREM BudgetsInvariant == Spec => []BudgetsHold
<1>1. IInv => BudgetsHold
  <2> SUFFICES ASSUME IInv PROVE BudgetsHold
    OBVIOUS
  <2>1. ran \in Nat /\ asked \in Nat /\ MaxCalls \in Nat
    BY LimitsAssumption DEF IInv, TypeOK
  <2> QED
    BY <2>1 DEF IInv, Budgets, BudgetsHold
<1> QED
  BY <1>1, Inductive, PTL

\* A request leaves the loop only with a result for every call, each counted
\* against the byte budget and recorded in the trace.
THEOREM RequestInvariant == Spec => []RequestComplete
<1>1. IInv => RequestComplete
  <2> SUFFICES ASSUME IInv PROVE RequestComplete
    OBVIOUS
  <2>1. Len(<<>>) = 0 /\ asked \in Nat /\ given \in Nat
    BY EmptySeq DEF IInv, TypeOK
  <2> QED
    BY <2>1 DEF IInv, Calls, Running, RequestComplete
<1> QED
  BY <1>1, Inductive, PTL

\* What a completed or cancelled answer says is what was streamed, over any
\* number of rounds.
THEOREM FinalTextInvariant == Spec => []FinalTextIsShown
<1>1. IInv => FinalTextIsShown
  BY DEF IInv, Texts, FinalTextIsShown
<1> QED
  BY <1>1, Inductive, PTL

\* Requests and texts account for everything the rounds produced.
THEOREM AccountsTheorem == Spec => []AccountsHold
<1>1. RequestComplete /\ FinalTextIsShown => AccountsHold
  BY DEF AccountsHold
<1> QED
  BY <1>1, RequestInvariant, FinalTextInvariant, PTL

\* However many calls, files and rounds are left, a cancel lets at most one more file be
\* opened and one more result through, and a mark at most one more result that
\* describes the snapshot.
THEOREM StopTheorem == Spec => []StopTakesHold
<1>1. IInv => StopTakesHold
  BY DEF IInv, Stops
<1> QED
  BY <1>1, Inductive, PTL
=============================================================================
