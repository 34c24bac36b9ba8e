--------------------------- MODULE ChatTurnProofs ---------------------------
(***************************************************************************)
(* Proofs about ChatTurn for any set of turns and any bounds.              *)
(***************************************************************************)
EXTENDS ChatTurn, FiniteSetTheorems, FunctionTheorems, WellFoundedInduction,
        SequenceTheorems, TLAPS

\* The text of an open message and what its writer still holds were all produced
\* by the run; a message that is not stored has none.
Counted ==
  \A t \in Turn :
    /\ buffer[t] <= produced[t] /\ text[t] <= produced[t]
    /\ row[t] \in OpenRow => text[t] + buffer[t] <= produced[t]
    /\ row[t] \in {"Absent", "Erased"} => text[t] = 0

FinalIsCompleted == \A t \in Turn : trace[t] = "Final" => row[t] = "Completed"

\* A completed event, a completion about to be stored and a stored one all come
\* from a run that completed and has nothing more to do.
RanToCompletion(t) == outcome[t] = "Completed" /\ worker[t] = "done"

EventsAreOwn ==
  \A i \in 1..Len(queue) : queue[i].kind = "Completed" => RanToCompletion(queue[i].turn)

CompletionIsOwn ==
  /\ completion /\ active # None => RanToCompletion(active)
  /\ \A t \in Turn : row[t] = "Completed" => RanToCompletion(t)

\* Only a run that has returned is drained.
HasOutcome == \A t \in Turn : worker[t] = "draining" => outcome[t] # "None"

\* A dead process leaves nothing in memory.
Asleep ==
  ~up =>
    /\ ~store /\ stage = None /\ active = None /\ ~completion
    /\ conv = 0 /\ queue = <<>> /\ shown = <<>>
    /\ \A t \in Turn : view[t] = "None" /\ worker[t] \in {"None", "done"}

\* A turn between begin_turn and the spawn has the ordinal after the screen's.
Staged ==
  stage # None =>
    /\ active = None /\ worker[stage] = "None"
    /\ IF store THEN row[stage] \in OpenRow /\ place[stage] = <<conv, Len(shown) + 1>>
       ELSE row[stage] = "Absent"

Activated == active # None /\ store => row[active] \in OpenRow

\* The invariant of one turn.
Ends ==
  /\ EndsAreConsistent
  /\ Counted /\ FinalIsCompleted /\ HasOutcome /\ EventsAreOwn
  /\ CompletionIsOwn /\ Asleep /\ Staged /\ Activated

\* Turns whose message is stored.
Stored == {t \in Turn : row[t] \notin {"Absent", "Erased"}}

\* Conversation c holds the sequence numbers 1 to k, none twice and none missing.
Filled(c, k) ==
  /\ \A t \in RowsOf(c) : place[t][2] \in 1..k
  /\ \A n \in 1..k : \E t \in RowsOf(c) : place[t][2] = n

Numbered ==
  /\ \A t, u \in Stored : place[t] = place[u] => t = u
  /\ \A c \in 0..MaxConv : \E k \in Nat : Filled(c, k)

\* Nothing is stored in a conversation that was never created.
Placed ==
  /\ conv <= made /\ kept \subseteq 1..made
  /\ \A t \in Stored : place[t][1] \in 1..made

\* With a store, every message on screen is stored where the screen has it, unless
\* the conversation was deleted and left on screen.
Seated ==
  store /\ conv \in kept =>
    \A i \in 1..Len(shown) : shown[i] \in Stored /\ place[shown[i]] = <<conv, i>>

\* The invariant of the conversations.
Order == Numbered /\ Placed /\ Seated

\* A turn with a status on screen, and the active one, are among the messages shown.
OnScreen ==
  \A t \in Turn : view[t] # "None" \/ active = t => \E i \in 1..Len(shown) : shown[i] = t

IInv == TypeOK /\ Ends /\ Order /\ OnScreen

\* Without database faults, moreover, every open turn is in the UI thread's hands
\* and the screen misses none of its conversation.
Settled ==
  up =>
    /\ store
    /\ \A t \in Turn : row[t] \in OpenRow => t = stage \/ t = active
    /\ \A t \in RowsOf(conv) : t = stage \/ \E i \in 1..Len(shown) : shown[i] = t
    /\ shown # <<>> \/ stage # None => conv \in kept

-----------------------------------------------------------------------------
(* Counting.                                                                *)

\* A nonempty set of conversation ids has a largest one.
LEMMA MaxOfIds ==
  ASSUME NEW n \in Nat, NEW S \in SUBSET (1..n), S # {}
  PROVE  Max(S) \in S /\ \A y \in S : Max(S) >= y
<1> DEFINE D == {n - y : y \in S}
<1>1. D \subseteq Nat
  OBVIOUS
<1>2. D # {}
  <2>1. PICK y \in S : TRUE
    OBVIOUS
  <2>2. n - y \in D
    BY <2>1
  <2>3. QED
    BY <2>2
<1> DEFINE R == OpToRel(<, Nat)
<1>3. PICK d \in D : \A e \in D : ~(<<e, d>> \in R)
  <2>1. IsWellFoundedOn(R, Nat)
    BY NatLessThanWellFounded
  <2> HIDE DEF D, R
  <2>2. QED
    BY <1>1, <1>2, <2>1, WFMin
<1> HIDE DEF R
<1>4. PICK x \in S : d = n - x
  OBVIOUS
<1>5. \A y \in S : x >= y
  <2> SUFFICES ASSUME NEW y \in S PROVE x >= y
    OBVIOUS
  <2>1. n - y \in D /\ n - y \in Nat /\ n - x \in Nat
    OBVIOUS
  <2>2. ~(n - y < n - x)
    BY <1>3, <1>4, <2>1 DEF R, OpToRel
  <2>3. QED
    BY <2>2
<1>6. QED
  BY <1>5 DEF Max

\* If f numbers the members of S from 1 without a repetition, and every number
\* up to n is taken, then n members have numbers up to n.
LEMMA CountUpTo ==
  ASSUME NEW S, NEW f \in [S -> Nat \ {0}], NEW n \in Nat,
         \A t, u \in S : f[t] = f[u] => t = u,
         \A i \in 1..n : \E t \in S : f[t] = i
  PROVE  /\ IsFiniteSet({t \in S : f[t] <= n})
         /\ Cardinality({t \in S : f[t] <= n}) = n
<1> DEFINE T == {t \in S : f[t] <= n}
           g == [t \in T |-> f[t]]
<1>1. g \in [T -> 1..n]
  OBVIOUS
<1>2. \A t, u \in T : g[t] = g[u] => t = u
  OBVIOUS
<1>3. \A i \in 1..n : \E t \in T : g[t] = i
  OBVIOUS
<1>4. g \in Bijection(T, 1..n)
  <2> HIDE DEF g, T
  <2>1. QED
    BY <1>1, <1>2, <1>3, Fun_IsBij
<1>5. ExistsBijection(1..n, T)
  <2> HIDE DEF g, T
  <2>1. QED
    BY <1>4, Fun_BijInverse DEF ExistsBijection
<1>6. IsFiniteSet(1..n) /\ Cardinality(1..n) = n
  BY FS_Interval
<1>7. QED
  <2> HIDE DEF g, T
  <2>1. IsFiniteSet(T) /\ Cardinality(T) = n
    BY <1>5, <1>6, FS_Bijection
  <2>2. QED
    BY <2>1 DEF T

\* Reading a conversation in order finds every message at its sequence number.
LEMMA InOrderPlaces ==
  ASSUME TypeOK, Numbered, NEW c \in 0..MaxConv
  PROVE  /\ InOrder(c) \in Seq(RowsOf(c))
         /\ \A i \in 1..Len(InOrder(c)) : place[InOrder(c)[i]] = <<c, i>>
         /\ \A t \in RowsOf(c) : \E i \in 1..Len(InOrder(c)) : InOrder(c)[i] = t
<1> DEFINE S == RowsOf(c)
           f == [t \in S |-> place[t][2]]
           Below(t) == {u \in S : place[u][2] < place[t][2]}
           e(n) == CHOOSE t \in S : Cardinality(Below(t)) = n - 1
<1>1. PICK k \in Nat : Filled(c, k)
  BY DEF Numbered
<1>2. /\ S \subseteq Stored /\ S \subseteq Turn
      /\ \A t \in S : place[t] = <<c, place[t][2]>>
  <2>1. S \subseteq Stored /\ S \subseteq Turn
    BY DEF RowsOf, Stored
  <2>2. ASSUME NEW t \in S PROVE place[t] = <<c, place[t][2]>>
    <3>1. place[t] \in (0..MaxConv) \X Nat /\ place[t][1] = c
      BY <2>2 DEF RowsOf, TypeOK
    <3>2. QED
      BY <3>1
  <2>3. QED
    BY <2>1, <2>2
<1>3. f \in [S -> Nat \ {0}]
  BY <1>1 DEF Filled
<1>4. \A t, u \in S : f[t] = f[u] => t = u
  BY <1>2 DEF Numbered
<1>5. \A i \in 1..k : \E t \in S : f[t] = i
  BY <1>1 DEF Filled
<1>6. \A t \in S : f[t] = place[t][2] /\ f[t] \in 1..k
  BY <1>1 DEF Filled
<1> HIDE DEF f, S
<1>7. \A n \in 0..k : Cardinality({u \in S : f[u] <= n}) = n
  BY <1>3, <1>4, <1>5, CountUpTo
<1>8. \A t \in S : Cardinality(Below(t)) = place[t][2] - 1
  <2> SUFFICES ASSUME NEW t \in S PROVE Cardinality(Below(t)) = place[t][2] - 1
    OBVIOUS
  <2>1. f[t] \in 1..k /\ f[t] = place[t][2]
    BY <1>6
  <2>2. Below(t) = {u \in S : f[u] <= f[t] - 1}
    BY <1>6, <2>1
  <2>3. QED
    BY <1>7, <2>1, <2>2
<1>9. Cardinality(S) = k
  <2>1. S = {u \in S : f[u] <= k}
    BY <1>6
  <2>2. QED
    BY <1>7, <2>1
<1>10. \A n \in 1..k : e(n) \in S /\ place[e(n)][2] = n
  <2> SUFFICES ASSUME NEW n \in 1..k PROVE e(n) \in S /\ place[e(n)][2] = n
    OBVIOUS
  <2>1. PICK t \in S : f[t] = n
    BY <1>5
  <2>2. Cardinality(Below(t)) = n - 1
    BY <1>6, <1>8, <2>1
  <2>3. e(n) \in S /\ Cardinality(Below(e(n))) = n - 1
    BY <2>2
  <2> HIDE DEF e
  <2>4. place[e(n)][2] - 1 = n - 1 /\ place[e(n)][2] \in 1..k
    BY <1>6, <1>8, <2>3
  <2>5. QED
    BY <2>3, <2>4
<1>11. InOrder(c) = [n \in 1..k |-> e(n)]
  BY <1>9 DEF InOrder, S
<1> HIDE DEF e
<1>12. /\ InOrder(c) \in Seq(S) /\ Len(InOrder(c)) = k
       /\ \A i \in 1..k : InOrder(c)[i] = e(i)
  BY <1>10, <1>11
<1>13. \A i \in 1..k : place[InOrder(c)[i]] = <<c, i>>
  BY <1>2, <1>10, <1>12
<1>14. \A t \in S : \E i \in 1..k : InOrder(c)[i] = t
  <2> SUFFICES ASSUME NEW t \in S PROVE \E i \in 1..k : InOrder(c)[i] = t
    OBVIOUS
  <2>1. f[t] \in 1..k /\ e(f[t]) \in S /\ f[e(f[t])] = f[t]
    BY <1>6, <1>10
  <2>2. QED
    BY <1>4, <1>12, <2>1
<1>15. QED
  BY <1>12, <1>13, <1>14 DEF S
-----------------------------------------------------------------------------
(* The invariant of one turn.                                               *)

\* What row, message, trace and text say about an answer.
Answered == TurnAndMessageAgree /\ CompletedIsGrounded /\ FinalIsCompleted /\ Counted

\* The per-turn counts of deltas are natural numbers.
LEMMA CountsAreNat ==
  ASSUME TypeOK
  PROVE  \A t \in Turn : produced[t] \in Nat /\ buffer[t] \in Nat /\ text[t] \in Nat
BY BoundAssumption DEF TypeOK

\* A terminal transaction, with the trace that belongs to its status, keeps them in
\* agreement.
LEMMA TxAnswers ==
  ASSUME TypeOK, Answered, NEW t \in Turn, NEW s \in Terminal, TerminalTx(t, s),
         UNCHANGED <<produced, buffer, grounded>>,
         NEW p \in {"None", "Empty", "Final"}, trace' = [trace EXCEPT ![t] = p],
         s = "Completed" /\ grounded[t] => p = "Final",
         p = "Final" => s = "Completed"
  PROVE  Answered'
<1> USE DEF Answered, TypeOK
<1>1. row' = [row EXCEPT ![t] = s] /\ closed' = [closed EXCEPT ![t] = TRUE]
  BY DEF TerminalTx
<1>2. TurnAndMessageAgree'
  <2> SUFFICES ASSUME NEW u \in Turn, row'[u] # "Erased"
               PROVE  closed'[u] <=> row'[u] \in Terminal
    BY DEF TurnAndMessageAgree
  <2>1. CASE u = t
    BY <1>1, <2>1
  <2>2. CASE u # t
    <3>1. closed'[u] = closed[u] /\ row'[u] = row[u]
      BY <1>1, <2>2
    <3>2. QED
      BY <3>1 DEF TurnAndMessageAgree
  <2>3. QED
    BY <2>1, <2>2
<1>3. CompletedIsGrounded' /\ FinalIsCompleted'
  <2> SUFFICES ASSUME NEW u \in Turn
               PROVE  /\ grounded[u] => (trace'[u] = "Final" <=> row'[u] = "Completed")
                      /\ trace'[u] = "Final" => row'[u] = "Completed"
    BY DEF CompletedIsGrounded, FinalIsCompleted
  <2>1. CASE u = t
    <3>1. row'[u] = s /\ trace'[u] = p
      BY <1>1, <2>1
    <3>2. QED
      BY <3>1, <2>1
  <2>2. CASE u # t
    <3>1. row'[u] = row[u] /\ trace'[u] = trace[u]
      BY <1>1, <2>2
    <3>2. QED
      BY <3>1 DEF CompletedIsGrounded, FinalIsCompleted
  <2>3. QED
    BY <2>1, <2>2
<1>4. Counted'
  <2> SUFFICES ASSUME NEW u \in Turn
               PROVE  /\ buffer[u] <= produced[u] /\ text'[u] <= produced[u]
                      /\ row'[u] \in OpenRow => text'[u] + buffer[u] <= produced[u]
                      /\ row'[u] \in {"Absent", "Erased"} => text'[u] = 0
    BY DEF Counted
  <2>1. text' = [text EXCEPT ![t] = FinalText(t, s)]
    BY DEF TerminalTx
  <2>2. CASE u = t
    <3>1. row'[u] = s /\ text'[u] = FinalText(t, s) /\ produced[u] \in Nat /\ buffer[u] <= produced[u]
      BY <1>1, <2>1, <2>2, BoundAssumption DEF Counted
    <3>2. QED
      BY <3>1, <2>2 DEF FinalText, OpenRow, Terminal
  <2>3. CASE u # t
    BY <1>1, <2>1, <2>3 DEF Counted
  <2>4. QED
    BY <2>2, <2>3
<1>5. QED
  BY <1>2, <1>3, <1>4

\* So does a step that opens no ended message and ends no open one.
LEMMA SameEnds ==
  ASSUME TurnAndMessageAgree, UNCHANGED closed,
         \A u \in Turn : row'[u] \in Terminal <=> row[u] \in Terminal,
         \A u \in Turn : row[u] = "Erased" => row'[u] = "Erased"
  PROVE  TurnAndMessageAgree'
BY DEF TurnAndMessageAgree

\* So does a step that touches none of them.
LEMMA SameAnswers ==
  ASSUME Answered, UNCHANGED <<answer, grounded, produced, buffer>>
  PROVE  Answered'
BY DEF Answered, TurnAndMessageAgree, CompletedIsGrounded, FinalIsCompleted, Counted, answer

\* finish_turn, for a turn that did not complete.
LEMMA FinishAnswers ==
  ASSUME TypeOK, Answered, NEW t \in Turn, NEW s \in {"Cancelled", "Failed"}, FinishTurn(t, s),
         UNCHANGED <<produced, buffer, grounded>>
  PROVE  Answered'
<1>1. CASE UNCHANGED answer
  BY <1>1, SameAnswers
<1>2. CASE TerminalTx(t, s) /\ UNCHANGED trace
  <2>1. trace' = [trace EXCEPT ![t] = trace[t]] /\ trace[t] \in {"None", "Empty", "Final"}
    BY <1>2 DEF TypeOK
  <2>2. trace[t] # "Final"
    BY <1>2 DEF Answered, FinalIsCompleted, TerminalTx, OpenRow
  <2>3. QED
    BY <1>2, <2>1, <2>2, TxAnswers DEF Terminal
<1>3. QED
  BY <1>1, <1>2 DEF FinishTurn, TxFails

\* An empty or absent trace suits any row that is not completed.
LEMMA UnansweredTrace ==
  ASSUME TypeOK, Answered, NEW t \in Turn, row[t] # "Completed",
         NEW p \in {"None", "Empty"}, trace' = [trace EXCEPT ![t] = p],
         UNCHANGED <<row, grounded>>
  PROVE  CompletedIsGrounded' /\ FinalIsCompleted'
<1>1. trace'[t] = p /\ \A u \in Turn : u # t => trace'[u] = trace[u]
  BY DEF TypeOK
<1>2. QED
  BY <1>1 DEF Answered, CompletedIsGrounded, FinalIsCompleted

\* Every step keeps row, message, trace and text in agreement.
LEMMA NextAnswers ==
  ASSUME TypeOK, Ends, [Next]_vars
  PROVE  Answered'
<1>1. Answered
  BY DEF Ends, EndsAreConsistent, Answered
<1> USE DEF answer, db, tasks
<1>2. ASSUME NEW t \in Turn, NEW g \in BOOLEAN, SubmitBegin(t, g) PROVE Answered'
  <2>1. /\ row[t] = "Absent"
        /\ row' = [row EXCEPT ![t] = "Pending"] \/ row' = row
        /\ (grounded' = [grounded EXCEPT ![t] = g] /\ row' # row) \/ UNCHANGED grounded
        /\ UNCHANGED <<closed, text, trace, produced, buffer>>
    BY <1>2 DEF SubmitBegin, TypeOK
  <2>2. \A u \in Turn : row'[u] = row[u] \/ (row[u] = "Absent" /\ row'[u] = "Pending")
    <3>1. CASE row' = row
      BY <3>1
    <3>2. CASE row' = [row EXCEPT ![t] = "Pending"]
      BY <2>1, <3>2 DEF TypeOK
    <3>3. QED
      BY <2>1, <3>1, <3>2
  <2>3. TurnAndMessageAgree'
    BY <1>1, <2>1, <2>2, SameEnds DEF Answered, Terminal
  <2>4. FinalIsCompleted'
    BY <1>1, <2>1, <2>2 DEF Answered, FinalIsCompleted
  <2>5. CompletedIsGrounded'
    <3>1. CASE UNCHANGED grounded
      BY <1>1, <2>1, <2>2, <3>1 DEF Answered, CompletedIsGrounded
    <3>2. CASE grounded' = [grounded EXCEPT ![t] = g] /\ row' = [row EXCEPT ![t] = "Pending"]
      <4>1. row'[t] = "Pending" /\ trace'[t] # "Final"
        BY <1>1, <2>1, <3>2 DEF Answered, FinalIsCompleted, TypeOK
      <4>2. \A u \in Turn : u # t => grounded'[u] = grounded[u]
        BY <3>2 DEF TypeOK
      <4>3. QED
        BY <1>1, <2>1, <2>2, <4>1, <4>2 DEF Answered, CompletedIsGrounded
    <3>3. QED
      BY <2>1, <3>1, <3>2
  <2>6. Counted'
    BY <1>1, <2>1, <2>2, CountsAreNat DEF Answered, Counted, OpenRow
  <2>7. QED
    BY <2>3, <2>4, <2>5, <2>6 DEF Answered
<1>3. ASSUME NEW t \in Turn, SubmitReady(t) PROVE Answered'
  <2>1. row[t] # "Completed"
    BY <1>3, NoneAssumption DEF SubmitReady, Ends, Staged, OpenRow
  <2>2. /\ trace' = [trace EXCEPT ![t] = "Empty"] \/ trace' = trace
        /\ UNCHANGED <<row, closed, text, grounded, produced, buffer>>
    BY <1>3 DEF SubmitReady
  <2>3. CompletedIsGrounded' /\ FinalIsCompleted'
    <3>1. CASE trace' = [trace EXCEPT ![t] = "Empty"]
      BY <1>1, <2>1, <2>2, <3>1, UnansweredTrace
    <3>2. CASE trace' = trace
      BY <1>1, <2>2, <3>2 DEF Answered, CompletedIsGrounded, FinalIsCompleted
    <3>3. QED
      BY <2>2, <3>1, <3>2
  <2>4. TurnAndMessageAgree' /\ Counted'
    BY <1>1, <2>2 DEF Answered, TurnAndMessageAgree, Counted
  <2>5. QED
    BY <2>3, <2>4 DEF Answered
<1>4. ASSUME NEW t \in Turn, SubmitFails(t) PROVE Answered'
  <2>1. row[t] # "Completed"
    BY <1>4, NoneAssumption DEF SubmitFails, Ends, Staged, OpenRow
  <2>2. PICK p \in {"None", "Empty"} : trace' = [trace EXCEPT ![t] = p]
    BY <1>4 DEF SubmitFails
  <2>3. UNCHANGED <<produced, buffer, grounded>>
    BY <1>4 DEF SubmitFails
  <2>4. CASE TerminalTx(t, "Failed")
    BY <1>1, <2>2, <2>3, <2>4, TxAnswers DEF Terminal
  <2>5. CASE UNCHANGED <<row, closed, text>>
    <3>1. CompletedIsGrounded' /\ FinalIsCompleted'
      BY <1>1, <2>1, <2>2, <2>3, <2>5, UnansweredTrace
    <3>2. TurnAndMessageAgree' /\ Counted'
      BY <1>1, <2>3, <2>5 DEF Answered, TurnAndMessageAgree, Counted
    <3>3. QED
      BY <3>1, <3>2 DEF Answered
  <2>6. QED
    BY <1>4, <2>4, <2>5 DEF SubmitFails
<1>5. ASSUME NEW t \in Turn, Delta(t) PROVE Answered'
  <2>1. UNCHANGED <<answer, grounded>>
    BY <1>5 DEF Delta
  <2>2. TurnAndMessageAgree' /\ CompletedIsGrounded' /\ FinalIsCompleted'
    BY <1>1, <2>1 DEF Answered, TurnAndMessageAgree, CompletedIsGrounded, FinalIsCompleted
  <2>3. Counted'
    <3> SUFFICES ASSUME NEW u \in Turn
                 PROVE  /\ buffer'[u] <= produced'[u] /\ text[u] <= produced'[u]
                        /\ row[u] \in OpenRow => text[u] + buffer'[u] <= produced'[u]
                        /\ row[u] \in {"Absent", "Erased"} => text[u] = 0
      BY <2>1 DEF Counted
    <3>1. /\ produced[u] \in Nat /\ buffer[u] \in Nat /\ text[u] \in Nat
          /\ buffer[u] <= produced[u] /\ text[u] <= produced[u]
          /\ row[u] \in OpenRow => text[u] + buffer[u] <= produced[u]
          /\ row[u] \in {"Absent", "Erased"} => text[u] = 0
      BY <1>1, BoundAssumption DEF Answered, Counted, TypeOK
    <3>2. \/ produced'[u] = produced[u] /\ buffer'[u] = buffer[u]
          \/ produced'[u] = produced[u] + 1 /\ buffer'[u] \in {buffer[u], buffer[u] + 1}
      BY <1>5 DEF Delta, TypeOK
    <3> HIDE DEF answer, db, tasks
    <3>3. QED
      BY <3>1, <3>2
  <2>4. QED
    BY <2>2, <2>3 DEF Answered
<1>6. ASSUME NEW t \in Turn, Flush(t) PROVE Answered'
  <2>1. CASE UNCHANGED <<row, text>>
    <3>1. UNCHANGED <<answer, grounded, produced>> /\ buffer' = [buffer EXCEPT ![t] = 0]
      BY <1>6, <2>1 DEF Flush
    <3>2. TurnAndMessageAgree' /\ CompletedIsGrounded' /\ FinalIsCompleted'
      BY <1>1, <3>1 DEF Answered, TurnAndMessageAgree, CompletedIsGrounded, FinalIsCompleted
    <3>3. Counted'
      <4>1. \A u \in Turn : buffer'[u] = buffer[u] \/ buffer'[u] = 0
        BY <3>1 DEF TypeOK
      <4>2. QED
        BY <1>1, <3>1, <4>1, CountsAreNat DEF Answered, Counted
    <3>4. QED
      BY <3>2, <3>3 DEF Answered
  <2>2. CASE /\ row[t] \in OpenRow
             /\ row' = [row EXCEPT ![t] = "Streaming"]
             /\ text' = [text EXCEPT ![t] = @ + buffer[t]]
    <3>1. UNCHANGED <<closed, trace, grounded, produced>> /\ buffer' = [buffer EXCEPT ![t] = 0]
      BY <1>6 DEF Flush
    <3>2. TurnAndMessageAgree'
      BY <1>1, <2>2, <3>1, SameEnds DEF Answered, Terminal, OpenRow, TypeOK
    <3>3. CompletedIsGrounded' /\ FinalIsCompleted'
      BY <1>1, <2>2, <3>1 DEF Answered, CompletedIsGrounded, FinalIsCompleted, OpenRow, TypeOK
    <3>4. Counted'
      BY <1>1, <2>2, <3>1, BoundAssumption DEF Answered, Counted, TypeOK
    <3>5. QED
      BY <3>2, <3>3, <3>4 DEF Answered
  <2>3. QED
    BY <1>6, <2>1, <2>2 DEF Flush
<1>7. ASSUME NEW t \in Turn, OnFinished(t) PROVE Answered'
  <2>1. UNCHANGED <<produced, buffer, grounded>>
    BY <1>7 DEF OnFinished
  <2>2. CASE Complete(t)
    <3>1. /\ trace' = [trace EXCEPT ![t] = IF grounded[t] THEN "Final" ELSE @]
          /\ TerminalTx(t, "Completed")
      BY <2>2 DEF Complete
    <3>2. CASE grounded[t]
      BY <1>1, <2>1, <3>1, <3>2, TxAnswers DEF Terminal
    <3>3. CASE ~grounded[t]
      <4>1. trace[t] \in {"None", "Empty", "Final"} /\ row[t] # "Completed"
        BY <3>1 DEF TypeOK, TerminalTx, OpenRow
      <4>2. trace[t] # "Final"
        BY <1>1, <4>1 DEF Answered, FinalIsCompleted
      <4>3. trace' = [trace EXCEPT ![t] = trace[t]]
        BY <3>1, <3>3
      <4>4. QED
        BY <1>1, <2>1, <3>1, <3>3, <4>1, <4>2, <4>3, TxAnswers DEF Terminal
    <3>4. QED
      BY <3>2, <3>3
  <2>3. CASE UNCHANGED answer
    BY <1>1, <2>1, <2>3, SameAnswers
  <2>4. CASE FinishTurn(t, "Failed")
    BY <1>1, <2>1, <2>4, FinishAnswers
  <2>5. QED
    BY <1>7, <2>2, <2>3, <2>4 DEF OnFinished
<1>8. ASSUME NEW t \in Turn, NEW s \in Terminal, OnStopped(t, s) PROVE Answered'
  BY <1>1, <1>8, FinishAnswers DEF OnStopped
<1>9. ASSUME NewConversation PROVE Answered'
  <2>1. UNCHANGED <<produced, buffer, grounded>>
    BY <1>9 DEF NewConversation
  <2>2. CASE UNCHANGED answer
    BY <1>1, <2>1, <2>2, SameAnswers
  <2>3. CASE active # None /\ store /\ TerminalTx(active, "Failed") /\ UNCHANGED trace
    <3>1. FinishTurn(active, "Failed") /\ active \in Turn
      BY <2>3 DEF FinishTurn, TypeOK
    <3>2. QED
      BY <1>1, <2>1, <3>1, FinishAnswers
  <2>4. QED
    BY <1>9, <2>2, <2>3 DEF NewConversation, TxFails
<1>10. ASSUME DeleteConversation PROVE Answered'
  <2>1. \A u \in Turn : \/ row'[u] = "Erased" /\ text'[u] = 0 /\ trace'[u] = "None"
                        \/ row'[u] = row[u] /\ text'[u] = text[u] /\ trace'[u] = trace[u]
    BY <1>10 DEF DeleteConversation, EraseRows
  <2>2. UNCHANGED <<closed, produced, buffer, grounded>>
    BY <1>10 DEF DeleteConversation
  <2>3. TurnAndMessageAgree'
    BY <1>1, <2>1, <2>2 DEF Answered, TurnAndMessageAgree
  <2>4. CompletedIsGrounded' /\ FinalIsCompleted'
    BY <1>1, <2>1, <2>2 DEF Answered, CompletedIsGrounded, FinalIsCompleted
  <2>5. Counted'
    BY <1>1, <2>1, <2>2, CountsAreNat DEF Answered, Counted, OpenRow
  <2>6. QED
    BY <2>3, <2>4, <2>5 DEF Answered
<1>11. ASSUME Exit PROVE Answered'
  <2>1. UNCHANGED <<answer, grounded, produced>> /\ buffer' = [t \in Turn |-> 0]
    BY <1>11 DEF Exit
  <2>2. TurnAndMessageAgree' /\ CompletedIsGrounded' /\ FinalIsCompleted'
    BY <1>1, <2>1 DEF Answered, TurnAndMessageAgree, CompletedIsGrounded, FinalIsCompleted
  <2>3. Counted'
    BY <1>1, <2>1, BoundAssumption DEF Answered, Counted, TypeOK
  <2>4. QED
    BY <2>2, <2>3 DEF Answered
<1>12. ASSUME Start PROVE Answered'
  <2>1. UNCHANGED <<trace, grounded, produced, buffer>>
    BY <1>12 DEF Start
  <2>2. ASSUME NEW u \in Turn
        PROVE  \/ /\ row[u] \in OpenRow /\ row'[u] = "Failed" /\ text'[u] = 0 /\ closed'[u] = TRUE
               \/ /\ row[u] \notin OpenRow /\ row'[u] = row[u] /\ text'[u] = text[u]
                  /\ closed'[u] = closed[u]
    BY <1>12 DEF Start, Interrupted, TypeOK
  <2>3. TurnAndMessageAgree'
    BY <1>1, <2>2 DEF Answered, TurnAndMessageAgree, Terminal
  <2>4. CompletedIsGrounded' /\ FinalIsCompleted'
    BY <1>1, <2>1, <2>2 DEF Answered, CompletedIsGrounded, FinalIsCompleted, OpenRow
  <2>5. Counted'
    <3> SUFFICES ASSUME NEW u \in Turn
                 PROVE  /\ buffer[u] <= produced[u] /\ text'[u] <= produced[u]
                        /\ row'[u] \in OpenRow => text'[u] + buffer[u] <= produced[u]
                        /\ row'[u] \in {"Absent", "Erased"} => text'[u] = 0
      BY <2>1 DEF Counted
    <3>1. produced[u] \in Nat /\ buffer[u] <= produced[u]
      BY <1>1, CountsAreNat DEF Answered, Counted
    <3>2. CASE row[u] \in OpenRow
      <4>1. row'[u] = "Failed" /\ text'[u] = 0
        BY <2>2, <3>2
      <4>2. QED
        BY <3>1, <4>1 DEF OpenRow
    <3>3. CASE row[u] \notin OpenRow
      BY <1>1, <2>2, <3>3 DEF Answered, Counted
    <3>4. QED
      BY <3>2, <3>3
  <2>6. QED
    BY <2>3, <2>4, <2>5 DEF Answered
<1>13. CASE UNCHANGED <<answer, grounded, produced, buffer>>
  BY <1>1, <1>13, SameAnswers
<1>14. QED
  BY <1>2, <1>3, <1>4, <1>5, <1>6, <1>7, <1>8, <1>9, <1>10, <1>11, <1>12, <1>13
     DEF Next, vars, Submit, Task, Poll, Control, Drained, RunEnds, OnDelta, OnCompleted, OnStale,
         Cancel, tasks, db
\* A run that has completed stays so: no step touches the outcome of a worker that
\* is done.
LEMMA RanStays ==
  ASSUME TypeOK, Ends, [Next]_vars
  PROVE  \A u \in Turn : RanToCompletion(u) => RanToCompletion(u)'
<1>1. ASSUME NEW t \in Turn, SubmitReady(t)
      PROVE  \A u \in Turn : RanToCompletion(u) => RanToCompletion(u)'
  <2>1. worker[t] = "None" /\ worker' = [worker EXCEPT ![t] = "running"] /\ UNCHANGED outcome
    BY <1>1, NoneAssumption DEF SubmitReady, Ends, Staged
  <2>2. QED
    BY <2>1 DEF RanToCompletion, TypeOK
<1>2. ASSUME NEW t \in Turn, NEW o \in Terminal \cup {"Error"}, RunEnds(t, o)
      PROVE  \A u \in Turn : RanToCompletion(u) => RanToCompletion(u)'
  BY <1>2 DEF RunEnds, RanToCompletion, TypeOK
<1>3. ASSUME NEW t \in Turn, Drained(t)
      PROVE  \A u \in Turn : RanToCompletion(u) => RanToCompletion(u)'
  BY <1>3 DEF Drained, RanToCompletion, TypeOK
<1>4. CASE Exit
  BY <1>4 DEF Exit, RanToCompletion, TypeOK
<1>5. CASE UNCHANGED <<worker, outcome>>
  BY <1>5 DEF RanToCompletion
<1>6. QED
  BY <1>1, <1>2, <1>3, <1>4, <1>5
     DEF Next, vars, Submit, Task, Poll, Control, SubmitBegin, SubmitFails, Delta, Flush, OnDelta,
         OnCompleted, OnFinished, OnStopped, OnStale, Cancel, NewConversation, DeleteConversation,
         Start, tasks

\* An event that joins the channel is checked when it is sent, and one that is taken
\* leaves the others as they are.
LEMMA EventsStay ==
  ASSUME TypeOK, EventsAreOwn, \A u \in Turn : RanToCompletion(u) => RanToCompletion(u)',
         \/ queue' = queue
         \/ queue' = <<>>
         \/ queue # <<>> /\ queue' = Tail(queue)
         \/ \E e, f \in [turn : Turn, kind : {"Delta", "Finished", "FinishedError"} \cup Terminal] :
              /\ queue' = Append(queue, e) \/ queue' = queue \o <<e, f>>
              /\ e.kind = "Completed" => RanToCompletion(e.turn)'
              /\ f.kind # "Completed"
  PROVE  EventsAreOwn'
<1> DEFINE Ev == [turn : Turn, kind : {"Delta", "Finished", "FinishedError"} \cup Terminal]
<1>1. queue \in Seq(Ev)
  BY DEF TypeOK
<1>2. \A i \in 1..Len(queue) :
        queue[i].kind = "Completed" => /\ outcome'[queue[i].turn] = "Completed"
                                       /\ worker'[queue[i].turn] = "done"
  <2> SUFFICES ASSUME NEW i \in 1..Len(queue), queue[i].kind = "Completed"
               PROVE  /\ outcome'[queue[i].turn] = "Completed"
                      /\ worker'[queue[i].turn] = "done"
    OBVIOUS
  <2>1. queue[i] \in Ev
    <3> HIDE DEF Ev
    <3>1. QED
      BY <1>1, ElementOfSeq
  <2>2. queue[i].turn \in Turn /\ RanToCompletion(queue[i].turn)
    BY <2>1 DEF EventsAreOwn
  <2>3. QED
    BY <2>2 DEF RanToCompletion
<1>3. CASE queue' = queue
  BY <1>2, <1>3 DEF EventsAreOwn, RanToCompletion
<1>4. CASE queue' = <<>>
  BY <1>4 DEF EventsAreOwn
<1>5. CASE queue # <<>> /\ queue' = Tail(queue)
  <2>1. Len(queue) \in Nat /\ Len(queue') = Len(queue) - 1
    BY <1>1, <1>5, HeadTailProperties
  <2>2. \A i \in 1..Len(queue') : queue'[i] = queue[i + 1]
    BY <1>1, <1>5, HeadTailProperties
  <2>3. \A i \in 1..Len(queue') : i + 1 \in 1..Len(queue)
    BY <2>1
  <2> HIDE DEF Ev
  <2>4. QED
    BY <1>2, <2>2, <2>3 DEF EventsAreOwn, RanToCompletion
<1>6. ASSUME NEW e \in Ev, NEW f \in Ev, queue' = Append(queue, e) \/ queue' = queue \o <<e, f>>,
             e.kind = "Completed" => RanToCompletion(e.turn)', f.kind # "Completed"
      PROVE  EventsAreOwn'
  <2>1. Len(queue) \in Nat
    BY <1>1
  <2>2. \A i \in 1..Len(queue') :
          \/ i \in 1..Len(queue) /\ queue'[i] = queue[i]
          \/ queue'[i] = e
          \/ queue'[i] = f
    <3>1. CASE queue' = Append(queue, e)
      BY <1>1, <2>1, <3>1
    <3>2. CASE queue' = queue \o <<e, f>>
      <4>1. <<e, f>> \in Seq(Ev) /\ Len(<<e, f>>) = 2
        OBVIOUS
      <4>2. /\ Len(queue') = Len(queue) + 2
            /\ \A i \in 1..Len(queue) + 2 :
                 queue'[i] = IF i <= Len(queue) THEN queue[i] ELSE <<e, f>>[i - Len(queue)]
        BY <1>1, <3>2, <4>1, ConcatProperties
      <4>3. \A i \in 1..Len(queue) + 2 :
              i \in 1..Len(queue) \/ i - Len(queue) = 1 \/ i - Len(queue) = 2
        BY <2>1
      <4>4. <<e, f>>[1] = e /\ <<e, f>>[2] = f
        OBVIOUS
      <4> HIDE DEF Ev
      <4>5. QED
        BY <2>1, <4>2, <4>3, <4>4
    <3>3. QED
      BY <1>6, <3>1, <3>2
  <2> HIDE DEF Ev
  <2>3. QED
    BY <1>2, <1>6, <2>2 DEF EventsAreOwn, RanToCompletion
<1>7. QED
  BY <1>3, <1>4, <1>5, <1>6

\* A Completed event is only sent by a worker whose run completed.
LEMMA NextEvents ==
  ASSUME TypeOK, Ends, [Next]_vars
  PROVE  EventsAreOwn'
<1> DEFINE Ev == [turn : Turn, kind : {"Delta", "Finished", "FinishedError"} \cup Terminal]
<1>1. EventsAreOwn /\ \A u \in Turn : RanToCompletion(u) => RanToCompletion(u)'
  BY RanStays DEF Ends
<1>2. ASSUME NEW t \in Turn, Delta(t) PROVE EventsAreOwn'
  <2>1. [turn |-> t, kind |-> "Delta"] \in Ev
    OBVIOUS
  <2>2. QED
    BY <1>1, <1>2, <2>1, EventsStay DEF Delta
<1>3. ASSUME NEW t \in Turn, Drained(t) PROVE EventsAreOwn'
  <2>1. worker'[t] = "done" /\ UNCHANGED outcome
    BY <1>3 DEF Drained, TypeOK
  <2>2. CASE queue' = queue \o <<Event(t, "Failed"), Event(t, "FinishedError")>>
    <3>1. Event(t, "Failed") \in Ev /\ Event(t, "FinishedError") \in Ev
      BY DEF Event, Terminal
    <3>2. Event(t, "Failed").kind # "Completed" /\ Event(t, "FinishedError").kind # "Completed"
      BY DEF Event
    <3>3. QED
      BY <1>1, <2>2, <3>1, <3>2, EventsStay
  <2>3. CASE /\ outcome[t] # "Error"
             /\ queue' = queue \o <<Event(t, outcome[t]), Event(t, "Finished")>>
    <3>1. outcome[t] \in Terminal
      BY <1>3, <2>3 DEF TypeOK, Drained, Ends, HasOutcome
    <3>2. Event(t, outcome[t]) \in Ev /\ Event(t, "Finished") \in Ev
      BY <3>1 DEF Event, Terminal
    <3>3. Event(t, "Finished").kind # "Completed"
      BY DEF Event
    <3> DEFINE e == Event(t, outcome[t])
               f == Event(t, "Finished")
    <3>4. PICK x \in Ev, y \in Ev : x = e /\ y = f
      BY <3>2
    <3>5. /\ queue' = queue \o <<x, y>> /\ y.kind # "Completed"
          /\ x.kind = "Completed" => RanToCompletion(x.turn)'
      BY <2>1, <2>3, <3>3, <3>4 DEF Event, RanToCompletion
    <3> HIDE DEF Ev, e, f
    <3>6. QED
      BY <1>1, <3>5, EventsStay DEF Ev
  <2>4. QED
    BY <1>3, <2>2, <2>3 DEF Drained
<1>4. CASE queue' = queue
  BY <1>1, <1>4, EventsStay
<1>5. CASE queue' = <<>>
  BY <1>1, <1>5, EventsStay
<1>6. CASE queue # <<>> /\ queue' = Tail(queue)
  BY <1>1, <1>6, EventsStay
<1>7. QED
  BY <1>2, <1>3, <1>4, <1>5, <1>6
     DEF Next, vars, Submit, Task, Poll, Control, SubmitBegin, SubmitReady, SubmitFails, Flush,
         RunEnds, OnDelta, OnCompleted, OnFinished, OnStopped, OnStale, Receive, Cancel,
         NewConversation, DeleteConversation, Exit, Start
\* A row only becomes Completed when the completion of the active turn is stored.
LEMMA CompletedRows ==
  ASSUME TypeOK, [Next]_vars
  PROVE  \A u \in Turn :
           row'[u] = "Completed" => row[u] = "Completed" \/ (completion /\ active = u)
<1> SUFFICES ASSUME NEW u \in Turn, row'[u] = "Completed", row[u] # "Completed"
             PROVE  completion /\ active = u
  OBVIOUS
<1> USE DEF TypeOK
<1>1. ASSUME NEW t \in Turn, NEW g \in BOOLEAN, SubmitBegin(t, g) PROVE completion /\ active = u
  BY <1>1 DEF SubmitBegin
<1>2. ASSUME NEW t \in Turn, NEW s \in {"Cancelled", "Failed"}, TerminalTx(t, s)
      PROVE  completion /\ active = u
  BY <1>2 DEF TerminalTx
<1>3. ASSUME NEW t \in Turn, Flush(t) PROVE completion /\ active = u
  BY <1>3 DEF Flush
<1>4. ASSUME NEW t \in Turn, NEW s \in {"Cancelled", "Failed"}, FinishTurn(t, s)
      PROVE  completion /\ active = u
  BY <1>2, <1>4 DEF FinishTurn, TxFails, answer
<1>5. ASSUME NEW t \in Turn, OnFinished(t) PROVE completion /\ active = u
  <2>1. CASE FinishTurn(t, "Failed")
    BY <1>4, <2>1
  <2>2. CASE completion /\ (UNCHANGED answer \/ Complete(t))
    BY <1>5, <2>2 DEF OnFinished, Complete, TerminalTx, answer
  <2>3. QED
    BY <1>5, <2>1, <2>2 DEF OnFinished
<1>6. CASE NewConversation
  BY <1>2, <1>6 DEF NewConversation, TxFails, answer
<1>7. CASE DeleteConversation
  BY <1>7 DEF DeleteConversation, EraseRows
<1>8. CASE Start
  BY <1>8 DEF Start
<1>9. CASE UNCHANGED row
  BY <1>9
<1>10. ASSUME NEW t \in Turn, SubmitFails(t) PROVE completion /\ active = u
  BY <1>2, <1>9, <1>10 DEF SubmitFails
<1>11. ASSUME NEW t \in Turn, NEW s \in Terminal, OnStopped(t, s) PROVE completion /\ active = u
  BY <1>4, <1>11 DEF OnStopped
<1>12. QED
  <2> HIDE DEF TypeOK
  <2>1. QED
    BY <1>1, <1>3, <1>5, <1>6, <1>7, <1>8, <1>9, <1>10, <1>11
       DEF Next, vars, Submit, Task, Poll, Control, SubmitReady, Delta, Drained, RunEnds, OnDelta,
           OnCompleted, OnStale, Cancel, Exit, db, answer

\* A completion is pending only after the active turn's own Completed event.
LEMMA PendingCompletion ==
  ASSUME TypeOK, Ends, [Next]_vars, completion', active' # None
  PROVE  active' = active /\ RanToCompletion(active)
<1>1. completion /\ active # None => RanToCompletion(active)
  BY DEF Ends, CompletionIsOwn
<1>2. ASSUME NEW t \in Turn, OnCompleted(t) PROVE active' = active /\ RanToCompletion(active)
  <2>1. queue # <<>> /\ Head(queue) = Event(t, "Completed") /\ active = t /\ UNCHANGED active
    BY <1>2 DEF OnCompleted, Receive
  <2>2. 1 \in 1..Len(queue) /\ queue[1] = Event(t, "Completed")
    BY <2>1 DEF TypeOK
  <2>3. RanToCompletion(queue[1].turn)
    BY <2>2 DEF Ends, EventsAreOwn, Event
  <2>4. queue[1].turn = t
    BY <2>2 DEF Event
  <2>5. QED
    BY <2>1, <2>3, <2>4
<1>3. CASE UNCHANGED <<active, completion>>
  BY <1>1, <1>3
<1>4. CASE completion' = FALSE \/ active' = None
  BY <1>4
<1>5. QED
  BY <1>2, <1>3, <1>4
    
        DEF Next, vars, Submit, Task, Poll, Control, SubmitBegin, SubmitReady, SubmitFails,
        Delta, Flush,
         Drained, RunEnds, OnDelta, OnFinished, OnStopped, OnStale, Cancel, NewConversation,
         DeleteConversation, Exit, Start, screen

\* Hence whatever is stored as Completed, or about to be, was completed by its own run.
LEMMA NextCompletion ==
  ASSUME TypeOK, Ends, [Next]_vars
  PROVE  CompletionIsOwn' /\ CompletedByOwnRun'
<1>1. \A u \in Turn : RanToCompletion(u) => RanToCompletion(u)'
  BY RanStays
<1>2. ASSUME completion', active' # None PROVE RanToCompletion(active)'
  <2>1. active' = active /\ RanToCompletion(active) /\ active \in Turn
    BY <1>2, PendingCompletion DEF TypeOK
  <2>2. QED
    BY <1>1, <2>1 DEF RanToCompletion
<1>3. \A u \in Turn : row'[u] = "Completed" => RanToCompletion(u)'
  <2> SUFFICES ASSUME NEW u \in Turn, row'[u] = "Completed" PROVE RanToCompletion(u)'
    OBVIOUS
  <2>1. row[u] = "Completed" \/ (completion /\ active = u)
    BY CompletedRows
  <2>2. RanToCompletion(u)
    BY <2>1, NoneAssumption DEF Ends, CompletionIsOwn
  <2>3. QED
    BY <1>1, <2>2
<1>4. QED
  BY <1>2, <1>3 DEF CompletionIsOwn, CompletedByOwnRun, RanToCompletion

\* What the UI thread holds: nothing while the process is down, a staged turn not yet
\* running, an active turn whose row is open.
Held == HasOutcome /\ Asleep /\ Staged /\ Activated

\* Every step keeps the hands of the UI thread in order.
LEMMA NextHeld ==
  ASSUME TypeOK, Ends, [Next]_vars
  PROVE  Held'
<1>1. Held /\ TurnAndMessageAgree
  BY DEF Ends, EndsAreConsistent, Held
<1> USE NoneAssumption
   DEF Held, HasOutcome, Asleep, Staged, Activated, TypeOK, OpenRow, screen, tasks, db, answer
<1>2. ASSUME NEW t \in Turn, NEW g \in BOOLEAN, SubmitBegin(t, g) PROVE Held'
  BY <1>1, <1>2 DEF SubmitBegin, EnsureConversation, Idle, Terminal
<1>3. ASSUME NEW t \in Turn, SubmitReady(t) PROVE Held'
  BY <1>1, <1>3 DEF SubmitReady, Terminal
<1>4. ASSUME NEW t \in Turn, SubmitFails(t) PROVE Held'
  BY <1>1, <1>4 DEF SubmitFails, TerminalTx, FinalText, Terminal
<1>5. ASSUME NEW t \in Turn, Delta(t) PROVE Held'
  BY <1>1, <1>5 DEF Delta, Terminal
<1>6. ASSUME NEW t \in Turn, Flush(t) PROVE Held'
  <2>1. \A u \in Turn : row[u] \in OpenRow => row'[u] \in OpenRow
    BY <1>6 DEF Flush
  <2>2. \A u \in Turn : row[u] = "Absent" => row'[u] = "Absent"
    BY <1>6 DEF Flush
  <2>3. UNCHANGED <<up, store, stage, active, completion, conv, queue, shown, view,
                    worker, outcome, place>>
    BY <1>6 DEF Flush
  <2>4. QED
    BY <1>1, <2>1, <2>2, <2>3
<1>7. ASSUME NEW t \in Turn, Drained(t) PROVE Held'
  BY <1>1, <1>7 DEF Drained, Event, Terminal
<1>8. ASSUME NEW t \in Turn, NEW o \in Terminal \cup {"Error"}, RunEnds(t, o) PROVE Held'
  BY <1>1, <1>8 DEF RunEnds, Terminal
<1>9. ASSUME NEW t \in Turn, OnDelta(t) PROVE Held'
  BY <1>1, <1>9 DEF OnDelta, Receive, Event, Idle, Terminal
<1>10. ASSUME NEW t \in Turn, OnCompleted(t) PROVE Held'
  BY <1>1, <1>10 DEF OnCompleted, Receive, Event, Idle, Terminal
<1>11. ASSUME NEW t \in Turn, OnFinished(t) PROVE Held'
  BY <1>1, <1>11
     DEF OnFinished, Receive, Event, Idle, FinishTurn, TxFails, TerminalTx, FinalText,
     Complete, Terminal
<1>12. ASSUME NEW t \in Turn, NEW s \in Terminal, OnStopped(t, s) PROVE Held'
  BY <1>1, <1>12
     DEF OnStopped, Receive, Event, Idle, FinishTurn, TxFails, TerminalTx, FinalText, Terminal
<1>13. CASE OnStale
  BY <1>1, <1>13 DEF OnStale, Idle, Terminal
<1>14. CASE Cancel
  BY <1>1, <1>14 DEF Cancel, Idle, Terminal
<1>15. CASE NewConversation
  BY <1>1, <1>15
     DEF NewConversation, Idle, CancelActive, FreshConversation, EnsureConversation, TxFails,
     TerminalTx, FinalText, Terminal
<1>16. CASE DeleteConversation
  BY <1>1, <1>16 DEF DeleteConversation, EraseRows, Idle, Terminal
<1>17. CASE Exit
  BY <1>1, <1>17 DEF Exit, Terminal
<1>18. CASE Start
  BY <1>1, <1>18 DEF Start, Interrupted, RowsOf, Terminal
<1>19. CASE UNCHANGED vars
  BY <1>1, <1>19 DEF vars
<1>20. QED
  <2> HIDE DEF Held, TypeOK
  <2>1. QED
    BY <1>2, <1>3, <1>4, <1>5, <1>6, <1>7, <1>8, <1>9, <1>10, <1>11, <1>12, <1>13, <1>14,
       <1>15, <1>16, <1>17, <1>18, <1>19
       DEF Next, Submit, Task, Poll, Control
-----------------------------------------------------------------------------
(* The invariant of the conversations.                                      *)

\* The place of a message of conversation c is c and the message's ordinal.
LEMMA RowPlaces ==
  ASSUME TypeOK, NEW c
  PROVE  \A t \in RowsOf(c) : t \in Stored /\ place[t] = <<c, place[t][2]>>
<1>1. ASSUME NEW t \in Turn PROVE place[t] = <<place[t][1], place[t][2]>>
  <2>1. place[t] \in (0..MaxConv) \X Nat
    BY DEF TypeOK
  <2>2. QED
    BY <2>1
<1>2. QED
  BY <1>1 DEF RowsOf, Stored

\* Erasing whole conversations leaves the others numbered as they are.
LEMMA ErasedNumbering ==
  ASSUME Numbered, UNCHANGED place, NEW D,
         \A t \in Turn : t \in Stored' <=> t \in Stored /\ place[t][1] \notin D
  PROVE  Numbered'
<1> DEFINE S == Stored'
<1>0. S = {t \in Stored : place[t][1] \notin D}
  BY DEF Stored
<1>1. \A t, u \in S : place'[t] = place'[u] => t = u
  BY <1>0 DEF Numbered
<1>2. ASSUME NEW c \in 0..MaxConv PROVE \E k \in Nat : Filled(c, k)'
  <2>1. RowsOf(c)' = {t \in Stored' : place[t][1] = c}
    BY DEF RowsOf, Stored
  <2>2. RowsOf(c) = {t \in Stored : place[t][1] = c}
    BY DEF RowsOf, Stored
  <2>3. CASE c \in D
    <3>1. RowsOf(c)' = {}
      BY <1>0, <2>1, <2>3
    <3>2. Filled(c, 0)'
      BY <3>1 DEF Filled
    <3>3. QED
      BY <3>2
  <2>4. CASE c \notin D
    <3>1. RowsOf(c)' = RowsOf(c)
      BY <1>0, <2>1, <2>2, <2>4
    <3>2. PICK k \in Nat : Filled(c, k)
      BY DEF Numbered
    <3>3. Filled(c, k)'
      BY <3>1, <3>2 DEF Filled
    <3>4. QED
      BY <3>3
  <2>5. QED
    BY <2>3, <2>4
<1>3. QED
  BY <1>1, <1>2 DEF Numbered

\* Nothing changes while the same messages stay stored at the same places.
LEMMA SameNumbering ==
  ASSUME Numbered, UNCHANGED place, Stored' = Stored
  PROVE  Numbered'
<1>1. \A c : RowsOf(c)' = RowsOf(c)
  BY DEF RowsOf, Stored
<1>2. \A c, k : Filled(c, k)' <=> Filled(c, k)
  BY <1>1 DEF Filled
<1>3. QED
  BY <1>2 DEF Numbered

\* A step that leaves the conversations, messages and places alone keeps their order.
LEMMA SameOrder ==
  ASSUME Order, Stored' = Stored, UNCHANGED <<place, conv, shown, made, kept>>, store' => store
  PROVE  Order'
BY SameNumbering DEF Order, Placed, Seated

\* The terminal transactions keep the same messages stored.
LEMMA FinishStored ==
  ASSUME TypeOK, NEW t \in Turn, NEW s \in Terminal,
         FinishTurn(t, s) \/ TerminalTx(t, s)
  PROVE  Stored' = Stored
<1>1. CASE UNCHANGED answer
  BY <1>1 DEF Stored, answer
<1>2. CASE TerminalTx(t, s)
  <2>1. row' = [row EXCEPT ![t] = s] /\ row[t] \in OpenRow
    BY <1>2 DEF TerminalTx
  <2>2. QED
    BY <2>1 DEF Stored, OpenRow, Terminal, TypeOK
<1>3. QED
  BY <1>1, <1>2 DEF FinishTurn, TxFails

\* A new message takes the number after the last one of its conversation: a smaller
\* one is taken, since none is missing.
LEMMA NewMessage ==
  ASSUME TypeOK, Order, NEW t \in Turn, row[t] = "Absent", NEW c \in 0..MaxConv, NEW n \in Nat,
         row' = [row EXCEPT ![t] = "Pending"], place' = [place EXCEPT ![t] = <<c, n + 1>>],
         ~\E u \in RowsOf(c) : place[u] = <<c, n + 1>>,
         n = 0 \/ \E u \in RowsOf(c) : place[u] = <<c, n>>
  PROVE  Numbered'
<1>1. Stored' = Stored \cup {t} /\ t \notin Stored
  BY DEF Stored, TypeOK
<1>2. place'[t] = <<c, n + 1>> /\ \A u \in Stored : place'[u] = place[u]
  BY <1>1 DEF TypeOK, Stored
<1>3. \A u \in Stored : place[u] # <<c, n + 1>>
  BY DEF RowsOf, Stored
<1>4. \A u, v \in Stored' : place'[u] = place'[v] => u = v
  BY <1>1, <1>2, <1>3 DEF Order, Numbered
<1>5. ASSUME NEW d \in 0..MaxConv PROVE \E k \in Nat : Filled(d, k)'
  <2>1. PICK k \in Nat : Filled(d, k)
    BY DEF Order, Numbered
  <2>2. RowsOf(d) = {u \in Stored : place[u][1] = d} /\ RowsOf(d)' = {u \in Stored' : place'[u][1] = d}
    BY DEF RowsOf, Stored
  <2>3. CASE d # c
    <3>1. RowsOf(d)' = RowsOf(d) /\ \A u \in RowsOf(d) : place'[u] = place[u]
      BY <1>1, <1>2, <2>2, <2>3
    <3>2. Filled(d, k)'
      BY <2>1, <3>1 DEF Filled
    <3>3. QED
      BY <3>2
  <2>4. CASE d = c
    <3>1. RowsOf(c)' = RowsOf(c) \cup {t} /\ \A u \in RowsOf(c) : place'[u] = place[u]
      BY <1>1, <1>2, <2>2, <2>4
    <3>2. \A i \in 1..k : \E u \in RowsOf(c) : place[u] = <<c, i>>
      <4>1. \A u \in RowsOf(c) : place[u] = <<c, place[u][2]>>
        BY RowPlaces
      <4>2. QED
        BY <2>1, <2>4, <4>1 DEF Filled
    <3>3. \A u \in RowsOf(c) : place[u][2] \in 1..k
      BY <2>1, <2>4 DEF Filled
    <3>4. n + 1 \notin 1..k /\ (n = 0 \/ n \in 1..k)
      <4>1. n + 1 \notin 1..k
        BY <3>2
      <4>2. ASSUME NEW u \in RowsOf(c), place[u] = <<c, n>> PROVE n \in 1..k
        <5>1. place[u][2] = n
          BY <4>2
        <5>2. QED
          BY <3>3, <5>1
      <4>3. QED
        BY <4>1, <4>2
    <3>5. n = k
      BY <3>4
    <3>6. Filled(c, k + 1)'
      <4>1. place'[t][2] = k + 1
        BY <1>2, <3>5
      <4>2. \A u \in RowsOf(c)' : place'[u][2] \in 1..k + 1
        BY <3>1, <3>3, <4>1
      <4>3. ASSUME NEW i \in 1..k + 1 PROVE \E u \in RowsOf(c)' : place'[u][2] = i
        <5>1. CASE i = k + 1
          BY <3>1, <4>1, <5>1
        <5>2. CASE i \in 1..k
          <6>1. PICK u \in RowsOf(c) : place[u] = <<c, i>>
            BY <3>2, <5>2
          <6>2. place'[u][2] = i
            BY <3>1, <6>1
          <6>3. QED
            BY <3>1, <6>2
        <5>3. QED
          BY <5>1, <5>2
      <4>4. QED
        BY <4>2, <4>3 DEF Filled
    <3>7. QED
      BY <2>4, <3>6
  <2>5. QED
    BY <2>3, <2>4
<1>6. QED
  BY <1>4, <1>5 DEF Numbered
\* What EnsureConversation leaves: a conversation that exists, or none.
LEMMA EnsuredConversation ==
  ASSUME TypeOK, Placed, NEW o \in {0, conv}, EnsureConversation(o)
  PROVE  /\ conv' \in 0..MaxConv /\ made' \in 0..MaxConv /\ kept' \subseteq 1..MaxConv
         /\ store' \in BOOLEAN /\ (store' => store)
         /\ made <= made' /\ conv' <= made' /\ kept' \subseteq 1..made'
         /\ store' => RowsOf(conv') = {} /\ conv' \in 1..made'
<1>1. made \in Nat /\ conv \in Nat /\ MaxConv \in Nat /\ conv <= made /\ made <= MaxConv
  BY BoundAssumption DEF TypeOK, Placed
<1>2. CASE /\ made < MaxConv /\ made' = made + 1
           /\ kept' = kept \cup {made'} /\ conv' = made' /\ store /\ UNCHANGED store
  <2>1. RowsOf(made + 1) = {}
    <3>1. \A t \in Stored : place[t][1] # made + 1
      BY <1>1 DEF Placed
    <3>2. QED
      BY <3>1 DEF RowsOf, Stored
  <2>2. kept' \subseteq 1..made' /\ kept' \subseteq 1..MaxConv
    BY <1>1, <1>2 DEF Placed
  <2>3. /\ made' \in 0..MaxConv /\ conv' \in 1..made' /\ made <= made'
        /\ conv' \in 0..MaxConv /\ conv' <= made'
    BY <1>1, <1>2
  <2>4. store' \in BOOLEAN /\ (store' => store) /\ RowsOf(conv') = {}
    BY <1>2, <2>1
  <2>5. QED
    BY <2>2, <2>3, <2>4
<1>3. CASE store' = FALSE /\ conv' = o /\ UNCHANGED <<made, kept>>
  <2>1. conv' \in 0..MaxConv /\ conv' <= made
    BY <1>1, <1>3
  <2>2. made' = made /\ kept' = kept /\ kept \subseteq 1..MaxConv /\ kept \subseteq 1..made
    BY <1>3 DEF TypeOK, Placed
  <2>3. kept' \subseteq 1..made' /\ kept' \subseteq 1..MaxConv /\ made' \in 0..MaxConv
    BY <1>1, <2>2
  <2>4. made <= made' /\ conv' <= made'
    BY <1>1, <2>1, <2>2
  <2>5. store' \in BOOLEAN /\ ~store'
    BY <1>3
  <2>6. QED
    BY <1>1, <2>1, <2>3, <2>4, <2>5
<1>4. QED
  BY <1>2, <1>3 DEF EnsureConversation, TypeOK

\* begin_turn stores a message under the number after the screen's, or nothing.
LEMMA BeginOrder ==
  ASSUME TypeOK, Order, NEW t \in Turn, NEW g \in BOOLEAN, SubmitBegin(t, g)
  PROVE  Order'
<1> DEFINE n == Len(shown)
<1>1. n \in Nat /\ UNCHANGED shown /\ row[t] = "Absent" /\ (n = 0 <=> shown = <<>>)
  BY DEF SubmitBegin, TypeOK
<1>2. /\ conv' \in 0..MaxConv /\ made <= made' /\ made \in Nat /\ made' \in Nat
      /\ conv' <= made' /\ kept' \subseteq 1..made' /\ (store' => store)
      /\ shown = <<>> /\ store' => RowsOf(conv') = {} /\ conv' \in 1..made'
      /\ shown # <<>> => UNCHANGED <<store, conv, made, kept>>
  <2>1. CASE shown = <<>>
    <3>1. EnsureConversation(conv)
      BY <2>1 DEF SubmitBegin
    <3>2. made \in Nat /\ Placed
      BY BoundAssumption DEF Order, TypeOK
    <3>3. made' \in 0..MaxConv
      BY <3>1, <3>2, EnsuredConversation
    <3>4. made' \in Nat
      BY <3>3, BoundAssumption
    <3>5. QED
      BY <2>1, <3>1, <3>2, <3>4, EnsuredConversation
  <2>2. CASE shown # <<>>
    <3>1. UNCHANGED <<store, conv, made, kept>>
      BY <2>2 DEF SubmitBegin
    <3>2. QED
      BY <2>2, <3>1, BoundAssumption DEF Order, Placed, TypeOK
  <2>3. QED
    BY <2>1, <2>2
<1>3. store' /\ conv' \in kept' /\ shown # <<>> =>
        /\ \E u \in RowsOf(conv') : place[u] = <<conv', n>>
        /\ conv' \in 1..made'
  <2> SUFFICES ASSUME store', conv' \in kept', shown # <<>>
               PROVE  /\ \E u \in RowsOf(conv') : place[u] = <<conv', n>>
                      /\ conv' \in 1..made'
    OBVIOUS
  <2>1. store /\ conv \in kept /\ n \in 1..n /\ conv' = conv /\ made' = made
    BY <1>1, <1>2
  <2>2. shown[n] \in Stored /\ place[shown[n]] = <<conv, n>>
    BY <2>1 DEF Order, Seated
  <2>3. shown[n] \in RowsOf(conv)
    BY <2>2 DEF RowsOf, Stored
  <2>4. place[shown[n]][1] \in 1..made
    BY <2>2 DEF Order, Placed
  <2>5. QED
    BY <2>1, <2>2, <2>3, <2>4
<1>4. CASE UNCHANGED <<row, place>>
  <2>1. Stored' = Stored
    BY <1>4 DEF Stored
  <2>2. Numbered'
    BY <1>4, <2>1, SameNumbering DEF Order
  <2>3. Placed'
    BY <1>2, <1>4, <2>1 DEF Order, Placed
  <2>4. Seated'
    <3>1. CASE shown = <<>>
      BY <1>1, <3>1 DEF Seated
    <3>2. CASE shown # <<>>
      BY <1>1, <1>2, <1>4, <2>1, <3>2 DEF Order, Seated
    <3>3. QED
      BY <3>1, <3>2
  <2>5. QED
    BY <2>2, <2>3, <2>4 DEF Order
<1>5. CASE /\ store' /\ conv' \in kept'
           /\ ~\E u \in RowsOf(conv') : place[u] = <<conv', n + 1>>
           /\ row' = [row EXCEPT ![t] = "Pending"]
           /\ place' = [place EXCEPT ![t] = <<conv', n + 1>>]
  <2>1. n = 0 \/ \E u \in RowsOf(conv') : place[u] = <<conv', n>>
    BY <1>1, <1>3, <1>5
  <2>2. Numbered'
    <3> DEFINE c == conv'
    <3>1. c \in 0..MaxConv
      BY <1>2
    <3> HIDE DEF c, n
    <3>2. QED
      BY <1>1, <1>5, <2>1, <3>1, NewMessage DEF c
  <2>3. Stored' = Stored \cup {t} /\ t \notin Stored
    BY <1>1, <1>5 DEF Stored, TypeOK
  <2>4. place'[t] = <<conv', n + 1>> /\ \A u \in Stored : place'[u] = place[u]
    BY <1>5, <2>3 DEF TypeOK, Stored
  <2>5. conv' \in 1..made'
    BY <1>2, <1>3, <1>5
  <2>6. Placed'
    <3>1. \A u \in Stored : place[u][1] \in 1..made'
      BY <1>2 DEF Order, Placed
    <3>2. place'[t][1] \in 1..made'
      BY <2>4, <2>5
    <3>3. QED
      BY <1>2, <2>3, <2>4, <3>1, <3>2 DEF Placed
  <2>7. Seated'
    <3>1. CASE shown = <<>>
      BY <1>1, <3>1 DEF Seated
    <3>2. CASE shown # <<>>
      BY <1>1, <1>2, <2>3, <2>4, <3>2 DEF Order, Seated
    <3>3. QED
      BY <3>1, <3>2
  <2>8. QED
    BY <2>2, <2>6, <2>7 DEF Order
<1>6. QED
  BY <1>4, <1>5 DEF SubmitBegin

\* Every step leaves the conversations numbered without a gap.
LEMMA NextOrder ==
  ASSUME TypeOK, Ends, Order, [Next]_vars
  PROVE  Order'
<1>1. ASSUME NEW t \in Turn, SubmitReady(t) PROVE Order'
  <2>1. Stored' = Stored /\ UNCHANGED <<place, conv, made, kept, store>>
    BY <1>1 DEF SubmitReady, Stored
  <2>2. Numbered' /\ Placed'
    BY <2>1, SameNumbering DEF Order, Placed
  <2>3. store => t \in Stored /\ place[t] = <<conv, Len(shown) + 1>>
    BY <1>1, NoneAssumption DEF SubmitReady, Ends, Staged, OpenRow, Stored
  <2>4. shown \in Seq(Turn) /\ shown' = Append(shown, t)
    BY <1>1 DEF SubmitReady, TypeOK
  <2>5. \A i \in 1..Len(shown') : \/ i \in 1..Len(shown) /\ shown'[i] = shown[i]
                                  \/ i = Len(shown) + 1 /\ shown'[i] = t
    BY <2>4
  <2>6. Seated'
    BY <2>1, <2>3, <2>5 DEF Order, Seated
  <2>7. QED
    BY <2>2, <2>6 DEF Order
<1>2. ASSUME NEW t \in Turn, SubmitFails(t) PROVE Order'
  <2>1. Stored' = Stored
    BY <1>2, FinishStored DEF SubmitFails, Stored, Terminal
  <2>2. QED
    BY <1>2, <2>1, SameOrder DEF SubmitFails
<1>3. ASSUME NEW t \in Turn, Flush(t) PROVE Order'
  <2>1. Stored' = Stored
    BY <1>3 DEF Flush, Stored, OpenRow, TypeOK
  <2>2. QED
    BY <1>3, <2>1, SameOrder DEF Flush, screen
<1>4. ASSUME NEW t \in Turn, OnFinished(t) PROVE Order'
  <2>1. Stored' = Stored
    <3>1. FinishTurn(t, "Failed") \/ TerminalTx(t, "Completed") \/ UNCHANGED row
      BY <1>4 DEF OnFinished, Complete, answer
    <3>2. QED
      BY <3>1, FinishStored DEF Terminal, Stored
  <2>2. QED
    BY <1>4, <2>1, SameOrder DEF OnFinished
<1>5. ASSUME NEW t \in Turn, NEW s \in Terminal, OnStopped(t, s) PROVE Order'
  <2>1. Stored' = Stored
    BY <1>5, FinishStored DEF OnStopped
  <2>2. QED
    BY <1>5, <2>1, SameOrder DEF OnStopped
<1>6. CASE NewConversation
  <2>1. Stored' = Stored /\ UNCHANGED place
    <3>1. CASE UNCHANGED row
      BY <1>6, <3>1 DEF Stored, NewConversation
    <3>2. CASE active \in Turn /\ TerminalTx(active, "Failed")
      BY <1>6, <3>2, FinishStored DEF NewConversation, Terminal
    <3>3. QED
      BY <1>6, <3>1, <3>2 DEF NewConversation, TxFails, answer, TypeOK
  <2>2. CASE FreshConversation
    <3>1. /\ made <= made' /\ conv' <= made' /\ kept' \subseteq 1..made'
          /\ made \in Nat /\ made' \in Nat /\ shown' = <<>>
      <4>1. EnsureConversation(0) /\ shown' = <<>>
        BY <2>2 DEF FreshConversation
      <4>2. Placed /\ 0 \in {0, conv}
        BY DEF Order
      <4>3. /\ made <= made' /\ conv' <= made' /\ kept' \subseteq 1..made'
            /\ made' \in 0..MaxConv
        BY <4>1, <4>2, EnsuredConversation
      <4>4. made \in 0..MaxConv /\ MaxConv \in Nat
        BY BoundAssumption DEF TypeOK
      <4>5. QED
        BY <4>1, <4>3, <4>4
    <3>2. Placed'
      BY <2>1, <3>1 DEF Order, Placed
    <3>3. Seated'
      BY <3>1 DEF Seated
    <3>4. QED
      BY <2>1, <3>2, <3>3, SameNumbering DEF Order
  <2>3. CASE UNCHANGED <<store, conv, shown, made, kept>>
    BY <2>1, <2>3, SameOrder
  <2>4. QED
    BY <1>6, <2>2, <2>3 DEF NewConversation
<1>7. CASE DeleteConversation
  <2>1. UNCHANGED place
    BY <1>7 DEF DeleteConversation
  <2>2. \A t \in Turn : t \in Stored' <=> t \in Stored /\ place[t][1] \notin {conv}
    BY <1>7 DEF DeleteConversation, EraseRows, Stored, RowsOf, TypeOK
  <2>3. Numbered'
    BY <2>1, <2>2, ErasedNumbering DEF Order
  <2>4. /\ made \in Nat /\ made' \in {made, made + 1} /\ conv' <= made'
        /\ kept' \subseteq 1..made'
    <3>1. made \in Nat /\ kept \subseteq 1..made
      BY BoundAssumption DEF TypeOK, Order, Placed
    <3>2. CASE made' = made + 1 /\ conv' = made' /\ kept' = (kept \ {conv}) \cup {made'}
      <4>1. \A x \in kept' : x \in 1..made \/ x = made + 1
        BY <3>1, <3>2
      <4>2. made' = made + 1
        BY <3>2
      <4>3. kept' \subseteq 1..made'
        BY <3>1, <4>1, <4>2
      <4>4. conv' <= made' /\ made' \in {made, made + 1}
        BY <3>1, <3>2
      <4>5. QED
        BY <3>1, <4>3, <4>4
    <3>3. CASE made' = made /\ conv' \in {0, conv} /\ kept' = kept \ {conv}
      <4>1. \A x \in kept' : x \in 1..made
        BY <3>1, <3>3
      <4>2. kept' \subseteq 1..made'
        BY <3>3, <4>1
      <4>3. conv \in Nat /\ conv <= made
        BY BoundAssumption DEF TypeOK, Order, Placed
      <4>4. conv' <= made' /\ made' \in {made, made + 1}
        BY <3>1, <3>3, <4>3
      <4>5. QED
        BY <3>1, <4>2, <4>4
    <3>4. QED
      BY <1>7, <3>1, <3>2, <3>3 DEF DeleteConversation
  <2>5. Placed'
    <3>1. \A t \in Stored' : t \in Stored
      BY <2>2 DEF Stored
    <3>2. QED
      BY <2>1, <2>4, <3>1 DEF Order, Placed
  <2>6. Seated'
    <3>1. shown' = <<>> \/ conv' \notin kept'
      BY <1>7 DEF DeleteConversation
    <3>2. QED
      BY <3>1 DEF Seated
  <2>7. QED
    BY <2>3, <2>5, <2>6 DEF Order
<1>8. CASE Exit
  <2>1. Stored' = Stored /\ UNCHANGED <<place, made, kept>> /\ conv' = 0 /\ shown' = <<>>
    BY <1>8 DEF Exit, Stored, db, answer
  <2>2. Numbered'
    BY <2>1, SameNumbering DEF Order
  <2>3. Placed' /\ Seated'
    BY <2>1, BoundAssumption DEF Order, Placed, Seated, TypeOK
  <2>4. QED
    BY <2>2, <2>3 DEF Order
<1>9. CASE Start
  <2>1. Stored' = Stored /\ UNCHANGED <<place, made, kept>>
    <3>1. \A t \in Turn : row'[t] = row[t] \/ (row[t] \in OpenRow /\ row'[t] = "Failed")
      BY <1>9 DEF Start, Interrupted
    <3>2. QED
      BY <1>9, <3>1 DEF Start, Stored, OpenRow
  <2>2. Numbered'
    BY <2>1, SameNumbering DEF Order
  <2>3. made \in Nat /\ kept \subseteq 1..made
    BY BoundAssumption DEF TypeOK, Order, Placed
  <2>4. CASE kept # {} /\ conv' = Max(kept) /\ shown' = InOrder(Max(kept))
    <3> DEFINE c == Max(kept)
    <3>1. c \in 1..made /\ c \in 0..MaxConv
      <4>1. c \in kept
        BY <2>3, <2>4, MaxOfIds
      <4> HIDE DEF c
      <4>2. c \in 1..made /\ made <= MaxConv /\ MaxConv \in Nat
        BY <2>3, <4>1, BoundAssumption DEF TypeOK
      <4>3. QED
        BY <2>3, <4>2
    <3>2. \A i \in 1..Len(InOrder(c)) : InOrder(c)[i] \in Stored /\ place[InOrder(c)[i]] = <<c, i>>
      <4> HIDE DEF c
      <4>1. InOrder(c) \in Seq(RowsOf(c))
        BY <3>1, InOrderPlaces DEF Order
      <4>2. \A i \in 1..Len(InOrder(c)) : InOrder(c)[i] \in RowsOf(c)
        BY <4>1, ElementOfSeq
      <4>3. QED
        BY <3>1, <4>2, InOrderPlaces, RowPlaces DEF Order
    <3>3. Seated'
      BY <2>1, <2>4, <3>2 DEF Seated
    <3>4. Placed'
      BY <2>1, <2>3, <2>4, <3>1 DEF Order, Placed
    <3>5. QED
      BY <2>2, <3>3, <3>4 DEF Order
  <2>5. CASE conv' = 0 /\ shown' = <<>>
    BY <2>1, <2>2, <2>3, <2>5 DEF Order, Placed, Seated
  <2>6. QED
    BY <1>9, <2>4, <2>5 DEF Start
<1>10. CASE UNCHANGED <<row, place, conv, shown, made, kept, store>>
  BY <1>10, SameOrder DEF Stored
<1>11. QED
  BY <1>1, <1>2, <1>3, <1>4, <1>5, <1>6, <1>7, <1>8, <1>9, <1>10, BeginOrder
     DEF Next, vars, Submit, Task, Poll, Control, Delta, Drained, RunEnds, OnDelta, OnCompleted,
         OnStale, Cancel, screen, db, answer
-----------------------------------------------------------------------------
(* The screen.                                                              *)

\* While the UI thread shows the same messages and takes up no new turn, every status
\* still belongs to a shown message.
LEMMA SameScreen ==
  ASSUME OnScreen, UNCHANGED shown,
         \A t \in Turn : view'[t] # "None" \/ active' = t => view[t] # "None" \/ active = t
  PROVE  OnScreen'
BY DEF OnScreen

\* Every step keeps the statuses on screen with the messages they belong to.
LEMMA NextOnScreen ==
  ASSUME TypeOK, Ends, Order, OnScreen, [Next]_vars
  PROVE  OnScreen'
<1> USE NoneAssumption
<1>1. CASE UNCHANGED <<shown, view, active>>
  BY <1>1, SameScreen
<1>2. ASSUME NEW t \in Turn, SubmitReady(t) PROVE OnScreen'
  <2>1. shown \in Seq(Turn) /\ shown' = Append(shown, t) /\ active' = t /\ t # None
    BY <1>2 DEF SubmitReady, TypeOK
  <2>2. /\ Len(shown) \in Nat /\ Len(shown') = Len(shown) + 1 /\ shown'[Len(shown) + 1] = t
        /\ \A i \in 1..Len(shown) : shown'[i] = shown[i]
    BY <2>1, AppendProperties
  <2>3. \A u \in Turn : u # t => view'[u] = view[u]
    BY <1>2 DEF SubmitReady, TypeOK
  <2>4. ASSUME NEW u \in Turn, view'[u] # "None" \/ active' = u
        PROVE  \E i \in 1..Len(shown') : shown'[i] = u
    <3>1. CASE u = t
      BY <2>2, <3>1
    <3>2. CASE u # t
      <4>1. PICK i \in 1..Len(shown) : shown[i] = u
        BY <2>1, <2>3, <2>4, <3>2 DEF OnScreen
      <4>2. i \in 1..Len(shown') /\ shown'[i] = u
        BY <2>2, <4>1
      <4>3. QED
        BY <4>2
    <3>3. QED
      BY <3>1, <3>2
  <2>5. QED
    BY <2>4 DEF OnScreen
<1>3. ASSUME NEW t \in Turn, active = t, active' \in {active, None}, UNCHANGED shown,
             NEW s, view' = [view EXCEPT ![t] = s]
      PROVE  OnScreen'
  <2>1. \A u \in Turn : u # t => view'[u] = view[u]
    BY <1>3 DEF TypeOK
  <2>2. QED
    BY <1>3, <2>1, SameScreen
<1>4. ASSUME NEW t \in Turn, OnDelta(t) \/ OnFinished(t) PROVE OnScreen'
  <2>1. /\ active = t /\ active' \in {active, None} /\ UNCHANGED shown
        /\ \E s \in {"Streaming", "Completed", "Failed"} : view' = [view EXCEPT ![t] = s]
    BY <1>4 DEF OnDelta, OnFinished
  <2>2. QED
    BY <1>3, <2>1
<1>5. ASSUME NEW t \in Turn, NEW s \in Terminal, OnStopped(t, s) PROVE OnScreen'
  BY <1>3, <1>5 DEF OnStopped
<1>6. CASE shown' = <<>> /\ view' = [t \in Turn |-> "None"] /\ active' = None
  BY <1>6 DEF OnScreen
<1>7. CASE UNCHANGED <<shown, view>> /\ active' = None
  BY <1>7, SameScreen
<1>8. CASE Start
  <2>1. \A t \in Turn : view[t] = "None" /\ active' # t
    BY <1>8 DEF Ends, Asleep, Start
  <2>2. CASE UNCHANGED view
    BY <2>1, <2>2 DEF OnScreen
  <2>3. CASE /\ kept # {} /\ shown' = InOrder(Max(kept))
             /\ view' = [t \in Turn |-> IF t \in RowsOf(Max(kept)) THEN row'[t] ELSE "None"]
    <3> DEFINE c == Max(kept)
    <3>1. c \in 0..MaxConv
      <4>1. kept \subseteq 1..MaxConv /\ MaxConv \in Nat
        BY BoundAssumption DEF TypeOK
      <4>2. c \in kept
        BY <2>3, <4>1, MaxOfIds
      <4> HIDE DEF c
      <4>3. c \in 1..MaxConv
        BY <4>1, <4>2
      <4>4. QED
        BY <4>1, <4>3
    <3>2. \A t \in Turn : view'[t] # "None" => t \in RowsOf(c)
      BY <2>3
    <3> HIDE DEF c
    <3>3. \A t \in RowsOf(c) : \E i \in 1..Len(InOrder(c)) : InOrder(c)[i] = t
      BY <3>1, InOrderPlaces DEF Order
    <3>4. shown' = InOrder(c)
      BY <2>3 DEF c
    <3>5. QED
      BY <2>1, <3>2, <3>3, <3>4 DEF OnScreen
  <2>4. QED
    BY <1>8, <2>2, <2>3 DEF Start
<1>9. QED
  BY <1>1, <1>2, <1>4, <1>5, <1>6, <1>7, <1>8
     DEF Next, vars, Submit, Task, Poll, Control, SubmitBegin, SubmitFails, Delta, Flush, Drained,
         RunEnds, OnCompleted, OnStale, Cancel, NewConversation, FreshConversation,
         DeleteConversation, Exit, screen

\* The turn of a deleted conversation that is still on screen.
Left(t) ==
  row[t] = "Erased" /\ place[t][1] = conv /\ conv \notin kept /\ RowsOf(conv) = {}

\* While the conversations, and the messages that have ended or are not stored, stay as
\* they are, the screen may show what is stored as completed.
LEMMA StillShown ==
  ASSUME ShownCompletedIsStored, store' => store, UNCHANGED <<conv, kept, place>>,
         \A u \in Turn : row[u] \in {"Absent", "Erased", "Completed"} => row'[u] = row[u],
         \A u \in Turn : store' /\ view'[u] = "Completed" =>
                          view[u] = "Completed" \/ row'[u] = "Completed"
  PROVE  ShownCompletedIsStored'
<1> SUFFICES ASSUME NEW t \in Turn, store', view'[t] = "Completed", row'[t] # "Completed"
             PROVE  Left(t)'
  BY DEF ShownCompletedIsStored, Left
<1>1. Left(t)
  BY DEF ShownCompletedIsStored, Left
<1>2. row'[t] = "Erased" /\ place'[t][1] = conv' /\ conv' \notin kept'
  BY <1>1 DEF Left
<1>3. RowsOf(conv)' = {}
  BY <1>1 DEF Left, RowsOf
<1>4. QED
  BY <1>2, <1>3 DEF Left

\* A submission under a deleted conversation that is still on screen stores nothing.
LEMMA BeginShown ==
  ASSUME TypeOK, ShownCompletedIsStored, OnScreen,
         NEW t \in Turn, NEW g \in BOOLEAN, SubmitBegin(t, g)
  PROVE  ShownCompletedIsStored'
<1>1. CASE shown = <<>>
  <2>1. \A u \in Turn : view[u] = "None" /\ view'[u] = view[u]
    BY <1>1 DEF OnScreen, SubmitBegin
  <2>2. QED
    BY <2>1 DEF ShownCompletedIsStored
<1>2. CASE shown # <<>>
  <2>1. UNCHANGED <<store, conv, kept, view>> /\ row[t] = "Absent"
    BY <1>2 DEF SubmitBegin
  <2>2. CASE UNCHANGED <<row, place>>
    BY <2>1, <2>2, StillShown
  <2>3. CASE conv' \in kept' /\ row' = [row EXCEPT ![t] = "Pending"]
    <3>1. \A u \in Turn : store /\ view[u] = "Completed" => row[u] = "Completed"
      BY <2>1, <2>3 DEF ShownCompletedIsStored
    <3>2. \A u \in Turn : row[u] = "Completed" => row'[u] = "Completed"
      BY <2>1, <2>3 DEF TypeOK
    <3>3. QED
      BY <2>1, <3>1, <3>2 DEF ShownCompletedIsStored
  <2>4. QED
    BY <2>2, <2>3 DEF SubmitBegin
<1>3. QED
  BY <1>1, <1>2

\* A deletion that leaves its conversation on screen erases every message shown.
LEMMA DeleteShown ==
  ASSUME TypeOK, ShownCompletedIsStored, OnScreen, Seated, DeleteConversation
  PROVE  ShownCompletedIsStored'
<1>1. CASE view' = [t \in Turn |-> "None"]
  BY <1>1 DEF ShownCompletedIsStored
<1>2. CASE kept' = kept \ {conv} /\ UNCHANGED <<store, conv, shown, view>>
  <2>1. /\ store /\ conv \in kept /\ UNCHANGED place
        /\ row' = [t \in Turn |-> IF t \in RowsOf(conv) THEN "Erased" ELSE row[t]]
    BY DEF DeleteConversation, EraseRows
  <2>2. ASSUME NEW t \in Turn, view'[t] = "Completed" PROVE Left(t)'
    <3>1. PICK i \in 1..Len(shown) : shown[i] = t
      BY <1>2, <2>2 DEF OnScreen
    <3>2. t \in Stored /\ place[t][1] = conv
      <4>1. shown[i] \in Stored /\ place[shown[i]] = <<conv, i>>
        BY <2>1 DEF Seated
      <4>2. QED
        BY <3>1, <4>1
    <3>3. t \in RowsOf(conv)
      BY <3>2 DEF Stored, RowsOf
    <3>4. row'[t] = "Erased" /\ place'[t][1] = conv' /\ conv' \notin kept'
      BY <1>2, <2>1, <3>2, <3>3
    <3>5. RowsOf(conv)' = {}
      BY <1>2, <2>1 DEF RowsOf
    <3>6. QED
      BY <3>4, <3>5 DEF Left
  <2>3. QED
    BY <2>2 DEF ShownCompletedIsStored, Left
<1>3. QED
  BY <1>1, <1>2 DEF DeleteConversation

\* What the screen shows as Completed: only a stored completion puts it there, and
\* no step takes a stored completion back while it is shown, but for a deletion whose
\* revocation fails.
LEMMA NextShown ==
  ASSUME TypeOK, Ends, Order, OnScreen, [Next]_vars
  PROVE  ShownCompletedIsStored'
<1>1. ShownCompletedIsStored
  BY DEF Ends, EndsAreConsistent
<1> DEFINE Ended == {"Absent", "Erased", "Completed"}
           RowsStay == \A u \in Turn : row[u] \in Ended => row'[u] = row[u]
<1>2. CASE UNCHANGED <<store, conv, kept, place, view, row>>
  BY <1>1, <1>2, StillShown
<1>3. ASSUME NEW t \in Turn, NEW s \in Terminal, TerminalTx(t, s) PROVE RowsStay
  BY <1>3 DEF TerminalTx, OpenRow, TypeOK
<1>4. ASSUME NEW t \in Turn, NEW s \in Terminal, FinishTurn(t, s) PROVE RowsStay
  BY <1>3, <1>4 DEF FinishTurn, TxFails, answer
<1>5. ASSUME NEW t \in Turn, NEW s \in {"Pending", "Streaming", "Cancelled", "Failed"},
             RowsStay, UNCHANGED <<store, conv, kept, place>>, view' = [view EXCEPT ![t] = s]
      PROVE  ShownCompletedIsStored'
  <2>1. \A u \in Turn : view'[u] = "Completed" => view[u] = "Completed"
    BY <1>5 DEF TypeOK
  <2>2. QED
    BY <1>1, <1>5, <2>1, StillShown
<1>6. ASSUME NEW t \in Turn, OnFinished(t) PROVE ShownCompletedIsStored'
  <2>1. UNCHANGED <<store, conv, kept, place>>
    BY <1>6 DEF OnFinished
  <2>2. CASE FinishTurn(t, "Failed") /\ view' = [view EXCEPT ![t] = "Failed"]
    <3>1. RowsStay
      BY <1>4, <2>2 DEF Terminal
    <3> HIDE DEF RowsStay
    <3>2. QED
      BY <1>5, <2>1, <2>2, <3>1
  <2>3. CASE store /\ Complete(t) /\ view' = [view EXCEPT ![t] = "Completed"]
    <3>1. RowsStay
      BY <1>3, <2>3 DEF Complete, Terminal
    <3>2. row'[t] = "Completed"
      BY <2>3 DEF Complete, TerminalTx, TypeOK
    <3>3. \A u \in Turn : view'[u] = "Completed" => view[u] = "Completed" \/ u = t
      BY <2>3 DEF TypeOK
    <3>4. QED
      BY <1>1, <2>1, <3>1, <3>2, <3>3, StillShown
  <2>4. CASE ~store
    BY <2>1, <2>4 DEF ShownCompletedIsStored
  <2>5. QED
    BY <1>6, <2>2, <2>3, <2>4 DEF OnFinished
<1>7. ASSUME NEW t \in Turn, NEW s \in Terminal, OnStopped(t, s) PROVE ShownCompletedIsStored'
  <2>1. RowsStay
    BY <1>4, <1>7 DEF OnStopped
  <2>2. /\ UNCHANGED <<store, conv, kept, place>> /\ view' = [view EXCEPT ![t] = s]
        /\ s \in {"Pending", "Streaming", "Cancelled", "Failed"}
    BY <1>7 DEF OnStopped
  <2> HIDE DEF RowsStay
  <2>3. QED
    BY <1>5, <2>1, <2>2
<1>8. CASE NewConversation
  <2>1. CASE view' = [t \in Turn |-> "None"]
    BY <2>1 DEF ShownCompletedIsStored
  <2>2. CASE UNCHANGED <<store, conv, view, kept, answer>>
    BY <1>2, <1>8, <2>2 DEF NewConversation, answer
  <2>3. QED
    BY <1>8, <2>1, <2>2 DEF NewConversation, FreshConversation, TxFails
<1>9. CASE Exit
  BY <1>9 DEF Exit, ShownCompletedIsStored
<1>10. CASE Start
  <2>1. \A t \in Turn : view[t] = "None"
    BY <1>10 DEF Ends, Asleep, Start
  <2>2. CASE UNCHANGED view
    BY <2>1, <2>2 DEF ShownCompletedIsStored
  <2>3. CASE view' = [t \in Turn |-> IF t \in RowsOf(Max(kept)) THEN row'[t] ELSE "None"]
    BY <2>3 DEF ShownCompletedIsStored
  <2>4. QED
    BY <1>10, <2>2, <2>3 DEF Start
<1>11. ASSUME NEW t \in Turn, SubmitReady(t) \/ OnDelta(t) PROVE ShownCompletedIsStored'
  <2>1. UNCHANGED <<store, conv, kept, place, row>>
    BY <1>11 DEF SubmitReady, OnDelta, db, answer
  <2>2. \E s \in {"Pending", "Streaming"} : view' = [view EXCEPT ![t] = s]
    BY <1>11 DEF SubmitReady, OnDelta
  <2>3. QED
    BY <1>5, <2>1, <2>2
<1>12. ASSUME NEW t \in Turn, SubmitFails(t) PROVE ShownCompletedIsStored'
  <2>1. RowsStay
    BY <1>3, <1>12 DEF SubmitFails, Terminal
  <2>2. QED
    BY <1>1, <1>12, <2>1, StillShown DEF SubmitFails
<1>13. ASSUME NEW t \in Turn, Flush(t) PROVE ShownCompletedIsStored'
  <2>1. RowsStay
    BY <1>13 DEF Flush, OpenRow, TypeOK
  <2>2. QED
    BY <1>1, <1>13, <2>1, StillShown DEF Flush, screen
<1>14. ASSUME NEW t \in Turn, NEW g \in BOOLEAN, SubmitBegin(t, g) PROVE ShownCompletedIsStored'
  BY <1>1, <1>14, BeginShown
<1>15. CASE DeleteConversation
  BY <1>1, <1>15, DeleteShown DEF Order
<1>16. QED
  BY <1>2, <1>6, <1>7, <1>8, <1>9, <1>10, <1>11, <1>12, <1>13, <1>14, <1>15
     DEF Next, vars, Submit, Task, Poll, Control, Delta, Drained, RunEnds, OnCompleted, OnStale,
         Cancel, screen, db, answer

\* One step keeps the invariant of one turn.
LEMMA NextEnds ==
  ASSUME TypeOK, Ends, Order, OnScreen, [Next]_vars
  PROVE  Ends'
<1>1. Answered' /\ EventsAreOwn' /\ CompletionIsOwn' /\ CompletedByOwnRun'
  BY NextAnswers, NextEvents, NextCompletion
<1>2. ShownCompletedIsStored' /\ Held'
  BY NextShown, NextHeld
<1>3. QED
  BY <1>1, <1>2 DEF Ends, EndsAreConsistent, Answered, Held

-----------------------------------------------------------------------------
(* Types.                                                                   *)

ConvOK ==
  /\ up \in BOOLEAN /\ store \in BOOLEAN
  /\ conv \in 0..MaxConv /\ made \in 0..MaxConv /\ kept \subseteq 1..MaxConv

ScreenOK ==
  /\ shown \in Seq(Turn)
  /\ view \in [Turn -> {"None"} \cup OpenRow \cup Terminal]
  /\ stage \in Turn \cup {None} /\ active \in Turn \cup {None}
  /\ completion \in BOOLEAN
  /\ cancelled \in [Turn -> BOOLEAN]

QueueOK ==
  queue \in Seq([turn : Turn, kind : {"Delta", "Finished", "FinishedError"} \cup Terminal])

TasksOK ==
  /\ worker \in [Turn -> {"None", "running", "draining", "done"}]
  /\ outcome \in [Turn -> {"None", "Error"} \cup Terminal]
  /\ produced \in [Turn -> 0..MaxDelta] /\ buffer \in [Turn -> 0..MaxDelta]
  /\ writer \in [Turn -> {"None", "open", "failed", "session"}]

RowsOK ==
  /\ row \in [Turn -> {"Absent", "Erased"} \cup OpenRow \cup Terminal]
  /\ closed \in [Turn -> BOOLEAN]
  /\ text \in [Turn -> 0..MaxDelta]
  /\ place \in [Turn -> (0..MaxConv) \X Nat]
  /\ grounded \in [Turn -> BOOLEAN]
  /\ trace \in [Turn -> {"None", "Empty", "Final"}]

\* TypeOK, split into groups the actions change together.
LEMMA TypeParts == TypeOK <=> ConvOK /\ ScreenOK /\ QueueOK /\ TasksOK /\ RowsOK
BY DEF TypeOK, ConvOK, ScreenOK, QueueOK, TasksOK, RowsOK

\* Every step keeps the types of the process and of the conversations.
LEMMA NextConvOK ==
  ASSUME TypeOK, Order, [Next]_vars
  PROVE  ConvOK'
<1>1. ConvOK /\ Placed
  BY TypeParts DEF Order
<1>2. ASSUME NEW o \in {0, conv}, EnsureConversation(o), UNCHANGED up PROVE ConvOK'
  BY <1>1, <1>2, EnsuredConversation DEF ConvOK
<1>3. CASE UNCHANGED <<up, store, conv, made, kept>>
  BY <1>1, <1>3 DEF ConvOK
<1>4. ASSUME NEW t \in Turn, NEW g \in BOOLEAN, SubmitBegin(t, g) PROVE ConvOK'
  <2>1. CASE EnsureConversation(conv)
    BY <1>2, <1>4, <2>1 DEF SubmitBegin
  <2>2. QED
    BY <1>3, <1>4, <2>1 DEF SubmitBegin
<1>5. CASE NewConversation
  BY <1>2, <1>3, <1>5 DEF NewConversation, FreshConversation
<1>6. CASE DeleteConversation
  <2>1. up' \in BOOLEAN /\ store' \in BOOLEAN
    BY <1>1, <1>6 DEF DeleteConversation, ConvOK
  <2>2. made \in 0..MaxConv /\ kept \subseteq 1..MaxConv /\ MaxConv \in Nat
    BY <1>1, BoundAssumption DEF ConvOK
  <2>3. CASE made < MaxConv /\ made' = made + 1 /\ conv' = made' /\ kept' = (kept \ {conv}) \cup {made'}
    <3>1. made' \in 1..MaxConv /\ made' \in 0..MaxConv
      BY <2>2, <2>3
    <3>2. kept' \subseteq 1..MaxConv
      BY <2>2, <2>3, <3>1
    <3>3. QED
      BY <2>1, <2>3, <3>1, <3>2 DEF ConvOK
  <2>4. CASE conv' \in {0, conv} /\ kept' = kept \ {conv} /\ UNCHANGED made
    <3>1. kept' \subseteq 1..MaxConv
      BY <2>2, <2>4
    <3>2. conv' \in 0..MaxConv /\ made' \in 0..MaxConv
      BY <1>1, <2>2, <2>4 DEF ConvOK
    <3>3. QED
      BY <2>1, <3>1, <3>2 DEF ConvOK
  <2>5. QED
    BY <1>6, <2>3, <2>4 DEF DeleteConversation
<1>7. CASE Exit
  <2>1. UNCHANGED <<made, kept>> /\ conv' = 0 /\ up' = FALSE /\ store' = FALSE
    BY <1>7 DEF Exit, db
  <2>2. conv' \in 0..MaxConv
    BY <2>1, BoundAssumption
  <2>3. up' \in BOOLEAN /\ store' \in BOOLEAN
    BY <2>1
  <2>4. QED
    BY <1>1, <2>1, <2>2, <2>3 DEF ConvOK
<1>8. CASE Start
  <2>1. UNCHANGED <<made, kept>> /\ up' = TRUE /\ store' \in BOOLEAN
    BY <1>8 DEF Start
  <2>2. conv' = 0 \/ conv' \in kept
    BY <1>8, <1>1, MaxOfIds, BoundAssumption DEF Start, ConvOK
  <2>3. conv' \in 0..MaxConv
    <3>1. \A x \in kept : x \in 1..MaxConv
      BY <1>1 DEF ConvOK
    <3>2. conv' = 0 \/ conv' \in 1..MaxConv
      BY <2>2, <3>1
    <3>3. QED
      BY <3>2, BoundAssumption
  <2>4. QED
    BY <1>1, <2>1, <2>3 DEF ConvOK
<1>9. QED
  BY <1>3, <1>4, <1>5, <1>6, <1>7, <1>8
     DEF Next, vars, Submit, Task, Poll, Control, SubmitReady, SubmitFails, Delta, Flush, Drained,
         RunEnds, OnDelta, OnCompleted, OnFinished, OnStopped, OnStale, Cancel, screen, db

\* Every step keeps the types of what the UI thread holds.
LEMMA NextScreenOK ==
  ASSUME TypeOK, Order, [Next]_vars
  PROVE  ScreenOK'
<1>1. ScreenOK /\ RowsOK
  BY TypeParts
<1> USE NoneAssumption
<1>2. CASE UNCHANGED <<shown, view, stage, active, completion, cancelled>>
  BY <1>1, <1>2 DEF ScreenOK
<1>3. ASSUME NEW t \in Turn, NEW g \in BOOLEAN, SubmitBegin(t, g) PROVE ScreenOK'
  <2>1. stage' \in Turn \cup {None} /\ UNCHANGED <<shown, view, active, completion, cancelled>>
    BY <1>1, <1>3 DEF SubmitBegin, ScreenOK
  <2>2. QED
    BY <1>1, <2>1 DEF ScreenOK
<1>4. ASSUME NEW t \in Turn, SubmitReady(t) PROVE ScreenOK'
  <2>1. /\ shown' = Append(shown, t) /\ view' = [view EXCEPT ![t] = "Pending"] /\ stage' = None
        /\ active' = t /\ completion' = FALSE /\ UNCHANGED cancelled
    BY <1>4 DEF SubmitReady
  <2>2. shown' \in Seq(Turn)
    BY <1>1, <2>1 DEF ScreenOK
  <2>3. view' \in [Turn -> {"None"} \cup OpenRow \cup Terminal]
    BY <1>1, <2>1 DEF ScreenOK, OpenRow
  <2>4. QED
    BY <1>1, <2>1, <2>2, <2>3 DEF ScreenOK
<1>5. ASSUME NEW t \in Turn, SubmitFails(t) PROVE ScreenOK'
  BY <1>1, <1>5 DEF SubmitFails, ScreenOK
<1>6. ASSUME NEW t \in Turn, NEW s \in OpenRow \cup Terminal, view' = [view EXCEPT ![t] = s]
      PROVE  view' \in [Turn -> {"None"} \cup OpenRow \cup Terminal]
  BY <1>1, <1>6 DEF ScreenOK
<1>7. ASSUME NEW t \in Turn, OnDelta(t) \/ OnCompleted(t) \/ OnFinished(t) PROVE ScreenOK'
  <2>1. view' \in [Turn -> {"None"} \cup OpenRow \cup Terminal]
    <3>1. UNCHANGED view \/ \E s \in OpenRow \cup Terminal : view' = [view EXCEPT ![t] = s]
      BY <1>7 DEF OnDelta, OnCompleted, OnFinished, OpenRow, Terminal
    <3>2. QED
      BY <1>1, <1>6, <3>1 DEF ScreenOK
  <2>2. /\ UNCHANGED <<shown, stage, cancelled>> /\ active' \in {active, None}
        /\ completion' \in {completion, TRUE, FALSE}
    BY <1>7 DEF OnDelta, OnCompleted, OnFinished
  <2>3. QED
    BY <1>1, <2>1, <2>2 DEF ScreenOK
<1>8. ASSUME NEW t \in Turn, NEW s \in Terminal, OnStopped(t, s) PROVE ScreenOK'
  <2>1. view' \in [Turn -> {"None"} \cup OpenRow \cup Terminal]
    BY <1>6, <1>8 DEF OnStopped
  <2>2. UNCHANGED <<shown, stage, completion, cancelled>> /\ active' = None
    BY <1>8 DEF OnStopped
  <2>3. QED
    BY <1>1, <2>1, <2>2 DEF ScreenOK
<1>9. CASE Cancel
  BY <1>1, <1>9 DEF Cancel, ScreenOK, screen
<1>10. CASE NewConversation
  <2>1. cancelled' \in [Turn -> BOOLEAN]
    BY <1>1, <1>10 DEF NewConversation, CancelActive, ScreenOK
  <2>2. active' = None /\ completion' = FALSE /\ UNCHANGED stage
    BY <1>10 DEF NewConversation
  <2>3. UNCHANGED <<shown, view>> \/ (shown' = <<>> /\ view' = [t \in Turn |-> "None"])
    BY <1>10 DEF NewConversation, FreshConversation
  <2>4. shown' \in Seq(Turn) /\ view' \in [Turn -> {"None"} \cup OpenRow \cup Terminal]
    <3>1. CASE UNCHANGED <<shown, view>>
      BY <1>1, <3>1 DEF ScreenOK
    <3>2. CASE shown' = <<>> /\ view' = [t \in Turn |-> "None"]
      BY <3>2
    <3>3. QED
      BY <2>3, <3>1, <3>2
  <2>5. stage' \in Turn \cup {None} /\ active' \in Turn \cup {None} /\ completion' \in BOOLEAN
    BY <1>1, <2>2 DEF ScreenOK
  <2>6. QED
    BY <2>1, <2>4, <2>5 DEF ScreenOK
<1>11. CASE DeleteConversation
  <2>1. UNCHANGED <<shown, view>> \/ (shown' = <<>> /\ view' = [t \in Turn |-> "None"])
    BY <1>11 DEF DeleteConversation
  <2>2. UNCHANGED <<stage, active, completion, cancelled>>
    BY <1>11 DEF DeleteConversation
  <2>3. CASE shown' = <<>> /\ view' = [t \in Turn |-> "None"]
    BY <1>1, <2>2, <2>3 DEF ScreenOK
  <2>4. QED
    BY <1>2, <2>1, <2>2, <2>3
<1>12. CASE Exit
  <2>1. /\ shown' = <<>> /\ view' = [t \in Turn |-> "None"] /\ stage' = None /\ active' = None
        /\ completion' = FALSE /\ UNCHANGED cancelled
    BY <1>12 DEF Exit
  <2>2. shown' \in Seq(Turn) /\ view' \in [Turn -> {"None"} \cup OpenRow \cup Terminal]
    BY <2>1
  <2>3. stage' \in Turn \cup {None} /\ active' \in Turn \cup {None} /\ completion' \in BOOLEAN
    BY <2>1
  <2>4. QED
    BY <1>1, <2>1, <2>2, <2>3 DEF ScreenOK
<1>13. CASE Start
  <2>1. UNCHANGED <<stage, active, completion, cancelled>>
    BY <1>13 DEF Start
  <2>2. CASE /\ kept # {} /\ shown' = InOrder(Max(kept))
             /\ view' = [t \in Turn |-> IF t \in RowsOf(Max(kept)) THEN row'[t] ELSE "None"]
    <3> DEFINE c == Max(kept)
    <3>1. c \in 0..MaxConv
      <4>1. kept \subseteq 1..MaxConv /\ MaxConv \in Nat
        BY BoundAssumption DEF TypeOK
      <4>2. c \in kept
        BY <2>2, <4>1, MaxOfIds
      <4> HIDE DEF c
      <4>3. c \in 1..MaxConv
        BY <4>1, <4>2
      <4>4. QED
        BY <4>1, <4>3
    <3> HIDE DEF c
    <3>2. InOrder(c) \in Seq(RowsOf(c)) /\ RowsOf(c) \subseteq Turn
      BY <3>1, InOrderPlaces DEF Order, RowsOf
    <3>3. InOrder(c) \in Seq(Turn)
      BY <3>2, SeqMonotonic
    <3>4. \A t \in RowsOf(c) : row'[t] \in Terminal
      BY <1>1, <1>13 DEF Start, Interrupted, RowsOf, RowsOK, OpenRow, Terminal
    <3>5. view' \in [Turn -> {"None"} \cup OpenRow \cup Terminal]
      BY <2>2, <3>4 DEF c
    <3>6. QED
      BY <1>1, <2>1, <2>2, <3>3, <3>5 DEF ScreenOK, c
  <2>3. CASE shown' = <<>> /\ UNCHANGED view
    BY <1>1, <2>1, <2>3 DEF ScreenOK
  <2>4. QED
    BY <1>13, <2>2, <2>3 DEF Start
<1>14. QED
  BY <1>2, <1>3, <1>4, <1>5, <1>7, <1>8, <1>9, <1>10, <1>11, <1>12, <1>13
     DEF Next, vars, Submit, Task, Poll, Control, Delta, Flush, Drained, RunEnds, OnStale, screen

\* Every step keeps the events of the channel well formed.
LEMMA NextQueueOK ==
  ASSUME TypeOK, Ends, [Next]_vars
  PROVE  QueueOK'
<1> DEFINE Ev == [turn : Turn, kind : {"Delta", "Finished", "FinishedError"} \cup Terminal]
<1>1. queue \in Seq(Ev)
  BY DEF TypeOK
<1>2. ASSUME NEW t \in Turn, Delta(t) PROVE QueueOK'
  <2>1. [turn |-> t, kind |-> "Delta"] \in Ev
    OBVIOUS
  <2> HIDE DEF Ev
  <2>2. QED
    BY <1>1, <1>2, <2>1 DEF Delta, QueueOK, Ev
<1>3. ASSUME NEW t \in Turn, Drained(t) PROVE QueueOK'
  <2>1. outcome[t] # "Error" => outcome[t] \in Terminal
    BY <1>3 DEF TypeOK, Drained, Ends, HasOutcome
  <2>2. \A k \in {"Finished", "FinishedError"} \cup Terminal : Event(t, k) \in Ev
    BY DEF Event
  <2>3. PICK e \in Ev, f \in Ev : queue' = queue \o <<e, f>>
    <3>1. \/ queue' = queue \o <<Event(t, "Failed"), Event(t, "FinishedError")>>
          \/ /\ outcome[t] # "Error"
             /\ queue' = queue \o <<Event(t, outcome[t]), Event(t, "Finished")>>
      BY <1>3 DEF Drained
    <3> HIDE DEF Ev
    <3>2. QED
      BY <2>1, <2>2, <3>1 DEF Terminal
  <2>4. <<e, f>> \in Seq(Ev)
    OBVIOUS
  <2> HIDE DEF Ev
  <2>5. QED
    BY <1>1, <2>3, <2>4, ConcatProperties DEF QueueOK, Ev
<1>4. CASE queue' = queue \/ queue' = <<>>
  <2>1. queue' \in Seq(Ev)
    <3>1. CASE queue' = queue
      BY <1>1, <3>1
    <3>2. CASE queue' = <<>>
      BY <3>2
    <3>3. QED
      BY <1>4, <3>1, <3>2
  <2>2. QED
    BY <2>1 DEF QueueOK
<1>5. CASE queue # <<>> /\ queue' = Tail(queue)
  BY <1>1, <1>5, HeadTailProperties DEF QueueOK
<1>6. QED
  BY <1>2, <1>3, <1>4, <1>5
     DEF Next, vars, Submit, Task, Poll, Control, SubmitBegin, SubmitReady, SubmitFails, Flush,
         RunEnds, OnDelta, OnCompleted, OnFinished, OnStopped, OnStale, Receive, Cancel,
         NewConversation, DeleteConversation, Exit, Start

\* Every step keeps the types of the worker tasks.
LEMMA NextTasksOK ==
  ASSUME TypeOK, Ends, [Next]_vars
  PROVE  TasksOK'
<1>1. TasksOK /\ \A t \in Turn : buffer[t] <= produced[t]
  BY TypeParts DEF Ends, Counted
<1> USE BoundAssumption
<1>2. CASE UNCHANGED tasks
  BY <1>1, <1>2 DEF TasksOK, tasks
<1>3. ASSUME NEW t \in Turn, SubmitReady(t) PROVE TasksOK'
  BY <1>1, <1>3 DEF SubmitReady, TasksOK
<1>4. ASSUME NEW t \in Turn, Delta(t) PROVE TasksOK'
  <2>1. produced[t] + 1 \in 0..MaxDelta /\ buffer[t] + 1 \in 0..MaxDelta
    BY <1>1, <1>4 DEF Delta, TasksOK
  <2>2. /\ produced' = [produced EXCEPT ![t] = produced[t] + 1]
        /\ buffer' = [buffer EXCEPT ![t] = buffer[t] + 1] \/ UNCHANGED buffer
        /\ UNCHANGED <<worker, outcome, writer>>
    BY <1>1, <1>4 DEF Delta, TasksOK
  <2>3. QED
    BY <1>1, <2>1, <2>2 DEF TasksOK
<1>5. ASSUME NEW t \in Turn, Flush(t) PROVE TasksOK'
  <2>1. /\ buffer' = [buffer EXCEPT ![t] = 0] /\ UNCHANGED <<worker, outcome, produced>>
        /\ UNCHANGED writer \/ writer' = [writer EXCEPT ![t] = "failed"]
    BY <1>5 DEF Flush
  <2>2. QED
    BY <1>1, <2>1 DEF TasksOK
<1>6. ASSUME NEW t \in Turn, NEW o \in Terminal \cup {"Error"}, RunEnds(t, o) PROVE TasksOK'
  <2>1. /\ outcome' = [outcome EXCEPT ![t] = o] /\ worker' = [worker EXCEPT ![t] = "draining"]
        /\ UNCHANGED <<produced, buffer, writer>>
    BY <1>6 DEF RunEnds
  <2>2. QED
    BY <1>1, <2>1 DEF TasksOK
<1>7. ASSUME NEW t \in Turn, Drained(t) PROVE TasksOK'
  <2>1. worker' = [worker EXCEPT ![t] = "done"] /\ UNCHANGED <<outcome, produced, buffer, writer>>
    BY <1>7 DEF Drained
  <2>2. QED
    BY <1>1, <2>1 DEF TasksOK
<1>8. CASE Exit
  BY <1>1, <1>8 DEF Exit, TasksOK
<1>9. QED
  BY <1>2, <1>3, <1>4, <1>5, <1>6, <1>7, <1>8
     DEF Next, vars, Submit, Task, Poll, Control, SubmitBegin, SubmitFails, OnDelta, OnCompleted,
         OnFinished, OnStopped, OnStale, Cancel, NewConversation, DeleteConversation, Start

\* The text of a terminal transaction was produced by the run.
LEMMA TxRowsOK ==
  ASSUME RowsOK, TasksOK, NEW t \in Turn, NEW s \in Terminal, TerminalTx(t, s)
  PROVE  /\ row' \in [Turn -> {"Absent", "Erased"} \cup OpenRow \cup Terminal]
         /\ closed' \in [Turn -> BOOLEAN] /\ text' \in [Turn -> 0..MaxDelta]
<1>1. FinalText(t, s) \in 0..MaxDelta
  BY BoundAssumption DEF FinalText, TasksOK
<1>2. QED
  BY <1>1 DEF TerminalTx, RowsOK

\* However finish_turn turns out, the rows keep their types.
LEMMA FinishRowsOK ==
  ASSUME RowsOK, TasksOK, NEW t \in Turn, NEW s \in Terminal, FinishTurn(t, s)
  PROVE  /\ row' \in [Turn -> {"Absent", "Erased"} \cup OpenRow \cup Terminal]
         /\ closed' \in [Turn -> BOOLEAN] /\ text' \in [Turn -> 0..MaxDelta]
         /\ UNCHANGED trace
<1>1. CASE UNCHANGED answer
  BY <1>1 DEF RowsOK, answer
<1>2. CASE TerminalTx(t, s) /\ UNCHANGED trace
  BY <1>2, TxRowsOK
<1>3. QED
  BY <1>1, <1>2 DEF FinishTurn, TxFails

\* Every step keeps the types of the messages, runs and traces.
LEMMA NextRowsOK ==
  ASSUME TypeOK, Ends, Order, [Next]_vars
  PROVE  RowsOK'
<1>1. RowsOK /\ TasksOK
  BY TypeParts
<1> USE BoundAssumption
<1>2. CASE UNCHANGED <<answer, place, grounded>>
  BY <1>1, <1>2 DEF RowsOK, answer
<1>3. ASSUME NEW t \in Turn, NEW g \in BOOLEAN, SubmitBegin(t, g) PROVE RowsOK'
  <2>1. conv' \in 0..MaxConv /\ Len(shown) + 1 \in Nat
    <3>1. conv' \in 0..MaxConv
      BY NextConvOK DEF ConvOK
    <3>2. Len(shown) \in Nat
      BY DEF TypeOK
    <3>3. QED
      BY <3>1, <3>2
  <2>2. CASE /\ row' = [row EXCEPT ![t] = "Pending"]
             /\ place' = [place EXCEPT ![t] = <<conv', Len(shown) + 1>>]
             /\ grounded' = [grounded EXCEPT ![t] = g]
    <3>1. place' \in [Turn -> (0..MaxConv) \X Nat]
      BY <1>1, <2>1, <2>2 DEF RowsOK
    <3>2. row' \in [Turn -> {"Absent", "Erased"} \cup OpenRow \cup Terminal]
      BY <1>1, <2>2 DEF RowsOK, OpenRow
    <3>3. grounded' \in [Turn -> BOOLEAN]
      BY <1>1, <2>2 DEF RowsOK
    <3>4. UNCHANGED <<closed, text, trace>>
      BY <1>3 DEF SubmitBegin
    <3>5. QED
      BY <1>1, <3>1, <3>2, <3>3, <3>4 DEF RowsOK
  <2>3. CASE UNCHANGED <<row, place, grounded>>
    BY <1>1, <1>3, <2>3 DEF SubmitBegin, RowsOK
  <2>4. QED
    BY <1>3, <2>2, <2>3 DEF SubmitBegin
<1>4. ASSUME NEW t \in Turn, SubmitReady(t) PROVE RowsOK'
  BY <1>1, <1>4 DEF SubmitReady, RowsOK
<1>5. ASSUME NEW t \in Turn, SubmitFails(t) PROVE RowsOK'
  <2>1. UNCHANGED <<place, grounded>> /\ trace' \in [Turn -> {"None", "Empty", "Final"}]
    BY <1>1, <1>5 DEF SubmitFails, RowsOK
  <2>2. /\ row' \in [Turn -> {"Absent", "Erased"} \cup OpenRow \cup Terminal]
        /\ closed' \in [Turn -> BOOLEAN] /\ text' \in [Turn -> 0..MaxDelta]
    <3>1. CASE TerminalTx(t, "Failed")
      BY <1>1, <3>1, TxRowsOK DEF Terminal
    <3>2. CASE UNCHANGED <<row, closed, text>>
      BY <1>1, <3>2 DEF RowsOK
    <3>3. QED
      BY <1>5, <3>1, <3>2 DEF SubmitFails
  <2>3. QED
    BY <1>1, <2>1, <2>2 DEF RowsOK
<1>6. ASSUME NEW t \in Turn, Flush(t) PROVE RowsOK'
  <2>1. CASE UNCHANGED <<row, text>>
    BY <1>1, <1>6, <2>1 DEF Flush, RowsOK
  <2>2. CASE row[t] \in OpenRow /\ row' = [row EXCEPT ![t] = "Streaming"]
             /\ text' = [text EXCEPT ![t] = @ + buffer[t]]
    <3>1. text[t] + buffer[t] \in 0..MaxDelta
      <4>1. text[t] + buffer[t] <= produced[t]
        BY <2>2 DEF Ends, Counted
      <4>2. text[t] \in 0..MaxDelta /\ buffer[t] \in 0..MaxDelta /\ produced[t] \in 0..MaxDelta
        BY <1>1 DEF RowsOK, TasksOK
      <4>3. QED
        BY <4>1, <4>2
    <3>2. row' \in [Turn -> {"Absent", "Erased"} \cup OpenRow \cup Terminal]
      BY <1>1, <2>2 DEF RowsOK, OpenRow
    <3>3. text' \in [Turn -> 0..MaxDelta]
      BY <1>1, <2>2, <3>1 DEF RowsOK
    <3>4. UNCHANGED <<closed, place, grounded, trace>>
      BY <1>6 DEF Flush
    <3>5. QED
      BY <1>1, <3>2, <3>3, <3>4 DEF RowsOK
  <2>3. QED
    BY <1>6, <2>1, <2>2 DEF Flush
<1>7. ASSUME NEW t \in Turn, OnFinished(t) PROVE RowsOK'
  <2>1. UNCHANGED <<place, grounded>>
    BY <1>7 DEF OnFinished
  <2>2. CASE Complete(t)
    <3>1. TerminalTx(t, "Completed") /\ trace' \in [Turn -> {"None", "Empty", "Final"}]
      BY <1>1, <2>2 DEF Complete, RowsOK
    <3>2. QED
      BY <1>1, <2>1, <3>1, TxRowsOK DEF RowsOK, Terminal
  <2>3. CASE UNCHANGED answer
    BY <1>2, <2>1, <2>3
  <2>4. CASE FinishTurn(t, "Failed")
    BY <1>1, <2>1, <2>4, FinishRowsOK DEF RowsOK, Terminal
  <2>5. QED
    BY <1>7, <2>2, <2>3, <2>4 DEF OnFinished
<1>8. ASSUME NEW t \in Turn, NEW s \in Terminal, OnStopped(t, s) PROVE RowsOK'
  <2>1. UNCHANGED <<place, grounded>> /\ FinishTurn(t, s)
    BY <1>8 DEF OnStopped
  <2>2. QED
    BY <1>1, <2>1, FinishRowsOK DEF RowsOK
<1>9. CASE NewConversation
  <2>1. UNCHANGED <<place, grounded>>
    BY <1>9 DEF NewConversation
  <2>2. CASE UNCHANGED answer
    BY <1>2, <2>1, <2>2
  <2>3. CASE active \in Turn /\ TerminalTx(active, "Failed") /\ UNCHANGED trace
    BY <1>1, <2>1, <2>3, TxRowsOK DEF RowsOK, Terminal
  <2>4. QED
    BY <1>9, <2>2, <2>3 DEF NewConversation, TxFails, TypeOK
<1>10. CASE DeleteConversation
  BY <1>1, <1>10 DEF DeleteConversation, EraseRows, RowsOK
<1>11. CASE Start
  <2>1. row' \in [Turn -> {"Absent", "Erased"} \cup OpenRow \cup Terminal]
    BY <1>1, <1>11 DEF Start, RowsOK, Terminal
  <2>2. closed' \in [Turn -> BOOLEAN]
    BY <1>1, <1>11 DEF Start, RowsOK, Interrupted
  <2>3. text' \in [Turn -> 0..MaxDelta]
    BY <1>1, <1>11 DEF Start, RowsOK
  <2>4. QED
    BY <1>1, <1>11, <2>1, <2>2, <2>3 DEF Start, RowsOK
<1>12. QED
  BY <1>2, <1>3, <1>4, <1>5, <1>6, <1>7, <1>8, <1>9, <1>10, <1>11
     DEF Next, vars, Submit, Task, Poll, Control, Delta, Drained, RunEnds, OnDelta, OnCompleted,
         OnStale, Cancel, Exit, db

-----------------------------------------------------------------------------
(* The theorems.                                                            *)

\* Nothing is stored before the first start.
LEMMA InitIInv == Init => IInv
<1> SUFFICES ASSUME Init PROVE IInv
  OBVIOUS
<1>1. TypeOK
  <2>1. ConvOK
    <3>1. up = FALSE /\ store = FALSE /\ conv = 0 /\ made = 0 /\ kept = {}
      BY DEF Init
    <3>2. 0 \in 0..MaxConv /\ {} \subseteq 1..MaxConv
      BY BoundAssumption
    <3>3. QED
      BY <3>1, <3>2 DEF ConvOK
  <2>2. ScreenOK
    <3>1. /\ shown = <<>> /\ view = [t \in Turn |-> "None"] /\ stage = None /\ active = None
          /\ completion = FALSE /\ cancelled = [t \in Turn |-> FALSE]
      BY DEF Init
    <3>2. view \in [Turn -> {"None"} \cup OpenRow \cup Terminal] /\ cancelled \in [Turn -> BOOLEAN]
      BY <3>1
    <3>3. shown \in Seq(Turn)
      BY <3>1
    <3>4. QED
      BY <3>1, <3>2, <3>3 DEF ScreenOK
  <2>3. QueueOK /\ TasksOK
    BY BoundAssumption DEF Init, QueueOK, TasksOK
  <2>4. RowsOK
    BY BoundAssumption DEF Init, RowsOK, NoPlace
  <2>5. QED
    BY <2>1, <2>2, <2>3, <2>4, TypeParts
<1>2. Ends
  BY
     DEF Init, Ends, EndsAreConsistent, TurnAndMessageAgree, CompletedIsGrounded,
     CompletedByOwnRun,
         ShownCompletedIsStored, Counted, FinalIsCompleted, HasOutcome, EventsAreOwn,
         CompletionIsOwn, Asleep, Staged, Activated, Terminal, OpenRow
<1>3. Order
  <2>1. Stored = {} /\ \A c : RowsOf(c) = {}
    BY DEF Init, Stored, RowsOf
  <2>2. \A c : Filled(c, 0)
    BY <2>1 DEF Filled
  <2>3. Numbered
    BY <2>1, <2>2 DEF Numbered
  <2>4. Placed /\ Seated
    BY <2>1 DEF Init, Placed, Seated
  <2>5. QED
    BY <2>3, <2>4 DEF Order
<1>4. OnScreen
  BY NoneAssumption DEF Init, OnScreen
<1>5. QED
  BY <1>1, <1>2, <1>3, <1>4 DEF IInv

\* Every step keeps the inductive invariant.
LEMMA NextIInv == IInv /\ [Next]_vars => IInv'
<1> SUFFICES ASSUME IInv, [Next]_vars PROVE IInv'
  OBVIOUS
<1>1. TypeOK /\ Ends /\ Order /\ OnScreen
  BY DEF IInv
<1>2. ConvOK' /\ ScreenOK' /\ QueueOK' /\ TasksOK' /\ RowsOK'
  BY <1>1, NextConvOK, NextScreenOK, NextQueueOK, NextTasksOK, NextRowsOK
<1>3. TypeOK'
  BY <1>2, TypeParts DEF TypeOK, ConvOK, ScreenOK, QueueOK, TasksOK, RowsOK
<1>4. Ends' /\ Order' /\ OnScreen'
  BY <1>1, NextEnds, NextOrder, NextOnScreen
<1>5. QED
  BY <1>3, <1>4 DEF IInv

\* In every reachable state, for any turns and bounds, with or without failing
\* statements.
THEOREM Invariance == Spec => []IInv
BY InitIInv, NextIInv, PTL DEF Spec

\* Every variable of the turn, the screen and the store keeps its type.
THEOREM ChatTurnTypes == Spec => []TypeOK
<1>1. IInv => TypeOK
  BY DEF IInv
<1>2. QED
  BY <1>1, Invariance, PTL

\* The row, the message, the trace, the run and the screen never contradict each other
\* about a completed answer, whatever fails, crashes or is replaced.
THEOREM EndsStayConsistent == Spec => []EndsAreConsistent
<1>1. IInv => EndsAreConsistent
  BY DEF IInv, Ends
<1>2. QED
  BY <1>1, Invariance, PTL

\* The messages of a conversation carry the numbers 1 to k, each once: no submission
\* reuses one or leaves a gap, across restarts, deletions and failed statements.
THEOREM ConversationsStayNumbered == Spec => []Numbered
<1>1. IInv => Numbered
  BY DEF IInv, Order
<1>2. QED
  BY <1>1, Invariance, PTL

-----------------------------------------------------------------------------
(* Without database faults.                                                 *)

\* finish_turn then always finds the message open, or already ended.
LEMMA FaultlessFinish ==
  ASSUME ~DbMayFail, TypeOK, TurnAndMessageAgree, store,
         NEW t \in Turn, NEW s \in Terminal, FinishTurn(t, s)
  PROVE  row'[t] \notin OpenRow /\ \A u \in Turn : u # t => row'[u] = row[u]
<1>1. CASE TerminalTx(t, s)
  BY <1>1 DEF TerminalTx, TypeOK, OpenRow, Terminal
<1>2. CASE TxFails(t)
  <2>1. row' = row
    BY <1>2 DEF TxFails, answer
  <2>2. row[t] \notin OpenRow \/ closed[t]
    BY <1>2 DEF TxFails
  <2>3. row[t] \in OpenRow => ~closed[t]
    BY DEF TurnAndMessageAgree, OpenRow, Terminal
  <2>4. QED
    BY <2>1, <2>2, <2>3
<1>3. QED
  BY <1>1, <1>2 DEF FinishTurn

\* While the same messages stay stored at the same places, and only the turn that is
\* given up loses the UI thread's hand, everything stays settled.
LEMMA StillSettled ==
  ASSUME Settled, UNCHANGED <<up, store, conv, shown, stage, kept, place>>, Stored' = Stored,
         \A t \in Turn : row'[t] \in OpenRow => row[t] \in OpenRow /\ (t = active => t = active')
  PROVE  Settled'
<1>1. RowsOf(conv)' = RowsOf(conv)
  BY DEF RowsOf, Stored
<1>2. QED
  BY <1>1 DEF Settled

\* Without database faults every step keeps an idle screen settled.
LEMMA NextSettled ==
  ASSUME ~DbMayFail, IInv, Settled, [Next]_vars
  PROVE  Settled'
<1>1. TypeOK /\ Ends /\ Order /\ TurnAndMessageAgree
  BY DEF IInv, Ends, EndsAreConsistent
<1> USE NoneAssumption
<1>2. ASSUME NEW t \in Turn, NEW g \in BOOLEAN, SubmitBegin(t, g) PROVE Settled'
  <2>1. /\ up /\ stage = None /\ active = None /\ UNCHANGED <<up, shown, active>> /\ store
        /\ \A u \in Turn : row[u] \notin OpenRow
        /\ \A u \in RowsOf(conv) : \E i \in 1..Len(shown) : shown[i] = u
    BY <1>2 DEF SubmitBegin, Idle, Settled, RowsOf
  <2>2. store'
    <3>1. EnsureConversation(conv) \/ UNCHANGED store
      BY <1>2 DEF SubmitBegin
    <3>2. QED
      BY <2>1, <3>1 DEF EnsureConversation
  <2>3. \A u \in RowsOf(conv') : \E i \in 1..Len(shown) : shown[i] = u
    <3>1. CASE shown = <<>>
      <4>1. EnsureConversation(conv)
        BY <1>2, <3>1 DEF SubmitBegin
      <4>2. RowsOf(conv') = {}
        BY <1>1, <2>2, <4>1, EnsuredConversation DEF Order
      <4>3. QED
        BY <4>2
    <3>2. CASE shown # <<>>
      <4>1. conv' = conv
        BY <1>2, <3>2 DEF SubmitBegin
      <4>2. QED
        BY <2>1, <4>1
    <3>3. QED
      BY <3>1, <3>2
  <2>4. shown # <<>> => conv' \in kept'
    BY <1>2 DEF SubmitBegin, Idle, Settled
  <2>5. CASE row' = [row EXCEPT ![t] = "Pending"] /\ stage' = t /\ conv' \in kept'
             /\ place' = [place EXCEPT ![t] = <<conv', Len(shown) + 1>>]
    <3>1. \A u \in Turn : u # t => row'[u] = row[u] /\ place'[u] = place[u]
      BY <1>1, <2>5 DEF TypeOK
    <3>2. \A u \in RowsOf(conv)' : u = t \/ u \in RowsOf(conv')
      BY <3>1 DEF RowsOf
    <3>3. \A u \in Turn : row'[u] \in OpenRow => u = stage'
      BY <2>1, <2>5, <3>1
    <3>4. QED
      BY <2>1, <2>2, <2>3, <2>5, <3>2, <3>3 DEF Settled
  <2>6. CASE UNCHANGED <<row, place, stage>>
    <3>1. RowsOf(conv)' = RowsOf(conv')
      BY <2>6 DEF RowsOf
    <3>2. QED
      BY <2>1, <2>2, <2>3, <2>4, <2>6, <3>1 DEF Settled
  <2>7. QED
    BY <1>2, <2>2, <2>5, <2>6 DEF SubmitBegin
<1>3. ASSUME NEW t \in Turn, SubmitReady(t) PROVE Settled'
  <2>1. /\ up /\ stage = t /\ stage' = None /\ active' = t /\ shown' = Append(shown, t)
        /\ UNCHANGED <<up, store, conv, kept, row, place>>
    BY <1>3 DEF SubmitReady
  <2>2. active = None
    BY <1>1, <2>1 DEF Ends, Staged
  <2>3. RowsOf(conv)' = RowsOf(conv)
    BY <2>1 DEF RowsOf
  <2>4. shown \in Seq(Turn)
    BY <1>1 DEF TypeOK
  <2>5. /\ Len(shown) \in Nat /\ Len(shown') = Len(shown) + 1 /\ shown'[Len(shown) + 1] = t
        /\ \A i \in 1..Len(shown) : shown'[i] = shown[i]
    BY <2>1, <2>4, AppendProperties
  <2>6. \A u \in RowsOf(conv) : \E i \in 1..Len(shown') : shown'[i] = u
    <3> SUFFICES ASSUME NEW u \in RowsOf(conv) PROVE \E i \in 1..Len(shown') : shown'[i] = u
      OBVIOUS
    <3>1. CASE u = t
      BY <2>5, <3>1
    <3>2. ASSUME NEW i \in 1..Len(shown), shown[i] = u
          PROVE  \E j \in 1..Len(shown') : shown'[j] = u
      BY <2>5, <3>2
    <3>3. QED
      BY <2>1, <3>1, <3>2 DEF Settled
  <2>7. conv \in kept
    BY <2>1 DEF Settled
  <2>8. QED
    BY <2>1, <2>2, <2>3, <2>6, <2>7 DEF Settled
<1>4. ASSUME NEW t \in Turn, Flush(t) PROVE Settled'
  <2>1. \A u \in Turn : row'[u] = row[u] \/ (row[u] \in OpenRow /\ row'[u] = "Streaming")
    BY <1>1, <1>4 DEF Flush, TypeOK
  <2>2. Stored' = Stored
    BY <2>1 DEF Stored, OpenRow
  <2>3. UNCHANGED <<up, store, conv, shown, stage, active, kept, place>>
    BY <1>4 DEF Flush, screen
  <2>4. QED
    BY <2>1, <2>2, <2>3, StillSettled
<1>5. ASSUME NEW t \in Turn, NEW s \in Terminal, active = t, active' = None, up, stage = None,
             FinishTurn(t, s) \/ TerminalTx(t, s),
             UNCHANGED <<up, store, conv, shown, stage, kept, place>>
      PROVE  Settled'
  <2>1. Stored' = Stored
    BY <1>1, <1>5, FinishStored
  <2>2. row'[t] \notin OpenRow /\ \A u \in Turn : u # t => row'[u] = row[u]
    <3>1. store
      BY <1>5 DEF Settled
    <3>2. CASE FinishTurn(t, s)
      BY <1>1, <3>1, <3>2, FaultlessFinish
    <3>3. CASE TerminalTx(t, s)
      BY <1>1, <3>3 DEF TerminalTx, TypeOK, OpenRow, Terminal
    <3>4. QED
      BY <1>5, <3>2, <3>3
  <2>3. \A u \in Turn : row'[u] \in OpenRow => row[u] \in OpenRow /\ (u = active => u = active')
    BY <1>5, <2>2
  <2>4. QED
    BY <1>5, <2>1, <2>3, StillSettled
<1>6. ASSUME NEW t \in Turn, OnFinished(t) PROVE Settled'
  <2>1. store
    BY <1>6 DEF OnFinished, Receive, Idle, Settled
  <2>2. FinishTurn(t, "Failed") \/ TerminalTx(t, "Completed")
    BY <1>6, <2>1 DEF OnFinished, Complete
  <2>3. "Failed" \in Terminal /\ "Completed" \in Terminal
    BY DEF Terminal
  <2>4. /\ active = t /\ active' = None /\ up /\ stage = None
        /\ UNCHANGED <<up, store, conv, shown, stage, kept, place>>
    BY <1>6 DEF OnFinished, Receive, Idle
  <2>5. QED
    BY <1>5, <2>2, <2>3, <2>4
<1>7. ASSUME NEW t \in Turn, NEW s \in Terminal, OnStopped(t, s) PROVE Settled'
  BY <1>5, <1>7 DEF OnStopped, Receive, Idle
<1>8. CASE NewConversation
  <2>1. /\ up /\ stage = None /\ store /\ active' = None /\ UNCHANGED <<up, stage, place>>
        /\ \A t \in Turn : row[t] \in OpenRow => t = active
    BY <1>8 DEF NewConversation, Idle, Settled
  <2>2. \/ active = None /\ UNCHANGED answer
        \/ active \in Turn /\ FinishTurn(active, "Failed")
    BY <1>1, <1>8, <2>1 DEF NewConversation, FinishTurn, TypeOK
  <2>3. Stored' = Stored /\ \A t \in Turn : row'[t] \notin OpenRow
    <3>1. CASE active = None /\ UNCHANGED answer
      BY <2>1, <3>1 DEF answer, Stored
    <3>2. CASE active \in Turn /\ FinishTurn(active, "Failed")
      <4>1. Stored' = Stored
        BY <1>1, <3>2, FinishStored DEF Terminal
      <4>2. row'[active] \notin OpenRow /\ \A u \in Turn : u # active => row'[u] = row[u]
        BY <1>1, <2>1, <3>2, FaultlessFinish DEF Terminal
      <4>3. QED
        BY <2>1, <4>1, <4>2
    <3>3. QED
      BY <2>2, <3>1, <3>2
  <2>4. CASE FreshConversation
    <3>1. EnsureConversation(0) /\ shown' = <<>>
      BY <2>4 DEF FreshConversation
    <3>2. store'
      BY <2>1, <3>1 DEF EnsureConversation
    <3>3. RowsOf(conv') = {}
      BY <1>1, <3>1, <3>2, EnsuredConversation DEF Order
    <3>4. RowsOf(conv)' = {}
      BY <2>1, <2>3, <3>3 DEF RowsOf, Stored
    <3>5. QED
      BY <2>1, <2>3, <3>1, <3>2, <3>4 DEF Settled
  <2>5. CASE UNCHANGED <<store, conv, shown, kept>>
    BY <2>1, <2>3, <2>5, StillSettled
  <2>6. QED
    BY <1>8, <2>4, <2>5 DEF NewConversation
<1>9. CASE DeleteConversation
  <2>1. /\ store /\ stage = None /\ active = None /\ UNCHANGED place
        /\ store' /\ made' = made + 1 /\ conv' = made' /\ conv' \in kept'
        /\ \A t \in Turn : row[t] \notin OpenRow
    BY <1>9 DEF DeleteConversation, Idle, Settled
  <2>2. \A t \in Turn : row'[t] = row[t] \/ row'[t] = "Erased"
    BY <1>9 DEF DeleteConversation, EraseRows
  <2>3. \A t \in Stored : place[t][1] # made + 1
    <3>1. made \in Nat
      BY <1>1, BoundAssumption DEF TypeOK
    <3>2. \A t \in Stored : place[t][1] \in 1..made
      BY <1>1 DEF Order, Placed
    <3>3. QED
      BY <3>1, <3>2
  <2>4. RowsOf(conv)' = {}
    BY <2>1, <2>2, <2>3 DEF RowsOf, Stored
  <2>5. QED
    BY <2>1, <2>2, <2>4 DEF Settled, OpenRow
<1>10. CASE Exit
  BY <1>10 DEF Exit, Settled
<1>11. CASE Start
  <2>1. store' /\ UNCHANGED <<place, made, kept>>
    BY <1>11 DEF Start
  <2>2. \A t \in Turn : \/ row[t] \notin OpenRow /\ row'[t] = row[t]
                        \/ row[t] \in OpenRow /\ row'[t] = "Failed"
    BY <1>11 DEF Start, Interrupted
  <2>3. Stored' = Stored /\ \A t \in Turn : row'[t] \notin OpenRow
    BY <2>2 DEF Stored, OpenRow
  <2>4. RowsOf(conv)' = RowsOf(conv')
    BY <2>1, <2>3 DEF RowsOf, Stored
  <2>5. \A u \in RowsOf(conv') : \E i \in 1..Len(shown') : shown'[i] = u
    <3>1. CASE kept # {} /\ conv' = Max(kept) /\ shown' = InOrder(conv')
      <4>1. conv' \in 0..MaxConv
        BY <1>1, NextConvOK DEF ConvOK
      <4> DEFINE c == conv'
      <4>2. \A u \in RowsOf(c) : \E i \in 1..Len(InOrder(c)) : InOrder(c)[i] = u
        <5> HIDE DEF c
        <5>1. c \in 0..MaxConv
          BY <4>1 DEF c
        <5>2. QED
          BY <1>1, <5>1, InOrderPlaces DEF Order
      <4>3. QED
        BY <3>1, <4>2
    <3>2. CASE conv' = 0
      <4>1. \A n \in 1..made : n # 0
        BY BoundAssumption DEF TypeOK
      <4>2. \A t \in Stored : place[t][1] # 0
        BY <1>1, <4>1 DEF Order, Placed
      <4>3. RowsOf(conv') = {}
        BY <3>2, <4>2 DEF RowsOf, Stored
      <4>4. QED
        BY <4>3
    <3>3. QED
      BY <1>11, <3>1, <3>2 DEF Start
  <2>6. shown' # <<>> => conv' \in kept'
    <3>1. kept # {} => Max(kept) \in kept
      BY <1>1, BoundAssumption, MaxOfIds DEF TypeOK
    <3>2. QED
      BY <1>11, <3>1 DEF Start
  <2>7. stage' = None
    BY <1>1, <1>11 DEF Start, Ends, Asleep
  <2>8. QED
    BY <2>1, <2>3, <2>4, <2>5, <2>6, <2>7 DEF Settled
<1>12. CASE UNCHANGED <<up, store, conv, shown, stage, active, kept, row, place>>
  BY <1>12, StillSettled DEF Stored
<1>13. QED
  BY <1>2, <1>3, <1>4, <1>6, <1>7, <1>8, <1>9, <1>10, <1>11, <1>12
     DEF Next, vars, Submit, SubmitFails, Task, Poll, Control, Delta, Drained, RunEnds, OnDelta,
         OnCompleted, OnStale, Cancel, screen, db, answer

\* Then the screen is the stored conversation: both have each message at its number.
LEMMA SettledScreen ==
  ASSUME IInv, Settled
  PROVE  IdleIsSettled
<1>1. IdleMeansClosed
  BY NoneAssumption DEF Settled, IdleMeansClosed
<1>2. ASSUME up, stage = None PROVE shown = InOrder(conv)
  <2> DEFINE s == InOrder(conv)
  <2>1. /\ s \in Seq(RowsOf(conv))
        /\ \A i \in 1..Len(s) : place[s[i]] = <<conv, i>>
        /\ \A t \in RowsOf(conv) : \E i \in 1..Len(s) : s[i] = t
    BY InOrderPlaces DEF IInv, Order, TypeOK
  <2>2. /\ shown \in Seq(Turn)
        /\ \A i \in 1..Len(shown) : shown[i] \in RowsOf(conv) /\ place[shown[i]] = <<conv, i>>
        /\ \A t \in RowsOf(conv) : \E i \in 1..Len(shown) : shown[i] = t
    <3>1. store
      BY <1>2 DEF Settled
    <3>2. \A i \in 1..Len(shown) : shown[i] \in Stored /\ place[shown[i]] = <<conv, i>>
      <4>1. CASE shown = <<>>
        BY <4>1
      <4>2. CASE shown # <<>>
        BY <1>2, <3>1, <4>2 DEF IInv, Order, Seated, Settled
      <4>3. QED
        BY <4>1, <4>2
    <3>3. \A i \in 1..Len(shown) : shown[i] \in RowsOf(conv)
      BY <3>2 DEF Stored, RowsOf
    <3>4. \A t \in RowsOf(conv) : \E i \in 1..Len(shown) : shown[i] = t
      BY <1>2, NoneAssumption DEF Settled, RowsOf
    <3>5. QED
      BY <3>2, <3>3, <3>4 DEF IInv, TypeOK
  <2> HIDE DEF s
  <2>3. Len(s) \in Nat /\ Len(shown) \in Nat
    BY <2>1, <2>2
  <2>4. \A i \in 1..Len(s) : i \in 1..Len(shown) /\ shown[i] = s[i]
    <3> SUFFICES ASSUME NEW i \in 1..Len(s) PROVE i \in 1..Len(shown) /\ shown[i] = s[i]
      OBVIOUS
    <3>1. s[i] \in RowsOf(conv)
      BY <2>1, ElementOfSeq
    <3>2. PICK j \in 1..Len(shown) : shown[j] = s[i]
      BY <2>2, <3>1
    <3>3. <<conv, j>> = <<conv, i>>
      BY <2>1, <2>2, <3>2
    <3>4. QED
      BY <3>2, <3>3
  <2>5. \A i \in 1..Len(shown) : i \in 1..Len(s)
    <3> SUFFICES ASSUME NEW i \in 1..Len(shown) PROVE i \in 1..Len(s)
      OBVIOUS
    <3>1. PICK j \in 1..Len(s) : s[j] = shown[i]
      BY <2>1, <2>2
    <3>2. <<conv, j>> = <<conv, i>>
      BY <2>1, <2>2, <3>1
    <3>3. QED
      BY <3>2
  <2>6. Len(s) = Len(shown)
    BY <2>3, <2>4, <2>5
  <2>7. s \in Seq(Turn)
    <3>1. RowsOf(conv) \subseteq Turn
      BY DEF RowsOf
    <3>2. QED
      BY <2>1, <3>1, SeqMonotonic
  <2>8. shown = s
    BY <2>2, <2>4, <2>6, <2>7, SeqEqual
  <2>9. QED
    BY <2>8 DEF s
<1>3. QED
  BY <1>1, <1>2 DEF IdleIsSettled, ScreenMatchesStore

\* Without database faults, whenever the composer is free nothing is open and the screen
\* shows the stored conversation in order: replaced conversations, late workers and
\* restarts leave no difference.
THEOREM IdleStaysSettled == ~DbMayFail => (Spec => []IdleIsSettled)
<1> SUFFICES ASSUME ~DbMayFail PROVE Spec => []IdleIsSettled
  OBVIOUS
<1>1. Init => IInv /\ Settled
  BY InitIInv DEF Init, Settled
<1>2. IInv /\ Settled /\ [Next]_vars => (IInv /\ Settled)'
  BY NextIInv, NextSettled
<1>3. IInv /\ Settled => IdleIsSettled
  BY SettledScreen
<1>4. QED
  BY <1>1, <1>2, <1>3, PTL DEF Spec
-----------------------------------------------------------------------------
(* The stored turns implement TurnLifecycle.                                *)

\* The stored rows as the lifecycle sees them.
Seen == [t \in Turn |-> IF row[t] \in OpenRow THEN "Open" ELSE row[t]]

\* A row inserted open begins its turn in the lifecycle.
LEMMA LifecycleBegins ==
  ASSUME NEW t \in Turn, Seen[t] = "Absent", Seen' = [Seen EXCEPT ![t] = "Open"], UNCHANGED text
  PROVE  Lifecycle!Next
BY DEF Seen, Lifecycle!Next, Lifecycle!Begin

\* A flush of an open message makes it longer.
LEMMA LifecycleGrows ==
  ASSUME NEW t \in Turn, Seen[t] = "Open", Seen' = Seen, NEW n, n > text[t],
         text \in [Turn -> Nat], text' = [text EXCEPT ![t] = n]
  PROVE  Lifecycle!Next
<1>1. text'[t] = n
  OBVIOUS
<1>2. text' = [text EXCEPT ![t] = text'[t]]
  BY <1>1
<1>3. Lifecycle!Grow(t)
  BY <1>1, <1>2 DEF Lifecycle!Grow, Lifecycle!Open, Seen
<1>4. QED
  BY <1>3 DEF Lifecycle!Next

\* A terminal transaction ends the turn with the text it stores.
LEMMA LifecycleEnds ==
  ASSUME NEW t \in Turn, Seen[t] = "Open", NEW s \in Terminal, Seen' = [Seen EXCEPT ![t] = s],
         text \in [Turn -> Nat], NEW n, text' = [text EXCEPT ![t] = n]
  PROVE  Lifecycle!Next
<1>1. text'[t] = n /\ Seen'[t] = s
  BY DEF Seen
<1>2. text' = [text EXCEPT ![t] = text'[t]] /\ Seen' = [Seen EXCEPT ![t] = Seen'[t]]
  BY <1>1
<1>3. Lifecycle!End(t)
  BY <1>1, <1>2 DEF Lifecycle!End, Lifecycle!Open, Lifecycle!Ended, Terminal, Seen
<1>4. QED
  BY <1>3 DEF Lifecycle!Next

\* A step that leaves rows and texts alone is invisible to the lifecycle.
LEMMA LifecycleStutters ==
  ASSUME Seen' = Seen, UNCHANGED text
  PROVE  UNCHANGED Lifecycle!vars
BY DEF Seen, Lifecycle!vars

\* A terminal transaction is an End.
LEMMA TxLifecycle ==
  ASSUME TypeOK, NEW t \in Turn, NEW s \in Terminal, TerminalTx(t, s)
  PROVE  Lifecycle!Next
<1>1. Seen[t] = "Open" /\ Seen' = [Seen EXCEPT ![t] = s]
  BY DEF TerminalTx, Seen, TypeOK, OpenRow, Terminal
<1>2. text' = [text EXCEPT ![t] = FinalText(t, s)]
  BY DEF TerminalTx
<1>3. text \in [Turn -> Nat]
  BY BoundAssumption DEF TypeOK
<1>4. QED
  BY <1>1, <1>2, <1>3, LifecycleEnds

\* So is finish_turn, unless it changes nothing.
LEMMA FinishLifecycle ==
  ASSUME TypeOK, NEW t \in Turn, NEW s \in Terminal, FinishTurn(t, s)
  PROVE  [Lifecycle!Next]_Lifecycle!vars
<1>1. CASE TerminalTx(t, s)
  BY <1>1, TxLifecycle
<1>2. CASE UNCHANGED answer
  BY <1>2, LifecycleStutters DEF answer, Seen
<1>3. QED
  BY <1>1, <1>2 DEF FinishTurn, TxFails

\* Every step of the program is a step of the lifecycle of one turn, an interruption or
\* an erasure, or invisible to it.
LEMMA LifecycleStep ==
  ASSUME IInv, [Next]_vars
  PROVE  [Lifecycle!Next]_Lifecycle!vars
<1>1. TypeOK /\ Counted /\ text \in [Turn -> Nat]
  <2>1. TypeOK /\ Counted
    BY DEF IInv, Ends
  <2>2. text \in [Turn -> Nat]
    BY <2>1, BoundAssumption DEF TypeOK
  <2>3. QED
    BY <2>1, <2>2
<1>2. CASE UNCHANGED <<row, text>>
  BY <1>2, LifecycleStutters DEF Seen
<1>3. ASSUME NEW t \in Turn, NEW g \in BOOLEAN, SubmitBegin(t, g)
      PROVE  [Lifecycle!Next]_Lifecycle!vars
  <2>1. CASE row' = [row EXCEPT ![t] = "Pending"]
    <3>1. row[t] = "Absent" /\ UNCHANGED text
      BY <1>3 DEF SubmitBegin
    <3>2. Seen[t] = "Absent" /\ Seen' = [Seen EXCEPT ![t] = "Open"]
      BY <1>1, <2>1, <3>1 DEF Seen, TypeOK, OpenRow
    <3>3. QED
      BY <3>1, <3>2, LifecycleBegins
  <2>2. QED
    BY <1>2, <1>3, <2>1 DEF SubmitBegin
<1>4. ASSUME NEW t \in Turn, SubmitFails(t) PROVE [Lifecycle!Next]_Lifecycle!vars
  BY <1>1, <1>2, <1>4, TxLifecycle DEF SubmitFails, Terminal
<1>5. ASSUME NEW t \in Turn, Flush(t) PROVE [Lifecycle!Next]_Lifecycle!vars
  <2>1. CASE row[t] \in OpenRow /\ row' = [row EXCEPT ![t] = "Streaming"]
             /\ text' = [text EXCEPT ![t] = @ + buffer[t]]
    <3>1. Seen[t] = "Open" /\ Seen' = Seen
      BY <1>1, <2>1 DEF Seen, TypeOK, OpenRow
    <3>2. text[t] + buffer[t] > text[t]
      BY <1>1, <1>5, CountsAreNat DEF Flush
    <3>3. text' = [text EXCEPT ![t] = text[t] + buffer[t]]
      BY <2>1
    <3>4. QED
      BY <1>1, <3>1, <3>2, <3>3, LifecycleGrows
  <2>2. QED
    BY <1>2, <1>5, <2>1 DEF Flush
<1>6. ASSUME NEW t \in Turn, OnFinished(t) PROVE [Lifecycle!Next]_Lifecycle!vars
  <2>1. \/ TerminalTx(t, "Completed") \/ FinishTurn(t, "Failed") \/ UNCHANGED <<row, text>>
    BY <1>6 DEF OnFinished, Complete, answer
  <2>2. QED
    BY <1>1, <1>2, <2>1, TxLifecycle, FinishLifecycle DEF Terminal
<1>7. ASSUME NEW t \in Turn, NEW s \in Terminal, OnStopped(t, s)
      PROVE  [Lifecycle!Next]_Lifecycle!vars
  BY <1>1, <1>7, FinishLifecycle DEF OnStopped
<1>8. CASE NewConversation
  <2>1. UNCHANGED <<row, text>> \/ (active \in Turn /\ TerminalTx(active, "Failed"))
    BY <1>1, <1>8 DEF NewConversation, TxFails, answer, TypeOK
  <2>2. QED
    BY <1>1, <1>2, <2>1, TxLifecycle DEF Terminal
<1>9. CASE DeleteConversation
  <2> DEFINE gone == RowsOf(conv)
  <2>1. /\ row' = [t \in Turn |-> IF t \in gone THEN "Erased" ELSE row[t]]
        /\ text' = [t \in Turn |-> IF t \in gone THEN 0 ELSE text[t]]
    BY <1>9 DEF DeleteConversation, EraseRows
  <2>2. CASE gone = {}
    BY <1>1, <1>2, <2>1, <2>2 DEF TypeOK
  <2>3. CASE gone # {}
    <3> DEFINE T == {t \in Turn : Seen'[t] = "Erased"}
    <3>1. gone \subseteq Turn /\ \A t \in gone : row[t] \notin {"Absent", "Erased"}
      BY DEF RowsOf
    <3> HIDE DEF gone
    <3>2. \A t \in Turn : t \in T <=> t \in gone \/ row[t] = "Erased"
      BY <2>1 DEF Seen, OpenRow
    <3>3. \A t \in Turn : row[t] = "Erased" => text[t] = 0
      BY <1>1 DEF Counted
    <3>4. Seen' = [t \in Turn |-> IF t \in T THEN "Erased" ELSE Seen[t]]
      BY <2>1, <3>2 DEF Seen, OpenRow
    <3>5. text' = [t \in Turn |-> IF t \in T THEN 0 ELSE text[t]]
      BY <2>1, <3>2, <3>3
    <3>6. \E t \in T : Seen[t] # "Erased"
      BY <2>3, <3>1, <3>2 DEF Seen, OpenRow
    <3>7. \A t \in T : Seen[t] # "Absent"
      BY <3>1, <3>2 DEF Seen, OpenRow
    <3>8. Lifecycle!Erase
      BY <3>4, <3>5, <3>6, <3>7 DEF Lifecycle!Erase, Seen
    <3>9. QED
      BY <3>8 DEF Lifecycle!Next
  <2>4. QED
    BY <2>2, <2>3
<1>10. CASE Start
  <2>1. /\ row' = [t \in Turn |-> IF row[t] \in OpenRow THEN "Failed" ELSE row[t]]
        /\ text' = [t \in Turn |-> IF row[t] \in OpenRow THEN 0 ELSE text[t]]
    BY <1>10 DEF Start, Interrupted
  <2>2. CASE \A t \in Turn : row[t] \notin OpenRow
    BY <1>1, <1>2, <2>1, <2>2 DEF TypeOK
  <2>3. CASE \E t \in Turn : row[t] \in OpenRow
    <3>1. \A t \in Turn : Seen[t] = "Open" <=> row[t] \in OpenRow
      BY <1>1 DEF Seen, TypeOK, OpenRow, Terminal
    <3>2. Seen' = [t \in Turn |-> IF Seen[t] = "Open" THEN "Failed" ELSE Seen[t]]
      BY <2>1, <3>1 DEF Seen, OpenRow
    <3>3. text' = [t \in Turn |-> IF Seen[t] = "Open" THEN 0 ELSE text[t]]
      BY <2>1, <3>1
    <3>4. Lifecycle!Interrupt
      BY <2>3, <3>1, <3>2, <3>3 DEF Lifecycle!Interrupt, Lifecycle!Open, Seen
    <3>5. QED
      BY <3>4 DEF Lifecycle!Next
  <2>4. QED
    BY <2>2, <2>3
<1>11. QED
  BY <1>2, <1>3, <1>4, <1>5, <1>6, <1>7, <1>8, <1>9, <1>10
     DEF Next, vars, Submit, Task, Poll, Control, SubmitReady, Delta, Drained, RunEnds, OnDelta,
         OnCompleted, OnStale, Cancel, Exit, db, answer

\* A stored turn is begun once, grows only while it is open, ends once, and from then
\* on keeps its status and its text until its conversation is erased.
THEOREM TurnsImplementLifecycle == Spec => ImplementsLifecycle
<1>1. Init => Lifecycle!Init
  BY DEF Init, Lifecycle!Init, OpenRow
<1>2. IInv /\ [Next]_vars => [Lifecycle!Next]_Lifecycle!vars
  BY LifecycleStep
<1>3. QED
  BY <1>1, <1>2, Invariance, PTL DEF Spec, ImplementsLifecycle, Lifecycle!Spec
=============================================================================
