------------------------ MODULE ProviderStreamProofs ------------------------
(***************************************************************************)
(* Proofs about ProviderStream and ProviderProbe for any lines, chunks,    *)
(* limits, calls and rounds: what a round hands over is what the provider  *)
(* said, whole and once; every result is sent under the call it answers;   *)
(* and no more is read, and no key sent, than the checks allow.            *)
(***************************************************************************)
EXTENDS ProviderProbe, FiniteSetTheorems, TLAPS

\* Places of a response: the number of a line and that of an item in it.
Refs == Nat \X Nat
Places(lines) ==
  {r \in Refs : r[1] \in 1..Len(lines) /\ r[2] \in 1..Len(lines[r[1]].items)}
At(lines, r) == lines[r[1]].items[r[2]]

\* The places of j lines and of the first k items of the line after them.
Reached(lines, j, k) == {r \in Places(lines) : r[1] <= j \/ (r[1] = j + 1 /\ r[2] <= k)}
Got(lines, j, k) == {At(lines, r) : r \in Reached(lines, j, k)}
Begun(lines, j, k) == {it.call : it \in {i \in Got(lines, j, k) : First(i)}}
Hears(a, item) == item.kind = "text" \/ (item.kind = "thought" /\ a = "geminiChat")
Heard(a, lines, j, k) == {r \in Reached(lines, j, k) : Hears(a, At(lines, r))}

Parted == {"open", "args", "bad"}
PartsOf(c, lines, j, k) == {p \in Parted : Piece(c, p) \in Got(lines, j, k)}

\* References in the order of the response.
Ordered(f) == f \in Seq(Refs) /\ \A i, j \in DOMAIN f : i < j => Before(f[i], f[j])

\* A line as either provider writes it.
Words == {Text, Thought} \cup Pieces \cup WholeCalls
Written(line) ==
  /\ line = [done |-> line.done, items |-> line.items] /\ line.done \in BOOLEAN
  /\ line.items \in Seq(Words) /\ Len(line.items) <= 2
  /\ line.done => line.items = <<>>

-----------------------------------------------------------------------------
(* The state.                                                               *)

Typed ==
  /\ adapter \in Adapters /\ grounded \in BOOLEAN /\ cancelled \in BOOLEAN
  /\ sent \in Seq(Lines) /\ \A l \in DOMAIN sent : sent[l].done => l = Len(sent)
  /\ spent \in Nat /\ spent + Len(sent) <= MaxLines
  /\ delivered \in 0..(2 * Len(sent))
  /\ at \in {"select", "lines", "ended"}
  /\ buffer \in Seq({Half(k) : k \in 1..(2 * MaxLines)})
  /\ adapter \in Rounds => Len(buffer) <= MaxBuffer
  /\ Ordered(full)
  /\ pending \in [Calls -> Seq(Parted)] /\ found \in Seq(Calls)

\* Calls are numbered one after the other over all rounds, each is begun once,
\* and a piece belongs to a call that has been begun.
Counted(lines, j, k, earlier) ==
  /\ \E n \in Nat : Begun(lines, j, k) \cup earlier = 1..n
  /\ Begun(lines, j, k) \cap earlier = {}
  /\ \A r, s \in Reached(lines, j, k) :
       First(At(lines, r)) /\ First(At(lines, s)) /\ At(lines, r).call = At(lines, s).call => r = s
  /\ \A r \in Reached(lines, j, k) :
       At(lines, r).kind = "piece" => At(lines, r).call \in Begun(lines, j, k)

Numbered ==
  /\ \A j \in 0..Len(sent) : \E n \in Nat : Begun(sent, j, 0) \cup InHistory = 1..n
  /\ Counted(sent, Len(sent), 0, InHistory)

\* What the decoder keeps of j lines and of k items of the next one.
Faithful(f, parts, calls, j, k) ==
  /\ ToSet(f) = Heard(adapter, sent, j, k)
  /\ \A c \in Calls : ToSet(parts[c]) =
       IF adapter = "openaiRound" THEN PartsOf(c, sent, j, k) ELSE {}
  /\ IF adapter = "geminiRound"
       THEN /\ ToSet(calls) = Begun(sent, j, k) /\ IsInjective(calls)
            /\ \A c \in ToSet(calls) : Call(c, 1, TRUE) \in Got(sent, j, k)
            /\ calls # <<>> => grounded
       ELSE calls = <<>>

\* While a response is read: t lines have been taken, the buffer holds what came
\* after them, and the decoder is what they said.
Taken(t) ==
  /\ delivered = 2 * t + Len(buffer)
  /\ buffer = [i \in 1..Len(buffer) |-> Half(2 * t + i)]
  /\ at = "lines" <=> Len(buffer) >= 2
  /\ Faithful(full, pending, found, t, 0)

\* The events of the texts of a response.
Spoken(f) ==
  [k \in 1..(Len(f) + 1) |-> IF k = 1 THEN Started ELSE Event("text", f[k - 1])]

Running ==
  /\ delivered <= MaxStream
  /\ \E t \in 0..Len(sent) : Taken(t)
  /\ out = Spoken(full)

\* What had come when the response ended, and what had been said of it.
Arriving == delivered \div 2
Tells(f, visible) ==
  /\ ToSet(f) \subseteq visible
  /\ \A r \in visible, i \in DOMAIN f : Before(r, f[i]) => r \in ToSet(f)
Told == Tells(full, Heard(adapter, sent, Arriving, 0))
Everything == ToSet(full) = Heard(adapter, sent, Arriving, 0)

\* Calls that may be handed over.
CallLists == Seq(Calls)
Whole(asked) ==
  /\ grounded /\ asked # <<>> /\ IsInjective(asked)
  /\ ToSet(asked) = Begun(sent, Arriving, 0)
  /\ adapter = "openaiRound" =>
       /\ Arriving = Len(sent) /\ sent # <<>> /\ sent[Len(sent)].done
       /\ \A c \in ToSet(asked) : PartsOf(c, sent, Arriving, 0) = {"open", "args"}
  /\ adapter = "geminiRound" =>
       \A c \in ToSet(asked) : Call(c, 1, TRUE) \in Got(sent, Arriving, 0)
WholeLists == {s \in CallLists : Whole(s)}

Codes == {"STREAM_LIMIT", "STREAM_READ_ERROR", "AGENT_TOOL_STREAM_INCOMPLETE", "CANCELLED",
          "TOOL_ARGUMENT_LIMIT", "AGENT_TOOL_CONTEXT_MISSING", "AGENT_TOOL_SCHEMA_INVALID"}
Tails ==
  {<<Failed(code)>> : code \in Codes}
    \cup (IF Everything THEN {<<Completed(full)>>} ELSE {})
    \cup (IF adapter = "openaiRound" THEN {<<Event("calls", r)>> : r \in WholeLists} ELSE {})
    \cup (IF adapter = "geminiRound"
            THEN {<<Event("parts", r), Event("calls", r)>> : r \in WholeLists} ELSE {})
    \cup (IF adapter \notin Rounds
            THEN {<<>>, <<Event("cancelled", None)>>}
                   \cup (IF Everything THEN {<<Failed("STREAM_READ_ERROR"), Completed(full)>>}
                                       ELSE {})
            ELSE {})

Closed == Told /\ \E tail \in Tails : out = Spoken(full) \o tail

\* The messages of a turn: the results of a batch follow it.
Batch == Seq([n : Calls, id : {CallId(c) : c \in Calls}])
Follows(h) ==
  /\ \A p \in DOMAIN h : h[p].role \in {"user", "assistant", "calls", "result"}
  /\ \A p \in DOMAIN h : h[p].role = "calls" =>
       /\ h[p].calls \in Batch
       /\ \A k \in DOMAIN h[p].calls : h[p].calls[k].id = CallId(h[p].calls[k].n)
       /\ adapter \notin OpenAi =>
            h[p].parts = [k \in 1..Len(h[p].calls) |-> h[p].calls[k].n]
       /\ p + Len(h[p].calls) <= Len(h)
       /\ \A k \in DOMAIN h[p].calls : h[p + k] = ToolResult(h[p].calls[k])
  /\ \A p \in DOMAIN h : h[p].role = "result" =>
       \E q \in 1..(p - 1) : h[q].role = "calls" /\
         \E k \in DOMAIN h[q].calls : h[p].id = h[q].calls[k].id

Talk == history \in Seq(ToSet(history)) /\ Follows(history) /\ body = Body(history)

IInv ==
  /\ Typed /\ Numbered /\ Talk
  /\ IF at = "ended" THEN Closed ELSE Running

-----------------------------------------------------------------------------
(* Lines and places.                                                        *)

\* What a word is.
LEMMA WordsOK ==
  ASSUME NEW it \in Words
  PROVE  \/ it = Text
         \/ it = Thought
         \/ \E c \in Calls, p \in Parted : it = Piece(c, p)
         \/ \E c \in Calls, s \in {1, ArgLimit + 1}, v \in BOOLEAN : it = Call(c, s, v)
BY DEF Words, Pieces, WholeCalls, Parted

\* Every line that is modelled is one or two words, or none.
LEMMA LinesAreWritten ==
  ASSUME NEW line \in Lines
  PROVE  Written(line)
<1>1. \A w \in Words : <<w>> \in Seq(Words) /\ Len(<<w>>) <= 2
  OBVIOUS
<1>2. \A v, w \in Words : <<v, w>> \in Seq(Words) /\ Len(<<v, w>>) <= 2
  OBVIOUS
<1>3. \A items : Line(items) = [done |-> FALSE, items |-> items]
  BY DEF Line
<1>4. \A items \in Seq(Words) : Len(items) <= 2 => Written(Line(items))
  BY <1>3 DEF Written
<1>5. Text \in Words /\ Thought \in Words /\ Pieces \subseteq Words /\ WholeCalls \subseteq Words
  BY DEF Words
<1>6. \A c \in Calls, p \in Parted : Piece(c, p) \in Words
  BY DEF Words, Pieces, Parted
<1>7. \A c \in Calls : Call(c, 1, TRUE) \in Words
  <2>1. \A b \in BOOLEAN, c \in Calls : Call(c, 1, b) \in Words
    BY DEF Words, WholeCalls
  <2>2. QED
    BY <2>1, Zenon
<1>8. Written(Junk) /\ Written(Done)
  <2>1. <<>> \in Seq(Words) /\ Len(<<>>) <= 2
    OBVIOUS
  <2>2. Written(Junk)
    BY <1>4, <2>1, Zenon DEF Junk
  <2>3. Done.done = TRUE /\ Done.items = <<>>
    BY DEF Done
  <2>4. Done = [done |-> Done.done, items |-> Done.items]
    BY DEF Done
  <2>5. QED
    BY <2>1, <2>2, <2>3, <2>4, Zenon DEF Written
<1>9. CASE line \in OpenAiLines
  <2>1. \A p \in Pieces : Written(Line(<<p>>))
    BY <1>1, <1>4, <1>5, Zenon
  <2>2. Written(Line(<<Text>>))
    BY <1>1, <1>4, <1>5, Zenon
  <2>3. \A c \in Calls : /\ Written(Line(<<Text, Piece(c, "open")>>))
                         /\ Written(Line(<<Piece(c, "open"), Piece(c, "args")>>))
    <3>1. "open" \in Parted /\ "args" \in Parted
      BY DEF Parted
    <3>2. QED
      BY <1>2, <1>4, <1>5, <1>6, <3>1, Zenon
  <2>4. QED
    BY <1>9, <2>1, <2>2, <2>3, Zenon DEF OpenAiLines
<1>10. CASE line \in GeminiLines
  <2>1. \A k \in WholeCalls : Written(Line(<<k>>))
    BY <1>1, <1>4, <1>5, Zenon
  <2>2. Written(Line(<<Text>>)) /\ Written(Line(<<Thought>>))
    BY <1>1, <1>4, <1>5, Zenon
  <2>3. \A c, d \in Calls : /\ Written(Line(<<Text, Call(c, 1, TRUE)>>))
                            /\ Written(Line(<<Call(c, 1, TRUE), Call(d, 1, TRUE)>>))
    BY <1>2, <1>4, <1>5, <1>7, Zenon
  <2> DEFINE one(k) == Line(<<k>>)
             after(c) == Line(<<Text, Call(c, 1, TRUE)>>)
             both(c, d) == Line(<<Call(c, 1, TRUE), Call(d, 1, TRUE)>>)
  <2>4. /\ Written(one(Text)) /\ Written(one(Thought)) /\ \A k \in WholeCalls : Written(one(k))
        /\ \A c, d \in Calls : Written(after(c)) /\ Written(both(c, d))
    BY <2>1, <2>2, <2>3, Zenon
  <2>5. GeminiLines = {one(Text), one(Thought)} \cup {one(k) : k \in WholeCalls}
                        \cup {after(c) : c \in Calls} \cup {both(c, d) : c, d \in Calls}
    BY DEF GeminiLines
  <2> HIDE DEF one, after, both
  <2>6. \/ line = one(Text) \/ line = one(Thought) \/ \E k \in WholeCalls : line = one(k)
        \/ \E c \in Calls : line = after(c)
        \/ \E c, d \in Calls : line = both(c, d)
    BY <1>10, <2>5
  <2>7. QED
    BY <2>4, <2>6, Zenon
<1>11. QED
  BY <1>8, <1>9, <1>10 DEF Lines

\* The places reached after one item more, after the last item of a line, and
\* when a line is added.
LEMMA ReachedItem ==
  ASSUME NEW S, NEW lines \in Seq(S), \A l \in DOMAIN lines : Written(lines[l]),
         NEW j \in Nat, j < Len(lines), NEW k \in Nat, k < Len(lines[j + 1].items)
  PROVE  /\ <<j + 1, k + 1>> \in Places(lines) /\ <<j + 1, k + 1>> \notin Reached(lines, j, k)
         /\ Reached(lines, j, k + 1) = Reached(lines, j, k) \cup {<<j + 1, k + 1>>}
<1>1. <<j + 1, k + 1>> \in Refs /\ j + 1 \in 1..Len(lines) /\ k + 1 \in 1..Len(lines[j + 1].items)
  BY DEF Refs, Written
<1>2. <<j + 1, k + 1>> \in Places(lines)
  BY <1>1 DEF Places
<1>3. \A r \in Refs : r = <<r[1], r[2]>> /\ r[1] \in Nat /\ r[2] \in Nat
  BY DEF Refs
<1>4. \A r \in Places(lines) : r \in Refs
  BY DEF Places
<1>5. \A r \in Places(lines) :
        r[1] <= j \/ (r[1] = j + 1 /\ r[2] <= k + 1)
          <=> (r[1] <= j \/ (r[1] = j + 1 /\ r[2] <= k)) \/ r = <<j + 1, k + 1>>
  BY <1>3, <1>4
<1>6. QED
  BY <1>2, <1>5 DEF Reached

\* All items of the next line are what one line more reaches.
LEMMA ReachedLine ==
  ASSUME NEW S, NEW lines \in Seq(S), \A l \in DOMAIN lines : Written(lines[l]),
         NEW j \in Nat, j < Len(lines)
  PROVE  Reached(lines, j, Len(lines[j + 1].items)) = Reached(lines, j + 1, 0)
<1>1. \A r \in Places(lines) : r[1] \in Nat /\ r[2] \in Nat /\ r[2] \in 1..Len(lines[r[1]].items)
  BY DEF Places, Refs
<1>2. \A r \in Places(lines) :
        r[1] <= j \/ (r[1] = j + 1 /\ r[2] <= Len(lines[j + 1].items))
          <=> r[1] <= j + 1 \/ (r[1] = j + 1 + 1 /\ r[2] <= 0)
  BY <1>1
<1>3. QED
  BY <1>2 DEF Reached

\* Nothing is reached before the first line.
LEMMA ReachedNone ==
  ASSUME NEW S, NEW lines \in Seq(S)
  PROVE  Reached(lines, 0, 0) = {}
<1>1. \A r \in Places(lines) : r[1] \in 1..Len(lines) /\ r[2] \in 1..Len(lines[r[1]].items)
  BY DEF Places
<1>2. QED
  BY <1>1 DEF Reached

\* A line that is added changes nothing of those before it.
LEMMA ReachedAppend ==
  ASSUME NEW S, NEW lines \in Seq(S), NEW line \in S, NEW j \in 0..Len(lines)
  PROVE  /\ Reached(Append(lines, line), j, 0) = Reached(lines, j, 0)
         /\ \A r \in Reached(lines, j, 0) : At(Append(lines, line), r) = At(lines, r)
         /\ Places(lines) = Reached(lines, Len(lines), 0)
<1> DEFINE longer == Append(lines, line)
<1>1. /\ longer \in Seq(S) /\ Len(longer) = Len(lines) + 1
      /\ \A l \in 1..Len(lines) : longer[l] = lines[l]
  OBVIOUS
<1> HIDE DEF longer
<1>2. \A r \in Refs : r[1] \in Nat /\ r[2] \in Nat
  BY DEF Refs
<1>3. \A r \in Refs : r \in Reached(lines, j, 0) <=>
        /\ r[1] \in 1..Len(lines) /\ r[2] \in 1..Len(lines[r[1]].items) /\ r[1] <= j
  BY <1>2 DEF Reached, Places
<1>4. \A r \in Refs : r \in Reached(longer, j, 0) <=>
        /\ r[1] \in 1..Len(longer) /\ r[2] \in 1..Len(longer[r[1]].items) /\ r[1] <= j
  BY <1>2 DEF Reached, Places
<1>5. \A r \in Refs : r[1] \in 1..Len(longer) /\ r[1] <= j <=> r[1] \in 1..Len(lines) /\ r[1] <= j
  BY <1>1, <1>2
<1>6. Reached(lines, j, 0) \subseteq Refs /\ Reached(longer, j, 0) \subseteq Refs
  BY DEF Reached, Places
<1>7. Reached(longer, j, 0) = Reached(lines, j, 0)
  BY <1>1, <1>3, <1>4, <1>5, <1>6
<1>8. \A r \in Reached(lines, j, 0) : At(longer, r) = At(lines, r)
  BY <1>1, <1>3, <1>6 DEF At
<1>9. Places(lines) = Reached(lines, Len(lines), 0)
  <2>1. \A r \in Places(lines) : r[1] <= Len(lines)
    BY DEF Places
  <2>2. QED
    BY <2>1 DEF Reached
<1>10. QED
  BY <1>7, <1>8, <1>9 DEF longer

\* What is heard, got and begun with one item more.
LEMMA ItemReached ==
  ASSUME NEW S, NEW lines \in Seq(S), \A l \in DOMAIN lines : Written(lines[l]),
         NEW j \in Nat, j < Len(lines), NEW k \in Nat, k < Len(lines[j + 1].items), NEW a
  PROVE  LET it == lines[j + 1].items[k + 1]
             place == <<j + 1, k + 1>>
         IN /\ place \in Places(lines) /\ At(lines, place) = it
            /\ Heard(a, lines, j, k + 1) =
                 Heard(a, lines, j, k) \cup (IF Hears(a, it) THEN {place} ELSE {})
            /\ Got(lines, j, k + 1) = Got(lines, j, k) \cup {it}
            /\ Begun(lines, j, k + 1) =
                 Begun(lines, j, k) \cup (IF First(it) THEN {it.call} ELSE {})
            /\ \A r \in Heard(a, lines, j, k) : Before(r, place)
<1> DEFINE it == lines[j + 1].items[k + 1]
           place == <<j + 1, k + 1>>
<1>1. /\ place \in Places(lines) /\ Reached(lines, j, k + 1) = Reached(lines, j, k) \cup {place}
  BY ReachedItem
<1>2. At(lines, place) = it
  BY DEF At
<1>3. \A r \in Reached(lines, j, k) : Before(r, place)
  BY DEF Reached, Places, Refs, Before
<1> HIDE DEF it, place
<1>4. Got(lines, j, k + 1) = Got(lines, j, k) \cup {it}
  BY <1>1, <1>2 DEF Got
<1>5. Begun(lines, j, k + 1) = Begun(lines, j, k) \cup (IF First(it) THEN {it.call} ELSE {})
  BY <1>4 DEF Begun
<1>6. Heard(a, lines, j, k + 1) =
        Heard(a, lines, j, k) \cup (IF Hears(a, it) THEN {place} ELSE {})
  BY <1>1, <1>2 DEF Heard
<1>7. \A r \in Heard(a, lines, j, k) : Before(r, place)
  BY <1>3 DEF Heard
<1>8. QED
  BY <1>1, <1>2, <1>4, <1>5, <1>6, <1>7 DEF it, place

\* The same at the end of a line, and when a line is added.
LEMMA LineReached ==
  ASSUME NEW S, NEW lines \in Seq(S), \A l \in DOMAIN lines : Written(lines[l]),
         NEW j \in Nat, j < Len(lines), NEW a
  PROVE  LET k == Len(lines[j + 1].items)
         IN /\ Heard(a, lines, j, k) = Heard(a, lines, j + 1, 0)
            /\ Got(lines, j, k) = Got(lines, j + 1, 0)
            /\ Begun(lines, j, k) = Begun(lines, j + 1, 0)
BY ReachedLine DEF Heard, Got, Begun

\* What was heard, got and begun stays so when a line is added.
LEMMA AppendReached ==
  ASSUME NEW S, NEW lines \in Seq(S), NEW line \in S, NEW j \in 0..Len(lines), NEW a
  PROVE  /\ Heard(a, Append(lines, line), j, 0) = Heard(a, lines, j, 0)
         /\ Got(Append(lines, line), j, 0) = Got(lines, j, 0)
         /\ Begun(Append(lines, line), j, 0) = Begun(lines, j, 0)
<1>1. /\ Reached(Append(lines, line), j, 0) = Reached(lines, j, 0)
      /\ \A r \in Reached(lines, j, 0) : At(Append(lines, line), r) = At(lines, r)
  BY ReachedAppend
<1>2. Got(Append(lines, line), j, 0) = Got(lines, j, 0)
  BY <1>1 DEF Got
<1>3. Heard(a, Append(lines, line), j, 0) = Heard(a, lines, j, 0)
  BY <1>1 DEF Heard
<1>4. QED
  BY <1>2, <1>3 DEF Begun

\* Before the first line nothing is heard, got or begun.
LEMMA NoneReached ==
  ASSUME NEW S, NEW lines \in Seq(S), NEW a
  PROVE  Heard(a, lines, 0, 0) = {} /\ Got(lines, 0, 0) = {} /\ Begun(lines, 0, 0) = {}
<1>1. Reached(lines, 0, 0) = {}
  BY ReachedNone
<1>2. Got(lines, 0, 0) = {} /\ Heard(a, lines, 0, 0) = {}
  BY <1>1 DEF Got, Heard
<1>3. QED
  BY <1>2 DEF Begun

-----------------------------------------------------------------------------
(* Texts.                                                                   *)

\* What a round may say before it ends.
Utterances == {Started} \cup {Event("text", r) : r \in Refs}

\* One reference more, after all those before it.
LEMMA OrderedAppend ==
  ASSUME NEW f, Ordered(f), NEW ref \in Refs, \A r \in ToSet(f) : Before(r, ref)
  PROVE  /\ Ordered(Append(f, ref)) /\ ToSet(Append(f, ref)) = ToSet(f) \cup {ref}
<1> DEFINE g == Append(f, ref)
<1>1. f \in Seq(Refs) /\ \A i, j \in 1..Len(f) : i < j => Before(f[i], f[j])
  BY DEF Ordered
<1>2. /\ g \in Seq(Refs) /\ Len(g) = Len(f) + 1 /\ g[Len(f) + 1] = ref
      /\ \A i \in 1..Len(f) : g[i] = f[i]
  BY <1>1
<1> HIDE DEF g
<1>3. \A i \in 1..Len(f) : Before(f[i], ref)
  BY <1>1 DEF ToSet
<1>4. \A i, j \in 1..Len(g) : i < j => Before(g[i], g[j])
  <2>1. ASSUME NEW i \in 1..Len(g), NEW j \in 1..Len(g), i < j PROVE Before(g[i], g[j])
    <3>1. i \in 1..Len(f) /\ (j \in 1..Len(f) \/ j = Len(f) + 1)
      BY <1>1, <1>2, <2>1
    <3>2. QED
      BY <1>1, <1>2, <1>3, <2>1, <3>1
  <2>2. QED
    BY <2>1
<1>5. ToSet(g) = ToSet(f) \cup {ref}
  BY <1>1, <1>2 DEF ToSet
<1>6. QED
  BY <1>2, <1>4, <1>5 DEF Ordered, g

\* An element that is appended is one more.
LEMMA ToSetAppend ==
  ASSUME NEW S, NEW s \in Seq(S), NEW e \in S
  PROVE  ToSet(Append(s, e)) = ToSet(s) \cup {e}
<1> DEFINE t == Append(s, e)
<1>1. /\ Len(t) = Len(s) + 1 /\ t[Len(s) + 1] = e /\ \A i \in 1..Len(s) : t[i] = s[i]
      /\ t \in Seq(S)
  OBVIOUS
<1> HIDE DEF t
<1>2. QED
  BY <1>1 DEF ToSet, t

\* Appending to the second of two joined sequences.
LEMMA ConcatAppend ==
  ASSUME NEW S, NEW s \in Seq(S), NEW t \in Seq(S), NEW e \in S
  PROVE  s \o Append(t, e) = Append(s \o t, e)
<1>1. Append(t, e) \in Seq(S) /\ Len(Append(t, e)) = Len(t) + 1
  OBVIOUS
<1>2. s \o t \in Seq(S) /\ Len(s \o t) = Len(s) + Len(t)
  OBVIOUS
<1>3. s \o Append(t, e) \in Seq(S) /\ Len(s \o Append(t, e)) = Len(s) + Len(t) + 1
  BY <1>1
<1>4. Append(s \o t, e) \in Seq(S) /\ Len(Append(s \o t, e)) = Len(s) + Len(t) + 1
  BY <1>2
<1>5. \A i \in 1..(Len(s) + Len(t) + 1) : (s \o Append(t, e))[i] = Append(s \o t, e)[i]
  BY <1>1, <1>2
<1>6. QED
  BY <1>3, <1>4, <1>5

\* A sequence that is another and, after it, a third.
Joined(joined, s, t) ==
  /\ Len(joined) = Len(s) + Len(t)
  /\ \A i \in 1..Len(s) : joined[i] = s[i]
  /\ \A i \in 1..Len(t) : joined[Len(s) + i] = t[i]

\* Two sequences joined hold the elements of both in their order.
LEMMA JoinedOK ==
  ASSUME NEW S, NEW s \in Seq(S), NEW t \in Seq(S)
  PROVE  s \o t \in Seq(S) /\ Joined(s \o t, s, t)
BY DEF Joined

\* Two single elements joined are a pair.
LEMMA PairConcat ==
  ASSUME NEW x, NEW y
  PROVE  <<x>> \o <<y>> = <<x, y>>
<1>1. <<x>> \in Seq({x, y}) /\ <<y>> \in Seq({x, y}) /\ <<x, y>> \in Seq({x, y})
  OBVIOUS
<1>2. <<x>> \o <<y>> \in Seq({x, y}) /\ Len(<<x>> \o <<y>>) = 2 /\ Len(<<x, y>>) = 2
  BY <1>1
<1>3. (<<x>> \o <<y>>)[1] = x /\ (<<x>> \o <<y>>)[2] = y
  BY <1>1
<1>4. \A u \in Seq({x, y}) : Len(u) = 2 => u = <<u[1], u[2]>>
  OBVIOUS
<1>5. QED
  BY <1>2, <1>3, <1>4

\* The events of the texts are told as they come.
LEMMA SpokenOK ==
  ASSUME NEW f \in Seq(Refs)
  PROVE  /\ Spoken(f) \in Seq(Utterances) /\ Len(Spoken(f)) = Len(f) + 1
         /\ \A ref \in Refs : Spoken(Append(f, ref)) = Append(Spoken(f), Event("text", ref))
<1>1. Spoken(f) \in [1..Len(f) + 1 -> Utterances]
  BY DEF Spoken, Utterances
<1>2. Spoken(f) \in Seq(Utterances) /\ Len(Spoken(f)) = Len(f) + 1
  BY <1>1
<1>3. ASSUME NEW ref \in Refs
      PROVE  Spoken(Append(f, ref)) = Append(Spoken(f), Event("text", ref))
  <2> DEFINE g == Append(f, ref)
             s == Append(Spoken(f), Event("text", ref))
  <2>1. g \in Seq(Refs) /\ Len(g) = Len(f) + 1 /\ g[Len(f) + 1] = ref /\ \A i \in 1..Len(f) : g[i] = f[i]
    OBVIOUS
  <2>2. /\ DOMAIN s = 1..Len(f) + 2 /\ s[Len(f) + 2] = Event("text", ref)
        /\ \A i \in 1..Len(f) + 1 : s[i] = Spoken(f)[i]
    BY <1>2
  <2>3. s \in Seq(Utterances)
    BY <1>2 DEF Utterances
  <2> HIDE DEF g, s
  <2>4. \A i \in 1..Len(f) + 2 : Spoken(g)[i] = s[i]
    <3>1. \A i \in 1..Len(f) + 2 : Spoken(g)[i] = IF i = 1 THEN Started ELSE Event("text", g[i - 1])
      BY <2>1 DEF Spoken
    <3>2. \A i \in 1..Len(f) + 1 : Spoken(f)[i] = IF i = 1 THEN Started ELSE Event("text", f[i - 1])
      BY DEF Spoken
    <3>3. ASSUME NEW i \in 1..Len(f) + 1 PROVE Spoken(g)[i] = s[i]
      <4>1. i = 1 \/ i - 1 \in 1..Len(f)
        OBVIOUS
      <4>2. i \in 1..Len(f) + 2 /\ s[i] = Spoken(f)[i]
        BY <2>2
      <4>3. QED
        BY <2>1, <3>1, <3>2, <4>1, <4>2
    <3>4. Spoken(g)[Len(f) + 2] = s[Len(f) + 2]
      <4>1. Len(f) + 2 \in 1..Len(f) + 2 /\ Len(f) + 2 # 1 /\ Len(f) + 2 - 1 = Len(f) + 1
        OBVIOUS
      <4>2. QED
        BY <2>1, <2>2, <3>1, <4>1
    <3>5. \A i \in 1..Len(f) + 2 : i \in 1..Len(f) + 1 \/ i = Len(f) + 2
      OBVIOUS
    <3>6. QED
      BY <3>3, <3>4, <3>5
  <2>5. Spoken(g) = [i \in 1..Len(f) + 2 |-> Spoken(g)[i]]
    BY <2>1 DEF Spoken
  <2>6. s = [i \in 1..Len(f) + 2 |-> s[i]]
    BY <2>2, <2>3
  <2>7. QED
    BY <2>4, <2>5, <2>6 DEF g, s
<1>4. QED
  BY <1>2, <1>3

-----------------------------------------------------------------------------
(* Decoding a line.                                                         *)

\* The pieces and the calls a line of this provider may hold.
LEMMA LinesFit ==
  ASSUME NEW line \in Lines, NEW i \in DOMAIN line.items
  PROVE  /\ line.items[i].kind = "piece" => adapter \in OpenAi
         /\ line.items[i].kind = "call" => adapter \notin OpenAi
<1>1. CASE line \in {Junk, Done}
  BY <1>1 DEF Junk, Done, Line
<1>2. CASE adapter \in OpenAi /\ line \in OpenAiLines
  <2>1. Text.kind # "call" /\ \A c, p : Piece(c, p).kind # "call"
    BY DEF Text, Piece
  <2>2. \A x, y : x.kind # "call" /\ y.kind # "call" =>
          /\ \A k \in DOMAIN Line(<<x>>).items : Line(<<x>>).items[k].kind # "call"
          /\ \A k \in DOMAIN Line(<<x, y>>).items : Line(<<x, y>>).items[k].kind # "call"
    BY DEF Line
  <2>3. \A x \in Pieces : x.kind # "call"
    BY <2>1 DEF Pieces
  <2>4. \E x, y : /\ x.kind # "call" /\ y.kind # "call"
                  /\ line = Line(<<x>>) \/ line = Line(<<x, y>>)
    BY <1>2, <2>1, <2>3 DEF OpenAiLines
  <2>5. QED
    BY <1>2, <2>2, <2>4
<1>3. CASE adapter \notin OpenAi /\ line \in GeminiLines
  <2>1. /\ Text.kind # "piece" /\ Thought.kind # "piece"
        /\ \A c, s, v : Call(c, s, v).kind # "piece"
    BY DEF Text, Thought, Call
  <2>2. \A x, y : x.kind # "piece" /\ y.kind # "piece" =>
          /\ \A k \in DOMAIN Line(<<x>>).items : Line(<<x>>).items[k].kind # "piece"
          /\ \A k \in DOMAIN Line(<<x, y>>).items : Line(<<x, y>>).items[k].kind # "piece"
    BY DEF Line
  <2>3. \A x \in WholeCalls : x.kind # "piece"
    BY <2>1 DEF WholeCalls
  <2> DEFINE valid(c) == Call(c, 1, TRUE)
  <2>4. \A c : valid(c).kind # "piece"
    BY DEF Call
  <2>5. GeminiLines = {Line(<<Text>>), Line(<<Thought>>)} \cup {Line(<<k>>) : k \in WholeCalls}
                        \cup {Line(<<Text, valid(c)>>) : c \in Calls}
                        \cup {Line(<<valid(c), valid(d)>>) : c, d \in Calls}
    BY DEF GeminiLines
  <2> HIDE DEF valid
  <2> DEFINE Fine(l) == \E x, y : /\ x.kind # "piece" /\ y.kind # "piece"
                                  /\ l = Line(<<x>>) \/ l = Line(<<x, y>>)
  <2> DEFINE after(c) == Line(<<Text, valid(c)>>)
             both(c, d) == Line(<<valid(c), valid(d)>>)
  <2>6. \A c, d : Fine(after(c)) /\ Fine(both(c, d))
    BY <2>1, <2>4
  <2>7. Fine(Line(<<Text>>)) /\ Fine(Line(<<Thought>>)) /\ \A k \in WholeCalls : Fine(Line(<<k>>))
    BY <2>1, <2>3
  <2> HIDE DEF Fine, after, both
  <2>8. Fine(line)
    <3>1. \A x \in {after(c) : c \in Calls} : Fine(x)
      BY <2>6
    <3>2. \A x \in {both(c, d) : c, d \in Calls} : Fine(x)
      BY <2>6
    <3>3. \A x \in {Line(<<k>>) : k \in WholeCalls} : Fine(x)
      BY <2>7
    <3>4. QED
      BY <1>3, <2>5, <2>7, <3>1, <3>2, <3>3 DEF after, both
  <2>9. \E x, y : /\ x.kind # "piece" /\ y.kind # "piece"
                  /\ line = Line(<<x>>) \/ line = Line(<<x, y>>)
    BY <2>8 DEF Fine
  <2>10. QED
    BY <1>3, <2>2, <2>9
<1>4. QED
  BY <1>1, <1>2, <1>3 DEF Lines

Decoders ==
  [full : Seq(Refs), pending : [Calls -> Seq(Parted)], found : Seq(Calls),
   events : Seq(Utterances), error : Codes \cup {None}]

\* The decoder when k items of the line after j have been handled.
Decoding(acc, j, k) ==
  /\ acc \in Decoders /\ Ordered(acc.full)
  /\ out \o acc.events = Spoken(acc.full)
  /\ IF acc.error = None
       THEN Faithful(acc.full, acc.pending, acc.found, j, k)
       ELSE \E i \in 0..k : ToSet(acc.full) = Heard(adapter, sent, j, i)

\* A text is a delta and a part of the answer.
LEMMA SayTextOK ==
  ASSUME NEW acc \in Decoders, Ordered(acc.full), acc.error = None,
         out \in Seq(Utterances), out \o acc.events = Spoken(acc.full),
         NEW ref \in Refs, \A r \in ToSet(acc.full) : Before(r, ref)
  PROVE  LET next == SayText(acc, ref)
         IN /\ next \in Decoders /\ next.error = None
            /\ next.pending = acc.pending /\ next.found = acc.found
            /\ Ordered(next.full) /\ ToSet(next.full) = ToSet(acc.full) \cup {ref}
            /\ out \o next.events = Spoken(next.full)
<1> DEFINE next == SayText(acc, ref)
           e == Event("text", ref)
<1>1. acc.full \in Seq(Refs) /\ acc.events \in Seq(Utterances)
  BY DEF Decoders
<1>2. e \in Utterances
  BY DEF Utterances
<1>3. /\ next.full = Append(acc.full, ref) /\ next.events = Append(acc.events, e)
      /\ next.error = None /\ next.pending = acc.pending /\ next.found = acc.found
      /\ next \in Decoders
  <2> DEFINE more == [acc EXCEPT !.full = Append(@, ref)]
  <2>1. Append(acc.full, ref) \in Seq(Refs) /\ Append(acc.events, e) \in Seq(Utterances)
    <3> HIDE DEF e
    <3>1. QED
      BY <1>1, <1>2
  <2>2. /\ more \in Decoders /\ more.full = Append(acc.full, ref) /\ more.events = acc.events
        /\ more.error = acc.error /\ more.pending = acc.pending /\ more.found = acc.found
    BY <2>1 DEF Decoders
  <2>3. next = [more EXCEPT !.events = Append(@, e)]
    BY DEF SayText
  <2> HIDE DEF more, next, e
  <2>4. /\ next \in Decoders /\ next.full = more.full /\ next.events = Append(more.events, e)
        /\ next.error = more.error /\ next.pending = more.pending /\ next.found = more.found
    BY <2>1, <2>2, <2>3 DEF Decoders
  <2>5. QED
    BY <2>2, <2>4
<1>4. Ordered(next.full) /\ ToSet(next.full) = ToSet(acc.full) \cup {ref}
  BY <1>3, OrderedAppend
<1>5. out \o next.events = Append(out \o acc.events, e)
  <2> HIDE DEF e
  <2>1. out \in Seq(Utterances) /\ acc.events \in Seq(Utterances) /\ e \in Utterances
    BY <1>1, <1>2
  <2>2. out \o Append(acc.events, e) = Append(out \o acc.events, e)
    BY <2>1, ConcatAppend, SMTT(30)
  <2>3. QED
    BY <1>3, <2>2
<1>6. Spoken(next.full) = Append(Spoken(acc.full), e)
  BY <1>1, <1>3, SpokenOK
<1>7. QED
  BY <1>3, <1>4, <1>5, <1>6

\* A piece is added to its call.
LEMMA AddPieceOK ==
  ASSUME NEW acc \in Decoders, acc.error = None, NEW c \in Calls, NEW p \in Parted,
         NEW next, next = AddPiece(acc, Piece(c, p))
  PROVE  /\ next \in Decoders
         /\ next.full = acc.full /\ next.events = acc.events /\ next.found = acc.found
         /\ next.pending[c] = Append(acc.pending[c], p)
         /\ \A d \in Calls : d # c => next.pending[d] = acc.pending[d]
<1> DEFINE it == Piece(c, p)
           parts == [acc.pending EXCEPT ![c] = Append(@, p)]
           many == \/ Cardinality({k \in DOMAIN parts[c] : parts[c][k] # "open"}) > ArgLimit
                   \/ Cardinality({d \in Calls : parts[d] # <<>>}) > CallLimit
           error == IF many THEN "TOOL_ARGUMENT_LIMIT" ELSE None
           more == [acc EXCEPT !.pending = parts]
<1>1. acc.pending \in [Calls -> Seq(Parted)]
  BY DEF Decoders
<1>2. parts \in [Calls -> Seq(Parted)]
  BY <1>1
<1>3. /\ parts[c] = Append(acc.pending[c], p)
      /\ \A d \in Calls : d # c => parts[d] = acc.pending[d]
  BY <1>1
<1>4. it.call = c /\ it.part = p
  BY DEF Piece
<1>5. next = [more EXCEPT !.error = error]
  <2>1. AddPiece(acc, it) = [more EXCEPT !.error = error]
    <3> HIDE DEF it
    <3>1. QED
      BY <1>4 DEF AddPiece
  <2>2. QED
    BY <2>1
<1>6. error \in Codes \cup {None}
  BY DEF Codes
<1> HIDE DEF parts, error
<1>7. /\ more \in Decoders /\ more.full = acc.full /\ more.events = acc.events
      /\ more.found = acc.found /\ more.pending = parts
  BY <1>2 DEF Decoders
<1> HIDE DEF more
<1>8. /\ next \in Decoders /\ next.full = more.full /\ next.events = more.events
      /\ next.found = more.found /\ next.pending = more.pending
  BY <1>5, <1>6, <1>7 DEF Decoders
<1>9. QED
  BY <1>3, <1>7, <1>8

\* A whole call is added, or refused.
LEMMA AddCallOK ==
  ASSUME NEW acc \in Decoders, acc.error = None,
         NEW c \in Calls, NEW size \in {1, ArgLimit + 1}, NEW valid \in BOOLEAN
  PROVE  LET next == AddCall(acc, Call(c, size, valid))
         IN /\ next \in Decoders
            /\ next.full = acc.full /\ next.events = acc.events /\ next.pending = acc.pending
            /\ next.error = None =>
                 /\ next.found = Append(acc.found, c)
                 /\ grounded /\ Call(c, size, valid) = Call(c, 1, TRUE)
<1> DEFINE it == Call(c, size, valid)
           next == AddCall(acc, it)
           refused(code) == [acc EXCEPT !.error = code]
           taken == [acc EXCEPT !.found = Append(@, c)]
<1>1. it.call = c /\ it.size = size /\ it.valid = valid
  BY DEF Call
<1>2. \/ size > ArgLimit /\ next = refused("TOOL_ARGUMENT_LIMIT")
      \/ next = refused("TOOL_ARGUMENT_LIMIT")
      \/ next = refused("AGENT_TOOL_CONTEXT_MISSING")
      \/ next = refused("AGENT_TOOL_SCHEMA_INVALID")
      \/ ~(size > ArgLimit) /\ grounded /\ valid /\ next = taken
  <2> HIDE DEF it
  <2>1. QED
    BY <1>1 DEF AddCall
<1>3. \A code \in Codes :
        /\ refused(code) \in Decoders /\ refused(code).error = code
        /\ refused(code).full = acc.full /\ refused(code).events = acc.events
        /\ refused(code).pending = acc.pending
  BY DEF Decoders
<1>4. /\ taken \in Decoders /\ taken.found = Append(acc.found, c)
      /\ taken.full = acc.full /\ taken.events = acc.events /\ taken.pending = acc.pending
  <2>1. Append(acc.found, c) \in Seq(Calls)
    BY DEF Decoders
  <2>2. QED
    BY <2>1 DEF Decoders
<1>5. \A code \in {"TOOL_ARGUMENT_LIMIT", "AGENT_TOOL_CONTEXT_MISSING", "AGENT_TOOL_SCHEMA_INVALID"} :
        code \in Codes /\ code # None
  BY NoErrorAssumption DEF Codes
<1>6. ~(size > ArgLimit) /\ valid => size = 1 /\ valid = TRUE
  <2>1. ArgLimit \in Nat
    BY StreamAssumption
  <2>2. QED
    BY <2>1
<1> HIDE DEF refused, taken, next
<1>7. CASE next = taken /\ ~(size > ArgLimit) /\ grounded /\ valid
  BY <1>4, <1>6, <1>7, Zenon DEF next, it
<1>8. ASSUME NEW code \in Codes, code # None, next = refused(code)
      PROVE  /\ next \in Decoders /\ next.error # None
             /\ next.full = acc.full /\ next.events = acc.events /\ next.pending = acc.pending
  BY <1>3, <1>8
<1>9. QED
  BY <1>2, <1>5, <1>7, <1>8 DEF next, it

\* An item that is said, collected or passed over leaves a decoder that has
\* handled one item more.
LEMMA ItemOK ==
  ASSUME sent \in Seq(Lines), out \in Seq(Utterances),
         NEW j \in Nat, j < Len(sent), NEW k \in Nat, k < Len(sent[j + 1].items),
         NEW acc, Decoding(acc, j, k),
         LET it == sent[j + 1].items[k + 1] IN First(it) => it.call \notin Begun(sent, j, k)
  PROVE  Decoding(Item(acc, sent[j + 1].items[k + 1], <<j + 1, k + 1>>), j, k + 1)
<1> DEFINE it == sent[j + 1].items[k + 1]
           ref == <<j + 1, k + 1>>
           next == Item(acc, it, ref)
<1>1. /\ acc \in Decoders /\ Ordered(acc.full) /\ out \o acc.events = Spoken(acc.full)
      /\ acc.error # None => \E i \in 0..k : ToSet(acc.full) = Heard(adapter, sent, j, i)
      /\ acc.error = None => Faithful(acc.full, acc.pending, acc.found, j, k)
  BY DEF Decoding
<1>2. \A l \in DOMAIN sent : sent[l] \in Lines /\ Written(sent[l])
  BY LinesAreWritten
<1>3. /\ Heard(adapter, sent, j, k + 1) =
           Heard(adapter, sent, j, k) \cup (IF Hears(adapter, it) THEN {ref} ELSE {})
      /\ Got(sent, j, k + 1) = Got(sent, j, k) \cup {it}
      /\ Begun(sent, j, k + 1) = Begun(sent, j, k) \cup (IF First(it) THEN {it.call} ELSE {})
      /\ \A r \in Heard(adapter, sent, j, k) : Before(r, ref)
  BY <1>2, ItemReached
<1>4. sent[j + 1] \in Lines /\ it \in Words /\ k + 1 \in DOMAIN sent[j + 1].items
  BY <1>2 DEF Written
<1>5. /\ it.kind = "piece" => adapter \in OpenAi
      /\ it.kind = "call" => adapter \notin OpenAi
  BY <1>4, LinesFit
<1>6. ref \in Refs
  BY DEF Refs
<1>7. First(it) => it.call \notin Begun(sent, j, k)
  OBVIOUS
<1>8. \A c \in Calls : PartsOf(c, sent, j, k + 1) =
        PartsOf(c, sent, j, k) \cup {p \in Parted : it = Piece(c, p)}
  <2> HIDE DEF it
  <2>1. QED
    BY <1>3 DEF PartsOf
<1> HIDE DEF it, ref
<1>9. CASE acc.error # None
  <2>1. next = acc
    BY <1>9 DEF Item
  <2>2. 0..k \subseteq 0..(k + 1)
    OBVIOUS
  <2> HIDE DEF next
  <2>3. QED
    BY <1>1, <1>9, <2>1, <2>2 DEF Decoding, next, it, ref
<1>10. CASE acc.error = None /\ Hears(adapter, it)
  <2>1. next = SayText(acc, ref)
    BY <1>10 DEF Item, Hears
  <2>2. Faithful(acc.full, acc.pending, acc.found, j, k)
    BY <1>1, <1>10
  <2>3. \A r \in ToSet(acc.full) : Before(r, ref)
    BY <1>3, <2>2 DEF Faithful
  <2>4. /\ next \in Decoders /\ next.error = None
        /\ next.pending = acc.pending /\ next.found = acc.found
        /\ Ordered(next.full) /\ ToSet(next.full) = ToSet(acc.full) \cup {ref}
        /\ out \o next.events = Spoken(next.full)
    BY <1>1, <1>6, <1>10, <2>1, <2>3, SayTextOK
  <2>5. it.kind # "piece" /\ ~First(it)
    BY <1>10 DEF Hears, First
  <2>6. \A c \in Calls : PartsOf(c, sent, j, k + 1) = PartsOf(c, sent, j, k)
    <3>1. \A c, p : it # Piece(c, p)
      BY <2>5 DEF Piece
    <3>2. QED
      BY <1>8, <3>1
  <2> HIDE DEF next
  <2>7. Faithful(next.full, next.pending, next.found, j, k + 1)
    <3>1. ToSet(next.full) = Heard(adapter, sent, j, k + 1)
      BY <1>3, <1>10, <2>2, <2>4 DEF Faithful
    <3>2. Begun(sent, j, k + 1) = Begun(sent, j, k) /\ Got(sent, j, k) \subseteq Got(sent, j, k + 1)
      BY <1>3, <2>5
    <3>3. QED
      BY <2>2, <2>4, <2>6, <3>1, <3>2 DEF Faithful
  <2>8. QED
    BY <2>4, <2>7 DEF Decoding, next, it, ref
<1>11. CASE acc.error = None /\ it.kind = "piece" /\ adapter = "openaiRound"
  <2>1. PICK c \in Calls, p \in Parted : it = Piece(c, p)
    BY <1>4, <1>11, WordsOK DEF Text, Thought, Call
  <2>2. next = AddPiece(acc, Piece(c, p))
    BY <1>11, <2>1 DEF Item
  <2>3. Faithful(acc.full, acc.pending, acc.found, j, k)
    BY <1>1, <1>11
  <2>4. /\ next \in Decoders
        /\ next.full = acc.full /\ next.events = acc.events /\ next.found = acc.found
        /\ \A d \in Calls : ToSet(next.pending[d]) =
             ToSet(acc.pending[d]) \cup (IF d = c THEN {p} ELSE {})
    <3> HIDE DEF next
    <3>1. acc \in Decoders /\ acc.error = None
      BY <1>1, <1>11
    <3>2. next \in Decoders
      BY <2>2, <3>1, AddPieceOK
    <3>3. next.full = acc.full /\ next.events = acc.events /\ next.found = acc.found
      BY <2>2, <3>1, AddPieceOK
    <3>4. next.pending[c] = Append(acc.pending[c], p)
      BY <2>2, <3>1, AddPieceOK
    <3>5. \A d \in Calls : d # c => next.pending[d] = acc.pending[d]
      BY <2>2, <3>1, AddPieceOK
    <3>6. acc.pending[c] \in Seq(Parted)
      BY <3>1 DEF Decoders
    <3>7. ToSet(next.pending[c]) = ToSet(acc.pending[c]) \cup {p}
      BY <3>4, <3>6, ToSetAppend
    <3>8. QED
      BY <3>2, <3>3, <3>5, <3>7
  <2>5. ~Hears(adapter, it)
    BY <1>11 DEF Hears
  <2>6. Heard(adapter, sent, j, k + 1) = Heard(adapter, sent, j, k)
    BY <1>3, <2>5
  <2> HIDE DEF next
  <2>7. \A d \in Calls : ToSet(next.pending[d]) = PartsOf(d, sent, j, k + 1)
    <3>1. \A d \in Calls : {q \in Parted : it = Piece(d, q)} = IF d = c THEN {p} ELSE {}
      BY <2>1 DEF Piece
    <3>2. QED
      BY <1>8, <1>11, <2>3, <2>4, <3>1 DEF Faithful
  <2>8. Faithful(next.full, next.pending, next.found, j, k + 1)
    BY <1>11, <2>3, <2>4, <2>6, <2>7 DEF Faithful
  <2>9. k \in 0..(k + 1) /\ ToSet(next.full) = Heard(adapter, sent, j, k)
    BY <2>3, <2>4 DEF Faithful
  <2>10. QED
    BY <1>1, <2>4, <2>8, <2>9 DEF Decoding, next, it, ref
<1>12. CASE acc.error = None /\ it.kind = "call" /\ adapter = "geminiRound"
  <2>1. PICK c \in Calls, size \in {1, ArgLimit + 1}, valid \in BOOLEAN : it = Call(c, size, valid)
    BY <1>4, <1>12, WordsOK DEF Text, Thought, Piece
  <2>2. next = AddCall(acc, Call(c, size, valid))
    <3>1. it.kind # "text" /\ it.kind # "thought" /\ it.kind # "piece"
      BY <1>12
    <3>2. next = AddCall(acc, it)
      BY <1>12, <3>1 DEF Item
    <3>3. QED
      BY <2>1, <3>2
  <2>3. Faithful(acc.full, acc.pending, acc.found, j, k)
    BY <1>1, <1>12
  <2>4. /\ next \in Decoders
        /\ next.full = acc.full /\ next.events = acc.events /\ next.pending = acc.pending
        /\ next.error = None =>
             /\ next.found = Append(acc.found, c)
             /\ grounded /\ Call(c, size, valid) = Call(c, 1, TRUE)
    <3> HIDE DEF next
    <3>1. LET n == AddCall(acc, Call(c, size, valid))
          IN /\ n \in Decoders
             /\ n.full = acc.full /\ n.events = acc.events /\ n.pending = acc.pending
             /\ n.error = None =>
                  /\ n.found = Append(acc.found, c)
                  /\ grounded /\ Call(c, size, valid) = Call(c, 1, TRUE)
      BY <1>1, <1>12, AddCallOK
    <3>2. QED
      BY <2>2, <3>1
  <2>5. ~Hears(adapter, it) /\ First(it) /\ it.call = c
    BY <1>12, <2>1 DEF Hears, First, Call
  <2>6. Heard(adapter, sent, j, k + 1) = Heard(adapter, sent, j, k)
    BY <1>3, <2>5
  <2>7. k \in 0..(k + 1) /\ ToSet(next.full) = Heard(adapter, sent, j, k)
    BY <2>3, <2>4 DEF Faithful
  <2> HIDE DEF next
  <2>8. ASSUME next.error = None PROVE Faithful(next.full, next.pending, next.found, j, k + 1)
    <3>1. acc.found \in Seq(Calls) /\ next.found = Append(acc.found, c) /\ grounded
      BY <1>1, <2>4, <2>8 DEF Decoders
    <3>2. ToSet(acc.found) = Begun(sent, j, k) /\ IsInjective(acc.found) /\ c \notin ToSet(acc.found)
      BY <1>7, <1>12, <2>3, <2>5 DEF Faithful
    <3>3. ToSet(next.found) = Begun(sent, j, k + 1)
      <4>1. ToSet(next.found) = ToSet(acc.found) \cup {c}
        BY <3>1, ToSetAppend
      <4>2. Begun(sent, j, k + 1) = Begun(sent, j, k) \cup {c}
        BY <1>3, <2>5
      <4>3. QED
        BY <3>2, <4>1, <4>2
    <3>4. IsInjective(next.found)
      <4>1. \A a, b \in 1..Len(acc.found) : acc.found[a] = acc.found[b] => a = b
        <5>1. DOMAIN acc.found = 1..Len(acc.found)
          BY <3>1
        <5>2. QED
          BY <3>2, <5>1, Zenon DEF IsInjective
      <4>2. \A a \in 1..Len(acc.found) : acc.found[a] # c
        BY <3>1, <3>2 DEF ToSet
      <4>3. /\ DOMAIN next.found = 1..Len(acc.found) + 1 /\ next.found[Len(acc.found) + 1] = c
            /\ \A a \in 1..Len(acc.found) : next.found[a] = acc.found[a]
        BY <3>1
      <4>4. QED
        <5>1. Len(acc.found) \in Nat
          BY <3>1
        <5>2. \A a \in 1..Len(acc.found) + 1 : a \in 1..Len(acc.found) \/ a = Len(acc.found) + 1
          BY <5>1
        <5>3. \A a, b \in DOMAIN next.found : next.found[a] = next.found[b] => a = b
          BY <4>1, <4>2, <4>3, <5>2, Zenon
        <5>4. QED
          BY <5>3, Zenon DEF IsInjective
    <3>5. \A d \in ToSet(next.found) : Call(d, 1, TRUE) \in Got(sent, j, k + 1)
      <4>1. \A d \in ToSet(acc.found) : Call(d, 1, TRUE) \in Got(sent, j, k)
        BY <1>12, <2>3 DEF Faithful
      <4>2. Call(c, 1, TRUE) = it
        BY <2>1, <2>4, <2>8
      <4>3. ToSet(next.found) = ToSet(acc.found) \cup {c}
        BY <3>1, ToSetAppend
      <4>4. QED
        BY <1>3, <4>1, <4>2, <4>3
    <3>6. \A d \in Calls : ToSet(next.pending[d]) = {}
      BY <1>12, <2>3, <2>4 DEF Faithful
    <3>7. QED
      BY <1>12, <2>6, <2>7, <3>1, <3>3, <3>4, <3>5, <3>6 DEF Faithful
  <2>9. QED
    BY <1>1, <2>4, <2>7, <2>8 DEF Decoding, next, it, ref
<1>13. CASE /\ acc.error = None /\ ~Hears(adapter, it)
            /\ ~(it.kind = "piece" /\ adapter = "openaiRound")
            /\ ~(it.kind = "call" /\ adapter = "geminiRound")
  <2>1. next = acc
    BY <1>13 DEF Item, Hears
  <2>2. Faithful(acc.full, acc.pending, acc.found, j, k)
    BY <1>1, <1>13
  <2>3. Heard(adapter, sent, j, k + 1) = Heard(adapter, sent, j, k)
    BY <1>3, <1>13
  <2>4. ASSUME adapter = "openaiRound", NEW c \in Calls
        PROVE  PartsOf(c, sent, j, k + 1) = PartsOf(c, sent, j, k)
    <3>1. \A p : it # Piece(c, p)
      BY <1>13, <2>4 DEF Piece
    <3>2. QED
      BY <1>8, <3>1
  <2>5. ASSUME adapter = "geminiRound"
        PROVE  Begun(sent, j, k + 1) = Begun(sent, j, k) /\ Got(sent, j, k) \subseteq Got(sent, j, k + 1)
    BY <1>3, <1>5, <1>13, <2>5 DEF First, OpenAi
  <2>6. Faithful(acc.full, acc.pending, acc.found, j, k + 1)
    BY <2>2, <2>3, <2>4, <2>5 DEF Faithful
  <2> HIDE DEF next
  <2>7. QED
    BY <1>1, <1>13, <2>1, <2>6 DEF Decoding, next, it, ref
<1>14. QED
  BY <1>9, <1>10, <1>11, <1>12, <1>13

\* A call that is begun at a place has not been begun before it.
LEMMA FreshCall ==
  ASSUME Numbered, sent \in Seq(Lines),
         NEW j \in Nat, j < Len(sent), NEW k \in Nat, k < Len(sent[j + 1].items)
  PROVE  LET it == sent[j + 1].items[k + 1] IN First(it) => it.call \notin Begun(sent, j, k)
<1> DEFINE it == sent[j + 1].items[k + 1]
           ref == <<j + 1, k + 1>>
<1>1. \A l \in DOMAIN sent : Written(sent[l])
  BY LinesAreWritten
<1>2. ref \in Places(sent) /\ ref \notin Reached(sent, j, k)
  BY <1>1, ReachedItem
<1>3. At(sent, ref) = it
  BY DEF At
<1> HIDE DEF it, ref
<1>4. \A r, s \in Reached(sent, Len(sent), 0) :
        First(At(sent, r)) /\ First(At(sent, s)) /\ At(sent, r).call = At(sent, s).call => r = s
  BY DEF Numbered, Counted
<1>5. ASSUME First(it), it.call \in Begun(sent, j, k) PROVE FALSE
  <2>1. PICK r \in Reached(sent, j, k) : First(At(sent, r)) /\ At(sent, r).call = it.call
    BY <1>5 DEF Begun, Got
  <2>2. r \in Places(sent)
    BY <2>1 DEF Reached
  <2>3. r \in Reached(sent, Len(sent), 0) /\ ref \in Reached(sent, Len(sent), 0)
    BY <1>2, <2>2 DEF Reached, Places
  <2>4. r = ref
    BY <1>3, <1>4, <1>5, <2>1, <2>3
  <2>5. QED
    BY <1>2, <2>4
<1>6. QED
  BY <1>5 DEF it

\* A line that has been decoded.
LEMMA DecodeOK ==
  ASSUME Numbered, sent \in Seq(Lines), out = Spoken(full), Ordered(full),
         pending \in [Calls -> Seq(Parted)], found \in Seq(Calls),
         NEW j \in Nat, j < Len(sent), Faithful(full, pending, found, j, 0)
  PROVE  Decoding(Decode(sent[j + 1], j + 1), j, Len(sent[j + 1].items))
<1> DEFINE line == sent[j + 1]
           n == Len(line.items)
           start == [full |-> full, pending |-> pending, found |-> found,
                     events |-> <<>>, error |-> None]
           first == Item(start, line.items[1], <<j + 1, 1>>)
           second == Item(first, line.items[2], <<j + 1, 2>>)
           Steps(f) == [i \in 0..n |-> IF i = 0 THEN start
                                       ELSE Item(f[i - 1], line.items[i], <<j + 1, i>>)]
           acc == CHOOSE f : f = Steps(f)
<1>1. /\ line \in Lines /\ Written(line) /\ n \in {0, 1, 2}
  <2>1. line \in Lines
    OBVIOUS
  <2>2. Written(line)
    BY <2>1, LinesAreWritten
  <2> HIDE DEF line
  <2>3. line.items \in Seq(Words) /\ Len(line.items) <= 2
    BY <2>2 DEF Written
  <2>4. Len(line.items) \in Nat
    BY <2>3
  <2>5. \A m \in Nat : m <= 2 => m \in {0, 1, 2}
    OBVIOUS
  <2>6. QED
    BY <2>1, <2>2, <2>3, <2>4, <2>5
<1>2. out \in Seq(Utterances)
  BY SpokenOK DEF Ordered
<1>3. Decoding(start, j, 0)
  <2>1. start \in Decoders
    BY DEF Decoders, Ordered
  <2>2. out \o <<>> = out
    BY <1>2
  <2>3. QED
    BY <2>1, <2>2 DEF Decoding
<1>4. 0 < n => Decoding(first, j, 1)
  <2> HIDE DEF start
  <2>1. ASSUME 0 < n PROVE Decoding(Item(start, line.items[0 + 1], <<j + 1, 0 + 1>>), j, 0 + 1)
    <3>1. LET it == line.items[0 + 1] IN First(it) => it.call \notin Begun(sent, j, 0)
      BY <2>1, FreshCall
    <3>2. QED
      BY <1>2, <1>3, <2>1, <3>1, ItemOK
  <2>2. QED
    BY <2>1
<1>5. 1 < n => Decoding(second, j, 2)
  <2> HIDE DEF first
  <2>1. ASSUME 1 < n PROVE Decoding(Item(first, line.items[1 + 1], <<j + 1, 1 + 1>>), j, 1 + 1)
    <3>1. LET it == line.items[1 + 1] IN First(it) => it.call \notin Begun(sent, j, 1)
      BY <2>1, FreshCall
    <3>2. Decoding(first, j, 1)
      <4> HIDE DEF n
      <4>1. QED
        BY <1>1, <1>4, <2>1
    <3>3. 1 \in Nat /\ 1 < Len(sent[j + 1].items)
      BY <2>1
    <3>4. QED
      BY <1>2, <3>1, <3>2, <3>3, ItemOK
  <2>2. QED
    BY <2>1
<1> HIDE DEF start, first, second
<1>6. acc = Steps(acc)
  <2> DEFINE g == [i \in 0..n |-> IF i = 0 THEN start ELSE IF i = 1 THEN first ELSE second]
  <2>1. \A i \in 0..n : i = 0 \/ i = 1 \/ i = 2
    <3> HIDE DEF n
    <3>1. QED
      BY <1>1
  <2>2. \A i \in 0..n : g[i] = IF i = 0 THEN start
                               ELSE Item(g[i - 1], line.items[i], <<j + 1, i>>)
    <3>1. 0 \in 0..n /\ g[0] = start
      BY <1>1
    <3>2. 1 \in 0..n => g[1] = first
      OBVIOUS
    <3>3. 2 \in 0..n => 1 \in 0..n /\ g[2] = second
      BY <1>1
    <3> HIDE DEF g, n, line
    <3>4. 1 \in 0..n => g[1] = Item(g[1 - 1], line.items[1], <<j + 1, 1>>)
      BY <3>1, <3>2 DEF first, line
    <3>5. 2 \in 0..n => g[2] = Item(g[2 - 1], line.items[2], <<j + 1, 2>>)
      BY <3>2, <3>3 DEF second, line
    <3>6. QED
      BY <2>1, <3>1, <3>4, <3>5
  <2>3. g = Steps(g)
    <3> HIDE DEF n, line
    <3>1. g = [i \in 0..n |-> g[i]]
      OBVIOUS
    <3> HIDE DEF g
    <3>2. QED
      BY <2>2, <3>1
  <2> HIDE DEF Steps, g
  <2>4. QED
    BY <2>3
<1>7. Decode(line, j + 1) = acc[n]
  BY DEF Decode, start
<1>8. /\ acc[0] = start
      /\ n \in {1, 2} => acc[1] = first
      /\ n = 2 => acc[2] = second
  <2> HIDE DEF acc, line, n
  <2>1. \A i \in 0..n : acc[i] = IF i = 0 THEN start
                                 ELSE Item(acc[i - 1], line.items[i], <<j + 1, i>>)
    BY <1>6
  <2>2. acc[0] = start
    <3>1. 0 \in 0..n
      BY <1>1
    <3>2. QED
      BY <2>1, <3>1
  <2>3. n \in {1, 2} => acc[1] = first
    <3>1. n \in {1, 2} => 1 \in 0..n
      OBVIOUS
    <3>2. QED
      BY <2>1, <2>2, <3>1 DEF first, line
  <2>4. n = 2 => acc[2] = second
    <3>1. n = 2 => 2 \in 0..n
      OBVIOUS
    <3>2. QED
      BY <2>1, <2>3, <3>1 DEF second, line
  <2>5. QED
    BY <2>2, <2>3, <2>4
<1> HIDE DEF acc
<1>9. Decoding(Decode(line, j + 1), j, n)
  <2> HIDE DEF line, n
  <2>1. CASE n = 0
    BY <1>3, <1>7, <1>8, <2>1
  <2>2. CASE n = 1
    BY <1>4, <1>7, <1>8, <2>2
  <2>3. CASE n = 2
    BY <1>5, <1>7, <1>8, <2>3
  <2>4. QED
    BY <1>1, <2>1, <2>2, <2>3
<1>10. QED
  BY <1>9

-----------------------------------------------------------------------------
(* The buffer.                                                              *)

\* The two halves of the line that follows t lines.
LEMMA Halves ==
  ASSUME NEW t \in Nat
  PROVE  /\ Half(2 * t + 1) = [line |-> t + 1, half |-> 1]
         /\ Half(2 * t + 2) = [line |-> t + 1, half |-> 2]
<1>1. (2 * t + 1) % 2 = 1 /\ (2 * t + 2) % 2 = 0
  OBVIOUS
<1>2. (2 * t + 1 + 1) \div 2 = t + 1 /\ (2 * t + 2 + 1) \div 2 = t + 1
  OBVIOUS
<1>3. QED
  BY <1>1, <1>2 DEF Half

\* What has come after t lines holds a line from its second half on.
LEMMA HasLineOK ==
  ASSUME NEW t \in Nat, NEW n \in Nat,
         NEW bytes, bytes = [i \in 1..n |-> Half(2 * t + i)]
  PROVE  HasLine(bytes) <=> n >= 2
<1>1. DOMAIN bytes = 1..n /\ \A i \in 1..n : bytes[i] = Half(2 * t + i)
  OBVIOUS
<1>2. \A i \in 1..n : n < 2 => i = 1
  OBVIOUS
<1>3. Half(2 * t + 1).half = 1 /\ Half(2 * t + 2).half = 2
  <2>1. /\ Half(2 * t + 1) = [line |-> t + 1, half |-> 1]
        /\ Half(2 * t + 2) = [line |-> t + 1, half |-> 2]
    BY Halves
  <2>2. QED
    BY <2>1
<1>4. n >= 2 => 2 \in 1..n
  OBVIOUS
<1>5. CASE n >= 2
  BY <1>1, <1>3, <1>4, <1>5 DEF HasLine
<1>6. CASE n < 2
  <2>1. \A i \in DOMAIN bytes : bytes[i].half # 2
    BY <1>1, <1>2, <1>3, <1>6
  <2>2. QED
    BY <1>6, <2>1 DEF HasLine
<1>7. QED
  BY <1>5, <1>6

\* In the loop over the lines the first line of the buffer is the one that was
\* sent after those taken.
LEMMA FirstLine ==
  ASSUME Typed, NEW t \in 0..Len(sent), Taken(t), at = "lines"
  PROVE  /\ t < Len(sent) /\ Number = t + 1 /\ Current = sent[t + 1]
         /\ Len(buffer) >= 2 /\ Len(Rest) = Len(buffer) - 2
         /\ Rest = [i \in 1..(Len(buffer) - 2) |-> Half(2 * (t + 1) + i)]
         /\ Rest \in Seq({Half(k) : k \in 1..(2 * MaxLines)})
         /\ HasLine(Rest) <=> Len(Rest) >= 2
<1> DEFINE n == Len(buffer)
           H == {Half(k) : k \in 1..(2 * MaxLines)}
<1>1. /\ buffer \in Seq(H) /\ n \in Nat /\ t \in Nat /\ Len(sent) \in Nat
      /\ delivered \in 0..(2 * Len(sent))
  BY DEF Typed
<1>2. /\ delivered = 2 * t + n /\ buffer = [i \in 1..n |-> Half(2 * t + i)] /\ n >= 2
  BY DEF Taken
<1>3. t < Len(sent)
  BY <1>1, <1>2
<1>4. buffer[1] = [line |-> t + 1, half |-> 1] /\ buffer[2] = [line |-> t + 1, half |-> 2]
  <2>1. 1 \in 1..n /\ 2 \in 1..n
    BY <1>1, <1>2
  <2>2. buffer[1] = Half(2 * t + 1) /\ buffer[2] = Half(2 * t + 2)
    BY <1>2, <2>1
  <2>3. QED
    BY <1>1, <2>2, Halves
<1>5. NewLine = 2
  <2>1. DOMAIN buffer = 1..n
    BY <1>1
  <2>2. 2 \in DOMAIN buffer /\ buffer[2].half = 2 /\ \A j \in 1..(2 - 1) : buffer[j].half # 2
    BY <1>1, <1>2, <1>4, <2>1
  <2>3. ASSUME NEW i \in DOMAIN buffer, buffer[i].half = 2, \A j \in 1..(i - 1) : buffer[j].half # 2
        PROVE  i = 2
    <3>1. i # 1
      BY <1>4, <2>3
    <3>2. ~(i > 2)
      <4>1. i > 2 => 2 \in 1..(i - 1)
        BY <2>1
      <4>2. QED
        BY <1>4, <2>3, <4>1
    <3>3. QED
      BY <2>1, <3>1, <3>2
  <2>4. QED
    BY <2>2, <2>3 DEF NewLine
<1>6. Number = t + 1
  BY <1>4, <1>5 DEF Number
<1>7. Current = sent[t + 1]
  <2>1. SubSeq(buffer, 1, 2) = <<buffer[1], buffer[2]>>
    <3> HIDE DEF H, n
    <3>1. \A s \in Seq(H) : Len(s) >= 2 => SubSeq(s, 1, 2) = <<s[1], s[2]>>
      <4>1. ASSUME NEW s \in Seq(H), Len(s) >= 2 PROVE SubSeq(s, 1, 2) = <<s[1], s[2]>>
        <5>1. /\ SubSeq(s, 1, 2) \in Seq(H) /\ Len(SubSeq(s, 1, 2)) = 2
              /\ SubSeq(s, 1, 2)[1] = s[1] /\ SubSeq(s, 1, 2)[2] = s[2]
          BY <4>1
        <5>2. \A u \in Seq(H) : Len(u) = 2 => u = <<u[1], u[2]>>
          OBVIOUS
        <5>3. QED
          BY <5>1, <5>2
      <4>2. QED
        BY <4>1
    <3>2. QED
      BY <1>1, <1>2, <3>1 DEF n
  <2>2. Half(2 * (t + 1) - 1) = buffer[1] /\ Half(2 * (t + 1)) = buffer[2]
    <3>1. 2 * (t + 1) - 1 = 2 * t + 1 /\ 2 * (t + 1) = 2 * t + 2
      BY <1>1
    <3>2. QED
      BY <1>1, <1>4, <3>1, Halves
  <2>3. QED
    BY <1>5, <1>6, <2>1, <2>2 DEF Current
<1>8. /\ Rest \in Seq(H) /\ Len(Rest) = n - 2 /\ \A i \in 1..(n - 2) : Rest[i] = buffer[i + 2]
  <2>1. Rest = SubSeq(buffer, 3, n)
    BY <1>5 DEF Rest
  <2> HIDE DEF H
  <2>2. QED
    BY <1>1, <1>2, <2>1
<1>9. \A i \in 1..(n - 2) : Rest[i] = Half(2 * (t + 1) + i)
  <2>1. ASSUME NEW i \in 1..(n - 2) PROVE Rest[i] = Half(2 * (t + 1) + i)
    <3>1. i + 2 \in 1..n /\ 2 * t + (i + 2) = 2 * (t + 1) + i
      BY <1>1
    <3> HIDE DEF n
    <3>2. buffer[i + 2] = Half(2 * t + (i + 2))
      BY <1>2, <3>1
    <3>3. QED
      BY <1>8, <3>1, <3>2
  <2>2. QED
    BY <2>1
<1>10. Rest = [i \in 1..(n - 2) |-> Half(2 * (t + 1) + i)]
  <2> HIDE DEF n, H
  <2>1. Rest = [i \in 1..(n - 2) |-> Rest[i]]
    BY <1>1, <1>2, <1>8
  <2>2. QED
    BY <1>9, <2>1
<1>11. HasLine(Rest) <=> n - 2 >= 2
  <2>1. n - 2 \in Nat /\ t + 1 \in Nat
    BY <1>1, <1>2
  <2> HIDE DEF n
  <2>2. QED
    BY <1>10, <2>1, HasLineOK
<1>12. QED
  BY <1>1, <1>2, <1>3, <1>6, <1>7, <1>8, <1>10, <1>11

-----------------------------------------------------------------------------
(* The numbers of the calls.                                                *)

\* The items of some lines are those at their places.
LEMMA GotAll ==
  ASSUME NEW S, NEW lines \in Seq(S), \A l \in DOMAIN lines : lines[l].items \in Seq(Words)
  PROVE  Got(lines, Len(lines), 0) = UNION {ToSet(l.items) : l \in ToSet(lines)}
<1> DEFINE items == UNION {ToSet(l.items) : l \in ToSet(lines)}
<1>1. ASSUME NEW x \in Got(lines, Len(lines), 0) PROVE x \in items
  <2>1. PICK r \in Reached(lines, Len(lines), 0) : x = At(lines, r)
    BY <1>1 DEF Got
  <2>2. r[1] \in 1..Len(lines) /\ r[2] \in 1..Len(lines[r[1]].items)
    BY <2>1 DEF Reached, Places
  <2>3. lines[r[1]] \in ToSet(lines)
    BY <2>2 DEF ToSet
  <2>4. x \in ToSet(lines[r[1]].items)
    BY <2>1, <2>2 DEF ToSet, At
  <2>5. QED
    BY <2>3, <2>4
<1>2. ASSUME NEW x \in items PROVE x \in Got(lines, Len(lines), 0)
  <2>1. PICK l \in ToSet(lines) : x \in ToSet(l.items)
    BY <1>2
  <2>2. PICK i \in 1..Len(lines) : l = lines[i]
    BY <2>1 DEF ToSet
  <2>3. lines[i].items \in Seq(Words)
    BY <2>2
  <2>4. PICK k \in 1..Len(lines[i].items) : x = lines[i].items[k]
    BY <2>1, <2>2, <2>3 DEF ToSet
  <2>5. <<i, k>> \in Refs
    BY <2>3, <2>4 DEF Refs
  <2>6. <<i, k>> \in Reached(lines, Len(lines), 0)
    BY <2>2, <2>4, <2>5 DEF Reached, Places
  <2>7. x = At(lines, <<i, k>>)
    BY <2>4 DEF At
  <2>8. QED
    BY <2>6, <2>7 DEF Got
<1>3. QED
  BY <1>1, <1>2

\* The calls the model's properties count are those begun in all lines.
LEMMA OpenedAll ==
  ASSUME NEW S, NEW lines \in Seq(S), \A l \in DOMAIN lines : lines[l].items \in Seq(Words)
  PROVE  Opened(lines) = Begun(lines, Len(lines), 0)
BY GotAll DEF Opened, Begun

\* What has been begun before an item of a new line.
LEMMA OpenedBefore ==
  ASSUME NEW lines \in Seq(Lines), NEW line \in Lines, NEW k \in Nat, k < Len(line.items)
  PROVE  Opened(lines) \cup Opened(<<Line(SubSeq(line.items, 1, k))>>) =
           Begun(Append(lines, line), Len(lines), k)
<1> DEFINE longer == Append(lines, line)
           head == SubSeq(line.items, 1, k)
           n == Len(lines)
<1>1. /\ \A l \in DOMAIN lines : Written(lines[l]) /\ lines[l].items \in Seq(Words)
      /\ Written(line) /\ line.items \in Seq(Words)
  BY LinesAreWritten DEF Written
<1>2. Opened(lines) = Begun(lines, n, 0) /\ Begun(longer, n, 0) = Begun(lines, n, 0)
  <2>1. Opened(lines) = Begun(lines, n, 0)
    BY <1>1, OpenedAll
  <2>2. n \in 0..n
    OBVIOUS
  <2>3. QED
    BY <2>1, <2>2, AppendReached
<1>3. /\ head \in Seq(Words) /\ Len(head) = k /\ \A i \in 1..k : head[i] = line.items[i]
  BY <1>1
<1>4. /\ longer \in Seq(Lines) /\ Len(longer) = n + 1 /\ longer[n + 1] = line
  OBVIOUS
<1> HIDE DEF longer, head
<1>5. Opened(<<Line(head)>>) = {head[i].call : i \in {m \in 1..k : First(head[m])}}
  <2>1. ToSet(<<Line(head)>>) = {Line(head)}
    BY DEF ToSet
  <2>2. Line(head).items = head
    BY DEF Line
  <2>3. UNION {ToSet(l.items) : l \in ToSet(<<Line(head)>>)} = ToSet(head)
    BY <2>1, <2>2
  <2>4. ToSet(head) = {head[i] : i \in 1..k}
    BY <1>3 DEF ToSet
  <2>5. Opened(<<Line(head)>>) = {it.call : it \in {i \in ToSet(head) : First(i)}}
    BY <2>3 DEF Opened
  <2>6. {it.call : it \in {i \in {head[i] : i \in 1..k} : First(i)}} =
          {head[i].call : i \in {m \in 1..k : First(head[m])}}
    OBVIOUS
  <2>7. QED
    BY <2>4, <2>5, <2>6
<1>6. Got(longer, n, k) = Got(longer, n, 0) \cup {line.items[i] : i \in 1..k}
  <2>1. \A r \in Places(longer) : r \in Refs /\ r[1] \in Nat /\ r[2] \in Nat
    BY DEF Places, Refs
  <2>2. ASSUME NEW x \in Got(longer, n, k)
        PROVE  x \in Got(longer, n, 0) \cup {line.items[i] : i \in 1..k}
    <3>1. PICK r \in Reached(longer, n, k) : x = At(longer, r)
      BY <2>2 DEF Got
    <3>2. r \in Places(longer) /\ (r[1] <= n \/ (r[1] = n + 1 /\ r[2] <= k))
      BY <3>1 DEF Reached
    <3>3. CASE r[1] <= n
      <4>1. r \in Reached(longer, n, 0)
        BY <3>2, <3>3 DEF Reached
      <4>2. QED
        BY <3>1, <4>1 DEF Got
    <3>4. CASE r[1] = n + 1 /\ r[2] <= k
      <4>1. r[2] \in 1..k
        BY <3>2, <3>4 DEF Places
      <4>2. x = line.items[r[2]]
        BY <1>4, <3>1, <3>4 DEF At
      <4>3. QED
        BY <4>1, <4>2
    <3>5. QED
      BY <3>2, <3>3, <3>4
  <2>3. \A x \in Got(longer, n, 0) : x \in Got(longer, n, k)
    <3>1. Reached(longer, n, 0) \subseteq Reached(longer, n, k)
      BY <2>1 DEF Reached
    <3>2. QED
      BY <3>1 DEF Got
  <2>4. ASSUME NEW i \in 1..k PROVE line.items[i] \in Got(longer, n, k)
    <3>1. <<n + 1, i>> \in Refs
      BY DEF Refs
    <3>2. n + 1 \in 1..Len(longer) /\ i \in 1..Len(longer[n + 1].items)
      BY <1>1, <1>4
    <3>3. <<n + 1, i>> \in Reached(longer, n, k)
      BY <3>1, <3>2 DEF Reached, Places
    <3>4. At(longer, <<n + 1, i>>) = line.items[i]
      BY <1>4 DEF At
    <3>5. QED
      BY <3>3, <3>4 DEF Got
  <2>5. QED
    BY <2>2, <2>3, <2>4
<1>7. Begun(longer, n, k) = Begun(longer, n, 0) \cup {line.items[i].call : i \in {m \in 1..k : First(line.items[m])}}
  <2> DEFINE heads == {line.items[i] : i \in 1..k}
  <2>1. Begun(longer, n, k) =
          Begun(longer, n, 0) \cup {it.call : it \in {i \in heads : First(i)}}
    <3> HIDE DEF heads
    <3>1. Got(longer, n, k) = Got(longer, n, 0) \cup heads
      BY <1>6 DEF heads
    <3>2. QED
      BY <3>1 DEF Begun
  <2>2. {it.call : it \in {i \in heads : First(i)}} =
          {line.items[i].call : i \in {m \in 1..k : First(line.items[m])}}
    OBVIOUS
  <2>3. QED
    BY <2>1, <2>2
<1>8. {head[i].call : i \in {m \in 1..k : First(head[m])}} =
        {line.items[i].call : i \in {m \in 1..k : First(line.items[m])}}
  BY <1>3
<1>9. QED
  BY <1>2, <1>5, <1>7, <1>8 DEF longer, head

\* How a provider numbers what follows the calls it has begun.
InTurn(it, begun, earlier) ==
  /\ First(it) => it.call = 1 + Cardinality(begun \cup earlier)
  /\ it.kind = "piece" /\ ~First(it) => it.call \in begun

\* There are m numbers up to m.
LEMMA CountUpTo ==
  ASSUME NEW m \in Nat
  PROVE  IsFiniteSet(1..m) /\ Cardinality(1..m) = m
BY FS_Interval

\* An item that follows as a provider lets it follow is counted.
LEMMA CountItem ==
  ASSUME NEW lines \in Seq(Lines), NEW j \in Nat, j < Len(lines),
         NEW k \in Nat, k < Len(lines[j + 1].items), NEW earlier,
         Counted(lines, j, k, earlier),
         InTurn(lines[j + 1].items[k + 1], Begun(lines, j, k), earlier)
  PROVE  Counted(lines, j, k + 1, earlier)
<1> DEFINE ref == <<j + 1, k + 1>>
           it == lines[j + 1].items[k + 1]
           B == Begun(lines, j, k)
<1>1. \A l \in DOMAIN lines : Written(lines[l])
  BY LinesAreWritten
<1>2. /\ ref \in Places(lines) /\ At(lines, ref) = it
      /\ Begun(lines, j, k + 1) = B \cup (IF First(it) THEN {it.call} ELSE {})
  <2>1. /\ ref \in Places(lines) /\ At(lines, ref) = it
        /\ Heard(adapter, lines, j, k + 1) =
             Heard(adapter, lines, j, k) \cup (IF Hears(adapter, it) THEN {ref} ELSE {})
        /\ Got(lines, j, k + 1) = Got(lines, j, k) \cup {it}
        /\ Begun(lines, j, k + 1) = B \cup (IF First(it) THEN {it.call} ELSE {})
        /\ \A r \in Heard(adapter, lines, j, k) : Before(r, ref)
    BY <1>1, ItemReached
  <2>2. QED
    BY <2>1
<1>3. Reached(lines, j, k + 1) = Reached(lines, j, k) \cup {ref}
  <2>1. /\ ref \in Places(lines) /\ ref \notin Reached(lines, j, k)
        /\ Reached(lines, j, k + 1) = Reached(lines, j, k) \cup {ref}
    BY <1>1, ReachedItem
  <2>2. QED
    BY <2>1
<1>4. /\ B \cap earlier = {}
      /\ \A r, s \in Reached(lines, j, k) :
           First(At(lines, r)) /\ First(At(lines, s)) /\ At(lines, r).call = At(lines, s).call => r = s
      /\ \A r \in Reached(lines, j, k) : At(lines, r).kind = "piece" => At(lines, r).call \in B
  BY DEF Counted
<1>5. PICK n \in Nat : B \cup earlier = 1..n
  BY DEF Counted
<1>6. \A r \in Reached(lines, j, k) : First(At(lines, r)) => At(lines, r).call \in B
  BY DEF Begun, Got
<1>7. InTurn(it, B, earlier)
  OBVIOUS
<1> HIDE DEF ref, B, it
<1>8. CASE First(it)
  <2>1. Cardinality(1..n) = n
    BY CountUpTo
  <2>2. it.call = n + 1
    <3>1. it.call = 1 + Cardinality(B \cup earlier)
      BY <1>8, <1>7 DEF InTurn
    <3>2. Cardinality(B \cup earlier) = n
      BY <1>5, <2>1
    <3>3. QED
      BY <3>1, <3>2
  <2>3. it.call \notin B /\ it.call \notin earlier
    BY <1>5, <2>2
  <2>4. Begun(lines, j, k + 1) = B \cup {it.call}
    BY <1>2, <1>8
  <2>5. Begun(lines, j, k + 1) \cup earlier = 1..(n + 1) /\ n + 1 \in Nat
    BY <1>5, <2>2, <2>4
  <2>6. \A r, s \in Reached(lines, j, k + 1) :
          First(At(lines, r)) /\ First(At(lines, s)) /\ At(lines, r).call = At(lines, s).call => r = s
    BY <1>2, <1>3, <1>4, <1>6, <2>3
  <2>7. \A r \in Reached(lines, j, k + 1) :
          At(lines, r).kind = "piece" => At(lines, r).call \in Begun(lines, j, k + 1)
    BY <1>2, <1>3, <1>4, <2>4
  <2>8. Begun(lines, j, k + 1) \cap earlier = {}
    BY <1>4, <2>3, <2>4
  <2>9. QED
    BY <2>5, <2>6, <2>7, <2>8 DEF Counted
<1>9. CASE ~First(it)
  <2>1. Begun(lines, j, k + 1) = B
    BY <1>2, <1>9
  <2>2. \A r, s \in Reached(lines, j, k + 1) :
          First(At(lines, r)) /\ First(At(lines, s)) /\ At(lines, r).call = At(lines, s).call => r = s
    BY <1>2, <1>3, <1>4, <1>9
  <2>3. \A r \in Reached(lines, j, k + 1) : At(lines, r).kind = "piece" => At(lines, r).call \in B
    BY <1>2, <1>3, <1>4, <1>9, <1>7 DEF InTurn
  <2>4. QED
    BY <1>4, <1>5, <2>1, <2>2, <2>3 DEF Counted
<1>10. QED
  BY <1>8, <1>9

\* A line that may follow is counted whole.
LEMMA CountLine ==
  ASSUME sent \in Seq(Lines), Numbered, NEW line \in Lines, MayFollow(line)
  PROVE  LET longer == Append(sent, line)
         IN /\ \A j \in 0..Len(longer) : \E n \in Nat : Begun(longer, j, 0) \cup InHistory = 1..n
            /\ Counted(longer, Len(longer), 0, InHistory)
<1> DEFINE longer == Append(sent, line)
           L == Len(sent)
           n == Len(line.items)
           C(k) == Counted(longer, L, k, InHistory)
<1>1. /\ L \in Nat /\ longer \in Seq(Lines) /\ Len(longer) = L + 1 /\ longer[L + 1] = line
      /\ Written(line)
  BY LinesAreWritten
<1>2. n \in {0, 1, 2} /\ line.items \in Seq(Words)
  <2>1. line.items \in Seq(Words) /\ Len(line.items) <= 2
    BY <1>1 DEF Written
  <2>2. Len(line.items) \in Nat
    BY <2>1
  <2>3. \A m \in Nat : m <= 2 => m \in {0, 1, 2}
    OBVIOUS
  <2>4. QED
    BY <2>1, <2>2, <2>3
<1>3. \A j \in 0..L : Begun(longer, j, 0) = Begun(sent, j, 0)
  BY AppendReached
<1>4. C(0)
  <2>1. /\ Reached(longer, L, 0) = Reached(sent, L, 0)
        /\ \A r \in Reached(sent, L, 0) : At(longer, r) = At(sent, r)
    BY <1>1, ReachedAppend
  <2>2. Begun(longer, L, 0) = Begun(sent, L, 0)
    BY <1>1, <1>3
  <2> HIDE DEF longer, L
  <2>3. Counted(sent, L, 0, InHistory)
    BY DEF Numbered, L
  <2>4. QED
    BY <2>1, <2>2, <2>3 DEF Counted
<1>5. ASSUME NEW k \in Nat, k < n, C(k) PROVE C(k + 1)
  <2> DEFINE it == line.items[k + 1]
             before == Opened(sent) \cup Opened(<<Line(SubSeq(line.items, 1, k))>>)
  <2>1. k + 1 \in DOMAIN line.items /\ (k + 1) - 1 = k
    BY <1>2, <1>5
  <2>2. InTurn(it, before, InHistory)
    BY <2>1 DEF MayFollow, InTurn
  <2>3. before = Begun(longer, L, k)
    BY <1>5, OpenedBefore
  <2> HIDE DEF longer, L, before
  <2>4. L < Len(longer) /\ k < Len(longer[L + 1].items) /\ it = longer[L + 1].items[k + 1]
    BY <1>1, <1>5
  <2> HIDE DEF it
  <2>5. QED
    BY <1>1, <1>5, <2>2, <2>3, <2>4, CountItem
<1>6. C(n)
  <2> HIDE DEF C, n
  <2>1. 0 < n => C(0 + 1)
    BY <1>4, <1>5
  <2>2. 1 < n => C(1 + 1)
    <3>1. 1 < n => 0 < n /\ 1 \in Nat
      BY <1>2
    <3>2. QED
      BY <1>5, <2>1, <3>1
  <2>3. QED
    BY <1>2, <1>4, <2>1, <2>2
<1>7. C(n) => Counted(longer, L + 1, 0, InHistory)
  <2>1. Reached(longer, L, n) = Reached(longer, L + 1, 0)
    <3>1. \A l \in DOMAIN longer : Written(longer[l])
      BY <1>1, LinesAreWritten
    <3>2. n = Len(longer[L + 1].items)
      BY <1>1
    <3> HIDE DEF longer, n, L
    <3>3. QED
      BY <1>1, <3>1, <3>2, ReachedLine
  <2>2. Begun(longer, L, n) = Begun(longer, L + 1, 0)
    <3> HIDE DEF longer, n, L
    <3>1. QED
      BY <2>1 DEF Begun, Got
  <2> HIDE DEF longer, n, L
  <2>3. QED
    BY <2>1, <2>2 DEF Counted
<1>8. Counted(longer, Len(longer), 0, InHistory)
  BY <1>1, <1>6, <1>7
<1>9. ASSUME NEW j \in 0..Len(longer) PROVE \E m \in Nat : Begun(longer, j, 0) \cup InHistory = 1..m
  <2>1. CASE j \in 0..L
    BY <1>3, <2>1 DEF Numbered
  <2>2. CASE j = Len(longer)
    BY <1>8, <2>2 DEF Counted
  <2>3. QED
    BY <1>1, <2>1, <2>2
<1>10. QED
  BY <1>8, <1>9

-----------------------------------------------------------------------------
(* The steps.                                                               *)

\* A list of all that is heard up to a place tells the beginning of it all.
LEMMA TellsBeginning ==
  ASSUME NEW a, NEW lines, NEW j \in Nat, NEW k \in Nat, NEW m \in Nat,
         j < m \/ (j = m /\ k = 0),
         NEW f \in Seq(Refs), ToSet(f) = Heard(a, lines, j, k)
  PROVE  Tells(f, Heard(a, lines, m, 0))
<1>1. \A r \in Places(lines) : r[1] \in Nat /\ r[2] \in Nat /\ r[2] # 0
  BY DEF Places, Refs
<1>2. Reached(lines, j, k) \subseteq Reached(lines, m, 0)
  BY <1>1 DEF Reached
<1>3. \A r, q \in Places(lines) :
        q[1] <= j \/ (q[1] = j + 1 /\ q[2] <= k) => 
          (Before(r, q) => r[1] <= j \/ (r[1] = j + 1 /\ r[2] <= k))
  BY <1>1 DEF Before
<1>4. \A r \in Reached(lines, m, 0), q \in Reached(lines, j, k) :
        Before(r, q) => r \in Reached(lines, j, k)
  BY <1>3 DEF Reached
<1>5. ToSet(f) \subseteq Heard(a, lines, m, 0)
  BY <1>2 DEF Heard
<1>6. ASSUME NEW r \in Heard(a, lines, m, 0), NEW i \in DOMAIN f, Before(r, f[i])
      PROVE  r \in ToSet(f)
  <2>1. f[i] \in Heard(a, lines, j, k)
    BY DEF ToSet
  <2>2. QED
    BY <1>4, <1>6, <2>1 DEF Heard
<1>7. QED
  BY <1>5, <1>6 DEF Tells

\* Where the decoder is in what has been delivered.
LEMMA WhereTaken ==
  ASSUME Typed, NEW t \in 0..Len(sent), Taken(t)
  PROVE  /\ at = "select" => Arriving = t
         /\ at = "lines" => Arriving > t
         /\ Arriving \in 0..Len(sent) /\ t <= Arriving
<1>1. /\ Len(buffer) \in Nat /\ Len(sent) \in Nat /\ delivered \in 0..(2 * Len(sent))
  BY DEF Typed
<1>2. delivered = 2 * t + Len(buffer) /\ (at = "lines" <=> Len(buffer) >= 2)
  BY DEF Taken
<1>3. \A n, d, b, s \in Nat : d = 2 * s + b => /\ (b < 2 => d \div 2 = s)
                                             /\ (b >= 2 => d \div 2 > s)
  OBVIOUS
<1>4. \A n, d \in Nat : d \in 0..(2 * n) => d \div 2 \in 0..n
  OBVIOUS
<1>5. Arriving \in 0..Len(sent)
  BY <1>1, <1>4 DEF Arriving
<1>6. /\ Len(buffer) < 2 => Arriving = t
      /\ Len(buffer) >= 2 => Arriving > t
  BY <1>1, <1>2, <1>3 DEF Arriving
<1>7. QED
  BY <1>1, <1>2, <1>5, <1>6

\* Steps that leave the request alone.
LEMMA RequestKept ==
  ASSUME Talk, UNCHANGED request
  PROVE  /\ Talk' /\ InHistory' = InHistory /\ Lines' = Lines
         /\ Numbered /\ sent' = sent => Numbered'
<1>1. adapter' = adapter /\ grounded' = grounded /\ history' = history /\ body' = body
  BY DEF request
<1>2. Follows(history)'
  BY <1>1 DEF Talk, Follows
<1>3. Body(history)' = Body(history)
  BY <1>1 DEF Body
<1>4. Talk'
  BY <1>1, <1>2, <1>3 DEF Talk
<1>5. InHistory' = InHistory
  BY <1>1 DEF InHistory
<1>6. Lines' = Lines
  BY <1>1 DEF Lines
<1>7. Numbered /\ sent' = sent => Numbered'
  BY <1>5 DEF Numbered
<1>8. QED
  BY <1>4, <1>5, <1>6, <1>7

\* What a response may end with, as long as nothing more comes.
LEMMA TailsKept ==
  ASSUME UNCHANGED <<request, sent, delivered, full>>
  PROVE  Tails' = Tails /\ Told' = Told
<1>1. adapter' = adapter /\ grounded' = grounded /\ Arriving' = Arriving
  BY DEF request, Arriving
<1>2. Told' = Told
  BY <1>1 DEF Told
<1>3. Everything' = Everything
  BY <1>1 DEF Everything
<1>4. WholeLists' = WholeLists
  BY <1>1 DEF WholeLists, Whole
<1>5. QED
  BY <1>1, <1>2, <1>3, <1>4 DEF Tails

\* The provider writes a line: nothing that was received changes.
LEMMA WriteStep ==
  ASSUME IInv, NEW line \in Lines, Write(line)
  PROVE  IInv'
<1>1. /\ at # "ended" /\ spent + Len(sent) < MaxLines /\ MayFollow(line)
      /\ sent' = Append(sent, line)
      /\ UNCHANGED <<request, cancelled, spent, delivered, at, buffer, decoder, out>>
  BY DEF Write
<1>2. Typed /\ Numbered /\ Talk /\ Running
  BY <1>1 DEF IInv
<1>3. /\ adapter' = adapter /\ grounded' = grounded
      /\ full' = full /\ pending' = pending /\ found' = found
  BY <1>1 DEF request, decoder
<1>4. Talk' /\ InHistory' = InHistory /\ Lines' = Lines
  BY <1>1, <1>2, RequestKept
<1>5. /\ sent \in Seq(Lines) /\ sent' \in Seq(Lines) /\ Len(sent') = Len(sent) + 1
      /\ Len(sent) \in Nat /\ \A l \in 1..Len(sent) : sent'[l] = sent[l]
  BY <1>1, <1>2 DEF Typed
<1>6. Typed'
  <2>1. \A l \in DOMAIN sent' : sent'[l].done => l = Len(sent')
    <3>1. \A l \in 1..Len(sent) : ~sent[l].done
      <4>1. sent # <<>> => ~sent[Len(sent)].done
        BY <1>1 DEF MayFollow, Last
      <4>2. \A l \in 1..Len(sent) : sent[l].done => l = Len(sent) /\ sent # <<>>
        BY <1>2, <1>5 DEF Typed
      <4>3. QED
        BY <4>1, <4>2
    <3>2. \A l \in DOMAIN sent' : l \in 1..Len(sent) \/ l = Len(sent')
      BY <1>5
    <3>3. QED
      BY <1>5, <3>1, <3>2
  <2>2. spent' \in Nat /\ spent' + Len(sent') <= MaxLines
    <3>1. MaxLines \in Nat /\ spent \in Nat
      BY <1>2, StreamAssumption DEF Typed
    <3>2. QED
      BY <1>1, <1>5, <3>1
  <2>3. delivered' \in 0..(2 * Len(sent'))
    BY <1>1, <1>2, <1>5 DEF Typed
  <2>4. QED
    BY <1>1, <1>2, <1>3, <1>4, <1>5, <2>1, <2>2, <2>3 DEF Typed
<1>7. Numbered'
  BY <1>1, <1>2, <1>4, <1>5, CountLine DEF Numbered
<1>8. Running'
  <2>1. PICK t \in 0..Len(sent) : Taken(t)
    BY <1>2 DEF Running
  <2>2. /\ Heard(adapter, sent', t, 0) = Heard(adapter, sent, t, 0)
        /\ Got(sent', t, 0) = Got(sent, t, 0) /\ Begun(sent', t, 0) = Begun(sent, t, 0)
    BY <1>1, <1>5, AppendReached
  <2>3. \A c : PartsOf(c, sent', t, 0) = PartsOf(c, sent, t, 0)
    BY <2>2 DEF PartsOf
  <2>4. Faithful(full, pending, found, t, 0)'
    BY <1>3, <2>1, <2>2, <2>3 DEF Taken, Faithful
  <2>5. Taken(t)'
    BY <1>1, <2>1, <2>4 DEF Taken
  <2>6. t \in 0..Len(sent')
    BY <1>5
  <2>7. QED
    BY <1>1, <1>2, <1>3, <2>5, <2>6 DEF Running
<1>9. QED
  BY <1>1, <1>4, <1>6, <1>7, <1>8 DEF IInv

\* A response that ends with an admissible tail.
LEMMA EndsStep ==
  ASSUME IInv, at # "ended", NEW tail \in Tails, Ends(tail), Told,
         UNCHANGED <<request, cancelled, network, decoder>>,
         buffer' \in Seq({Half(k) : k \in 1..(2 * MaxLines)}), Len(buffer') <= Len(buffer)
  PROVE  IInv'
<1>1. Typed /\ Numbered /\ Talk /\ Running
  BY DEF IInv
<1>2. /\ adapter' = adapter /\ grounded' = grounded /\ sent' = sent /\ spent' = spent
      /\ delivered' = delivered /\ full' = full /\ pending' = pending /\ found' = found
  BY DEF request, network, decoder
<1>3. Talk' /\ Lines' = Lines /\ Numbered'
  BY <1>1, <1>2, RequestKept
<1>4. at' = "ended" /\ out' = Spoken(full') \o tail
  BY <1>1, <1>2 DEF Ends, Running
<1>5. Typed'
  <2>1. adapter \in Rounds => Len(buffer') <= MaxBuffer
    <3>1. MaxBuffer \in Nat /\ Len(buffer) \in Nat /\ Len(buffer') \in Nat
      BY <1>1, StreamAssumption DEF Typed
    <3>2. QED
      BY <1>1, <3>1 DEF Typed
  <2>2. QED
    BY <1>1, <1>2, <1>3, <1>4, <2>1 DEF Typed
<1>6. Tails' = Tails /\ Told' = Told
  BY <1>2, TailsKept
<1>7. Closed'
  BY <1>4, <1>6 DEF Closed
<1>8. QED
  BY <1>3, <1>4, <1>5, <1>7 DEF IInv

\* A round at its beginning: nothing has come, and the calls of the rounds before
\* it are numbered.
Beginning ==
  /\ adapter \in Adapters /\ grounded \in BOOLEAN /\ cancelled \in BOOLEAN
  /\ sent = <<>> /\ spent \in 0..MaxLines /\ delivered = 0 /\ at = "select" /\ buffer = <<>>
  /\ full = <<>> /\ pending = [c \in Calls |-> <<>>] /\ found = <<>> /\ out = <<Started>>
  /\ \E n \in Nat : InHistory = 1..n
  /\ Talk

\* A round begins with the invariant.
LEMMA BeginningOK ==
  Beginning => IInv
<1> SUFFICES ASSUME Beginning PROVE IInv
  OBVIOUS
<1>1. /\ adapter \in Adapters /\ grounded \in BOOLEAN /\ cancelled \in BOOLEAN
      /\ sent = <<>> /\ spent \in 0..MaxLines /\ delivered = 0 /\ at = "select"
      /\ buffer = <<>> /\ full = <<>> /\ pending = [c \in Calls |-> <<>>] /\ found = <<>>
      /\ out = <<Started>> /\ Talk
  BY DEF Beginning
<1>2. Len(sent) = 0 /\ sent \in Seq(Lines) /\ Ordered(full)
  BY <1>1 DEF Ordered
<1>3. Typed
  <2>1. MaxLines \in Nat /\ MaxBuffer \in Nat
    BY StreamAssumption
  <2>2. spent \in Nat /\ spent + Len(sent) <= MaxLines /\ delivered \in 0..(2 * Len(sent))
    BY <1>1, <1>2, <2>1
  <2>3. \A l \in DOMAIN sent : sent[l].done => l = Len(sent)
    BY <1>1
  <2>4. /\ buffer \in Seq({Half(k) : k \in 1..(2 * MaxLines)}) /\ Len(buffer) <= MaxBuffer
        /\ found \in Seq(Calls)
    BY <1>1, <2>1
  <2>5. pending \in [Calls -> Seq(Parted)]
    BY <1>1
  <2>6. QED
    BY <1>1, <1>2, <2>2, <2>3, <2>4, <2>5 DEF Typed
<1>4. /\ Heard(adapter, sent, 0, 0) = {} /\ Got(sent, 0, 0) = {} /\ Begun(sent, 0, 0) = {}
      /\ Reached(sent, 0, 0) = {}
  BY <1>2, NoneReached, ReachedNone
<1>5. Numbered
  <2>1. PICK n \in Nat : InHistory = 1..n
    BY DEF Beginning
  <2>2. \A j \in 0..0 : j = 0
    OBVIOUS
  <2>3. Counted(sent, 0, 0, InHistory)
    BY <1>4, <2>1 DEF Counted
  <2>4. QED
    BY <1>2, <1>4, <2>1, <2>2, <2>3 DEF Numbered
<1>6. Running
  <2>1. 0 <= MaxStream
    BY StreamAssumption
  <2>2. <<>> = [i \in 1..0 |-> Half(2 * 0 + i)] /\ Len(<<>>) = 0
    OBVIOUS
  <2>3. ToSet(<<>>) = {}
    BY DEF ToSet
  <2>4. Faithful(full, pending, found, 0, 0)
    <3>1. \A c \in Calls : PartsOf(c, sent, 0, 0) = {} /\ ToSet(pending[c]) = {}
      BY <1>1, <1>4, <2>3 DEF PartsOf
    <3>2. IsInjective(<<>>)
      BY DEF IsInjective
    <3>3. QED
      BY <1>1, <1>4, <2>3, <3>1, <3>2, Zenon DEF Faithful
  <2>5. Taken(0)
    BY <1>1, <2>2, <2>4 DEF Taken
  <2>6. <<Started>> = Spoken(<<>>)
    BY DEF Spoken
  <2>7. QED
    BY <1>1, <1>2, <2>1, <2>5, <2>6 DEF Running
<1>7. QED
  BY <1>1, <1>3, <1>5, <1>6 DEF IInv

\* So does the first one.
LEMMA InitOK ==
  Init => IInv
<1> SUFFICES ASSUME Init PROVE Beginning
  BY BeginningOK
<1>1. history = <<User>> /\ body = Body(history)
  BY DEF Init
<1>2. InHistory = {}
  <2>1. ToSet(history) = {User}
    BY <1>1 DEF ToSet
  <2>2. User.role # "calls"
    BY DEF User
  <2>3. QED
    BY <2>1, <2>2 DEF InHistory
<1>3. {} = 1..0 /\ 0 \in Nat
  OBVIOUS
<1>4. Talk
  <2>1. /\ history \in Seq(ToSet(history)) /\ DOMAIN history = {1}
        /\ history[1].role = "user"
    BY <1>1 DEF ToSet, User
  <2>2. QED
    BY <1>1, <2>1 DEF Talk, Follows
<1>5. MaxLines \in Nat
  BY StreamAssumption
<1>6. \E n \in Nat : InHistory = 1..n
  BY <1>2, <1>3
<1>7. cancelled \in BOOLEAN /\ spent \in 0..MaxLines
  <2>1. cancelled = FALSE /\ spent = 0
    BY DEF Init
  <2>2. 0 \in 0..MaxLines
    BY <1>5
  <2>3. QED
    BY <2>1, <2>2, Zenon
<1>8. QED
  BY <1>4, <1>6, <1>7, Zenon DEF Init, Beginning

\* A chunk is added, or is one too many.
LEMMA ChunkStep ==
  ASSUME IInv, NEW n \in 1..(2 * MaxLines), Chunk(n)
  PROVE  IInv'
<1> DEFINE bytes == [i \in 1..n |-> Half(delivered + i)]
<1>1. /\ at = "select" /\ delivered + n <= 2 * Len(sent) /\ delivered' = delivered + n
      /\ IF Oversized(n)
           THEN Ends(<<Failed("STREAM_LIMIT")>>) /\ UNCHANGED buffer
           ELSE /\ buffer' = buffer \o bytes
                /\ at' = IF HasLine(buffer') THEN "lines" ELSE "select"
                /\ UNCHANGED out
      /\ UNCHANGED <<request, cancelled, sent, spent, decoder>>
  BY DEF Chunk
<1>2. Typed /\ Numbered /\ Talk /\ Running
  BY <1>1 DEF IInv
<1>3. /\ adapter' = adapter /\ grounded' = grounded /\ cancelled' = cancelled
      /\ sent' = sent /\ spent' = spent
      /\ full' = full /\ pending' = pending /\ found' = found
  BY <1>1 DEF request, decoder
<1>4. Talk' /\ Lines' = Lines /\ Numbered'
  BY <1>1, <1>2, RequestKept
<1>5. PICK t \in 0..Len(sent) : Taken(t)
  BY <1>2 DEF Running
<1>6. /\ Len(sent) \in Nat /\ Len(buffer) \in Nat /\ delivered \in Nat /\ n \in Nat /\ t \in Nat
      /\ delivered = 2 * t + Len(buffer) /\ MaxLines \in Nat /\ Len(sent) <= MaxLines
      /\ MaxStream \in Nat /\ MaxBuffer \in Nat
  <2>1. MaxLines \in Nat /\ MaxStream \in Nat /\ MaxBuffer \in Nat
    BY StreamAssumption
  <2>2. QED
    BY <1>2, <1>5, <2>1 DEF Typed, Taken
<1>7. delivered' \in 0..(2 * Len(sent'))
  BY <1>1, <1>3, <1>6
<1>8. CASE Oversized(n)
  <2>1. at' = "ended" /\ out' = Spoken(full') \o <<Failed("STREAM_LIMIT")>> /\ buffer' = buffer
    BY <1>1, <1>2, <1>3, <1>8 DEF Ends, Running
  <2>2. Typed'
    BY <1>2, <1>3, <1>4, <1>7, <2>1 DEF Typed
  <2>3. Arriving' \in Nat /\ (t < Arriving' \/ t = Arriving')
    <3>1. delivered' >= 2 * t /\ delivered' \in Nat
      BY <1>1, <1>6
    <3>2. \A d, s \in Nat : d >= 2 * s => d \div 2 \in Nat /\ (s < d \div 2 \/ s = d \div 2)
      OBVIOUS
    <3>3. QED
      BY <1>6, <3>1, <3>2 DEF Arriving
  <2>4. full \in Seq(Refs) /\ ToSet(full) = Heard(adapter, sent, t, 0)
    BY <1>2, <1>5 DEF Typed, Ordered, Taken, Faithful
  <2>5. Tells(full, Heard(adapter, sent, Arriving', 0))
    BY <1>6, <2>3, <2>4, TellsBeginning
  <2>6. Told'
    BY <1>3, <2>5 DEF Told
  <2>7. <<Failed("STREAM_LIMIT")>> \in Tails'
    BY DEF Tails, Codes
  <2>8. Closed'
    BY <2>1, <2>6, <2>7 DEF Closed
  <2>9. QED
    BY <1>4, <2>1, <2>2, <2>8 DEF IInv
<1>9. CASE ~Oversized(n)
  <2> DEFINE b == Len(buffer)
             H == {Half(k) : k \in 1..(2 * MaxLines)}
  <2>1. /\ buffer' = buffer \o bytes /\ out' = out
        /\ at' = IF HasLine(buffer') THEN "lines" ELSE "select"
    BY <1>1, <1>9
  <2>2. buffer = [i \in 1..b |-> Half(2 * t + i)] /\ buffer \in Seq(H)
    BY <1>2, <1>5 DEF Taken, Typed
  <2>3. \A i \in 1..n : delivered + i = 2 * t + (b + i) /\ delivered + i \in 1..(2 * MaxLines)
    BY <1>1, <1>6
  <2>4. bytes \in Seq(H) /\ Len(bytes) = n /\ \A i \in 1..n : bytes[i] = Half(2 * t + (b + i))
    <3>1. \A i \in 1..n : Half(delivered + i) \in H
      BY <2>3
    <3> HIDE DEF H
    <3>2. bytes \in [1..n -> H]
      BY <3>1
    <3>3. \A i \in 1..n : bytes[i] = Half(2 * t + (b + i))
      BY <2>3
    <3> HIDE DEF bytes
    <3>4. n \in Nat
      BY <1>6
    <3>5. bytes \in Seq(H) /\ Len(bytes) = n
      BY <3>2, <3>4
    <3>6. QED
      BY <3>3, <3>5
  <2> HIDE DEF bytes, H
  <2>5. /\ buffer' \in Seq(H) /\ Len(buffer') = b + n
        /\ \A i \in 1..b : buffer'[i] = buffer[i]
        /\ \A i \in 1..n : buffer'[b + i] = bytes[i]
    BY <2>1, <2>2, <2>4
  <2>6. \A i \in 1..(b + n) : buffer'[i] = Half(2 * t + i)
    <3>1. ASSUME NEW i \in 1..(b + n) PROVE buffer'[i] = Half(2 * t + i)
      <4>1. CASE i \in 1..b
        BY <2>2, <2>5, <4>1
      <4>2. CASE i \notin 1..b
        <5>1. i - b \in 1..n /\ i = b + (i - b)
          BY <1>6, <4>2
        <5>2. QED
          BY <2>4, <2>5, <5>1
      <4>3. QED
        BY <4>1, <4>2
    <3>2. QED
      BY <3>1
  <2>7. buffer' = [i \in 1..(b + n) |-> Half(2 * t + i)]
    <3> HIDE DEF b
    <3>1. buffer' = [i \in 1..(b + n) |-> buffer'[i]]
      BY <2>5
    <3>2. QED
      BY <2>6, <3>1
  <2>8. HasLine(buffer') <=> b + n >= 2
    <3>1. b + n \in Nat
      BY <1>6
    <3> HIDE DEF b
    <3>2. QED
      BY <1>6, <2>7, <3>1, HasLineOK
  <2>9. Typed'
    <3>1. adapter' \in Rounds => Len(buffer') <= MaxBuffer
      BY <1>3, <1>6, <1>9, <2>5 DEF Oversized
    <3>2. buffer' \in Seq({Half(k) : k \in 1..(2 * MaxLines)})
      BY <2>5 DEF H
    <3>3. at' \in {"select", "lines", "ended"}
      BY <2>1
    <3>4. QED
      BY <1>2, <1>3, <1>4, <1>7, <3>1, <3>2, <3>3 DEF Typed
  <2>10. Taken(t)'
    <3>1. Faithful(full, pending, found, t, 0)'
      BY <1>3, <1>5 DEF Taken, Faithful, PartsOf
    <3>2. delivered' = 2 * t + Len(buffer')
      BY <1>1, <1>6, <2>5
    <3>3. at' = "lines" <=> Len(buffer') >= 2
      BY <2>1, <2>5, <2>8
    <3>4. QED
      BY <2>5, <2>7, <3>1, <3>2, <3>3 DEF Taken
  <2>11. Running'
    <3>1. delivered' <= MaxStream
      BY <1>1, <1>6, <1>9 DEF Oversized
    <3>2. QED
      BY <1>2, <1>3, <2>1, <2>10, <3>1 DEF Running
  <2>12. QED
    BY <1>4, <2>1, <2>9, <2>11 DEF IInv
<1>10. QED
  BY <1>8, <1>9

\* A line is said, collected or refused.
LEMMA TakeLineStep ==
  ASSUME IInv, TakeLine
  PROVE  IInv'
<1> DEFINE acc == Decode(Current, Number)
<1>1. /\ at = "lines" /\ ~Current.done /\ buffer' = Rest
      /\ full' = acc.full /\ pending' = acc.pending /\ found' = acc.found
      /\ out' = out \o acc.events \o (IF acc.error = None THEN <<>> ELSE <<Failed(acc.error)>>)
      /\ at' = IF acc.error # None THEN "ended" ELSE IF HasLine(Rest) THEN "lines" ELSE "select"
      /\ UNCHANGED <<request, cancelled, network>>
  BY DEF TakeLine
<1>2. Typed /\ Numbered /\ Talk /\ Running
  BY <1>1 DEF IInv
<1>3. /\ adapter' = adapter /\ grounded' = grounded /\ cancelled' = cancelled
      /\ sent' = sent /\ spent' = spent /\ delivered' = delivered
  BY <1>1 DEF request, network
<1>4. Talk' /\ Lines' = Lines /\ Numbered'
  BY <1>1, <1>2, <1>3, RequestKept
<1>5. PICK t \in 0..Len(sent) : Taken(t)
  BY <1>2 DEF Running
<1>6. /\ t < Len(sent) /\ Number = t + 1 /\ Current = sent[t + 1]
      /\ Len(buffer) >= 2 /\ Len(Rest) = Len(buffer) - 2
      /\ Rest = [i \in 1..(Len(buffer) - 2) |-> Half(2 * (t + 1) + i)]
      /\ Rest \in Seq({Half(k) : k \in 1..(2 * MaxLines)})
      /\ HasLine(Rest) <=> Len(Rest) >= 2
  BY <1>1, <1>2, <1>5, FirstLine
<1>7. t \in Nat /\ t + 1 \in 0..Len(sent) /\ Len(buffer) \in Nat /\ MaxBuffer \in Nat
  BY <1>2, <1>5, <1>6, StreamAssumption DEF Typed
<1> DEFINE k == Len(sent[t + 1].items)
<1>8. sent \in Seq(Lines) /\ k \in Nat
  <2>1. sent \in Seq(Lines) /\ sent[t + 1] \in Lines
    BY <1>2, <1>6, <1>7 DEF Typed
  <2>2. Written(sent[t + 1])
    BY <2>1, LinesAreWritten
  <2>3. QED
    BY <2>1, <2>2 DEF Written
<1>9. Decoding(acc, t, k)
  BY <1>2, <1>5, <1>6, <1>7, DecodeOK DEF Typed, Running, Taken
<1> HIDE DEF acc, k
<1>10. /\ acc \in Decoders /\ Ordered(acc.full) /\ out \o acc.events = Spoken(acc.full)
       /\ acc.error = None => Faithful(acc.full, acc.pending, acc.found, t, k)
       /\ acc.error # None => \E i \in 0..k : ToSet(acc.full) = Heard(adapter, sent, t, i)
  BY <1>9 DEF Decoding
<1>11. Typed'
  <2>1. acc.pending \in [Calls -> Seq(Parted)] /\ acc.found \in Seq(Calls)
    BY <1>10 DEF Decoders
  <2>2. adapter \in Rounds => Len(buffer') <= MaxBuffer
    BY <1>1, <1>2, <1>6, <1>7 DEF Typed
  <2>3. at' \in {"select", "lines", "ended"}
    BY <1>1
  <2>4. QED
    BY <1>1, <1>2, <1>3, <1>4, <1>6, <1>10, <2>1, <2>2, <2>3 DEF Typed
<1>12. CASE acc.error = None
  <2>1. out' = Spoken(full')
    <3>1. acc.full \in Seq(Refs)
      BY <1>10 DEF Ordered
    <3>2. Spoken(acc.full) \o <<>> = Spoken(acc.full)
      BY <3>1, SpokenOK
    <3>3. QED
      BY <1>1, <1>10, <1>12, <3>2
  <2>2. Faithful(full', pending', found', t + 1, 0)
    <3>1. \A l \in DOMAIN sent : Written(sent[l])
      BY <1>8, LinesAreWritten
    <3>2. /\ Heard(adapter, sent, t, k) = Heard(adapter, sent, t + 1, 0)
          /\ Got(sent, t, k) = Got(sent, t + 1, 0) /\ Begun(sent, t, k) = Begun(sent, t + 1, 0)
      BY <1>6, <1>7, <1>8, <3>1, LineReached DEF k
    <3>3. QED
      BY <1>1, <1>10, <1>12, <3>2 DEF Faithful, PartsOf
  <2>3. Faithful(full, pending, found, t + 1, 0)'
    BY <1>3, <2>2 DEF Faithful, PartsOf
  <2>4. delivered' = 2 * (t + 1) + Len(buffer')
    BY <1>1, <1>3, <1>5, <1>6, <1>7 DEF Taken
  <2>5. at' = "lines" <=> Len(buffer') >= 2
    BY <1>1, <1>6, <1>12
  <2>6. Taken(t + 1)'
    BY <1>1, <1>6, <2>3, <2>4, <2>5 DEF Taken
  <2>7. Running'
    BY <1>2, <1>3, <1>7, <2>1, <2>6 DEF Running
  <2>8. at' # "ended"
    BY <1>1, <1>12
  <2>9. QED
    BY <1>4, <1>11, <2>7, <2>8 DEF IInv
<1>13. CASE acc.error # None
  <2>1. at' = "ended" /\ out' = Spoken(full') \o <<Failed(acc.error)>>
    BY <1>1, <1>10, <1>13
  <2>2. <<Failed(acc.error)>> \in Tails'
    BY <1>10, <1>13 DEF Tails, Decoders
  <2>3. PICK i \in 0..k : ToSet(acc.full) = Heard(adapter, sent, t, i)
    BY <1>10, <1>13
  <2>4. Arriving \in Nat /\ t < Arriving
    BY <1>1, <1>2, <1>5, WhereTaken
  <2>5. Tells(acc.full, Heard(adapter, sent, Arriving, 0))
    BY <1>7, <1>8, <1>10, <2>3, <2>4, TellsBeginning DEF Ordered
  <2>6. Told'
    BY <1>1, <1>3, <2>5 DEF Told, Arriving
  <2>7. Closed'
    BY <2>1, <2>2, <2>6 DEF Closed
  <2>8. QED
    BY <1>4, <1>11, <2>1, <2>7 DEF IInv
<1>14. QED
  BY <1>12, <1>13

\* The numbers of an interval, in their order.
LEMMA AscendingInterval ==
  ASSUME NEW a \in Nat, NEW b \in Nat, a <= b
  PROVE  Ascending((a + 1)..b) = [i \in 1..(b - a) |-> a + i]
<1> DEFINE K == (a + 1)..b
           upTo(x) == {m \in K : m <= x}
<1>1. Cardinality(K) = b - a
  <2>1. a + 1 \in Int /\ b \in Int
    OBVIOUS
  <2>2. Cardinality((a + 1)..b) = IF a + 1 > b THEN 0 ELSE b - (a + 1) + 1
    BY <2>1, FS_Interval
  <2>3. QED
    BY <2>2
<1>2. \A x \in K : Cardinality(upTo(x)) = x - a
  <2>1. ASSUME NEW x \in K PROVE Cardinality(upTo(x)) = x - a
    <3>1. upTo(x) = (a + 1)..x
      OBVIOUS
    <3> HIDE DEF upTo
    <3>2. QED
      BY <2>1, <3>1, FS_Interval
  <2>2. QED
    BY <2>1
<1>3. \A i \in 1..(b - a) : (CHOOSE x \in K : Cardinality(upTo(x)) = i) = a + i
  <2> HIDE DEF upTo
  <2>1. ASSUME NEW i \in 1..(b - a) PROVE (CHOOSE x \in K : Cardinality(upTo(x)) = i) = a + i
    <3>1. a + i \in K /\ \A x \in K : Cardinality(upTo(x)) = i <=> x = a + i
      BY <1>2
    <3>2. QED
      BY <3>1
  <2>2. QED
    BY <2>1
<1>4. QED
  BY <1>1, <1>3 DEF Ascending

\* At the end of a response the calls of which something is pending are those
\* that were begun in it.
LEMMA HeldOK ==
  ASSUME Typed, Numbered, adapter = "openaiRound", Faithful(full, pending, found, Len(sent), 0)
  PROVE  /\ Held \in CallLists /\ IsInjective(Held)
         /\ ToSet(Held) = Begun(sent, Len(sent), 0)
         /\ Held = <<>> <=> \A c \in Calls : pending[c] = <<>>
<1> DEFINE n == Len(sent)
           B == Begun(sent, n, 0)
           K == {c \in Calls : pending[c] # <<>>}
<1>1. sent \in Seq(Lines) /\ n \in Nat /\ pending \in [Calls -> Seq(Parted)]
  BY DEF Typed
<1>2. \A c \in Calls : ToSet(pending[c]) = PartsOf(c, sent, n, 0)
  BY DEF Faithful
<1>3. \A c \in Calls : pending[c] # <<>> <=> PartsOf(c, sent, n, 0) # {}
  <2>1. \A s \in Seq(Parted) : s # <<>> <=> ToSet(s) # {}
    <3>1. ASSUME NEW s \in Seq(Parted), s # <<>> PROVE s[1] \in ToSet(s)
      BY <3>1 DEF ToSet
    <3>2. ToSet(<<>>) = {}
      BY DEF ToSet
    <3>3. QED
      BY <3>1, <3>2
  <2>2. QED
    BY <1>1, <1>2, <2>1
<1>4. \A r \in Reached(sent, n, 0) : At(sent, r).kind = "piece" => At(sent, r).call \in B
  BY DEF Numbered, Counted
<1>5. ASSUME NEW c \in Calls, PartsOf(c, sent, n, 0) # {} PROVE c \in B
  <2>1. PICK p \in Parted : Piece(c, p) \in Got(sent, n, 0)
    BY <1>5 DEF PartsOf
  <2>2. PICK r \in Reached(sent, n, 0) : Piece(c, p) = At(sent, r)
    BY <2>1 DEF Got
  <2>3. Piece(c, p).kind = "piece" /\ Piece(c, p).call = c
    BY DEF Piece
  <2>4. QED
    BY <1>4, <2>2, <2>3
<1>6. ASSUME NEW c \in B PROVE c \in Calls /\ PartsOf(c, sent, n, 0) # {}
  <2>1. PICK it \in Got(sent, n, 0) : First(it) /\ it.call = c
    BY DEF Begun
  <2>2. PICK r \in Reached(sent, n, 0) : it = At(sent, r)
    BY <2>1 DEF Got
  <2>3. r[1] \in 1..n /\ r[2] \in 1..Len(sent[r[1]].items)
    BY <2>2 DEF Reached, Places
  <2>4. sent[r[1]] \in Lines
    BY <1>1, <2>3
  <2>5. sent[r[1]].items \in Seq(Words)
    BY <2>4, LinesAreWritten DEF Written
  <2>6. r[2] \in DOMAIN sent[r[1]].items /\ it = sent[r[1]].items[r[2]] /\ it \in Words
    BY <2>2, <2>3, <2>5 DEF At
  <2>7. it.kind # "call"
    BY <2>4, <2>6, LinesFit DEF OpenAi
  <2>8. PICK d \in Calls, p \in Parted : it = Piece(d, p)
    BY <2>1, <2>6, <2>7, WordsOK DEF First, Text, Thought, Call
  <2>9. d = c
    BY <2>1, <2>8 DEF Piece
  <2>10. QED
    BY <2>1, <2>8, <2>9 DEF PartsOf
<1>7. K = B
  BY <1>3, <1>5, <1>6
<1>8. PICK a \in Nat : InHistory = 1..a
  <2>1. 0 \in 0..n
    BY <1>1
  <2>2. Begun(sent, 0, 0) = {}
    BY <1>1, NoneReached
  <2>3. QED
    BY <2>1, <2>2 DEF Numbered
<1>9. PICK b \in Nat : B \cup InHistory = 1..b
  BY DEF Numbered, Counted
<1>10. B \cap InHistory = {}
  BY DEF Numbered, Counted
<1> HIDE DEF B, K, n
<1>11. a <= b /\ B = (a + 1)..b
  <2>1. a <= b
    <3>1. a = 0 \/ a \in 1..a
      OBVIOUS
    <3>2. QED
      BY <1>8, <1>9, <3>1
  <2>2. \A x \in (a + 1)..b : x \in 1..b /\ x \notin 1..a
    OBVIOUS
  <2>3. \A x \in 1..b : x \notin 1..a => x \in (a + 1)..b
    OBVIOUS
  <2>4. QED
    BY <1>8, <1>9, <1>10, <2>1, <2>2, <2>3
<1>12. Held = [i \in 1..(b - a) |-> a + i]
  BY <1>7, <1>11, AscendingInterval DEF Held, K
<1>13. b - a \in Nat /\ Len(Held) = b - a /\ DOMAIN Held = 1..(b - a)
  BY <1>11, <1>12
<1>14. ToSet(Held) = B
  <2>1. \A x \in B : x - a \in 1..(b - a) /\ a + (x - a) = x
    BY <1>11
  <2>2. \A i \in 1..(b - a) : Held[i] = a + i /\ a + i \in B
    BY <1>11, <1>12
  <2>3. QED
    BY <1>13, <2>1, <2>2 DEF ToSet
<1>15. Held \in Seq(Calls)
  <2>1. \A i \in 1..(b - a) : a + i \in Calls
    BY <1>6, <1>11
  <2>2. QED
    BY <1>12, <1>13, <2>1
<1>16. IsInjective(Held)
  BY <1>12, <1>13 DEF IsInjective
<1>17. Held = <<>> <=> K = {}
  <2>1. Held = <<>> <=> b - a = 0
    BY <1>12, <1>13, <1>15
  <2>2. QED
    BY <1>7, <1>11, <1>13, <2>1
<1>18. QED
  BY <1>14, <1>15, <1>16, <1>17 DEF CallLists, K, B, n

\* While nothing is left to decode, all that has come has been told.
LEMMA SelectOK ==
  ASSUME Typed, Running, at = "select"
  PROVE  Faithful(full, pending, found, Arriving, 0) /\ Told /\ Everything
<1>1. PICK t \in 0..Len(sent) : Taken(t)
  BY DEF Running
<1>2. Arriving = t /\ t \in Nat
  BY <1>1, WhereTaken
<1>3. Faithful(full, pending, found, t, 0) /\ full \in Seq(Refs)
  BY <1>1 DEF Taken, Typed, Ordered
<1>4. ToSet(full) = Heard(adapter, sent, t, 0)
  BY <1>3 DEF Faithful
<1>5. Tells(full, Heard(adapter, sent, t, 0))
  BY <1>2, <1>3, <1>4, TellsBeginning
<1>6. QED
  BY <1>2, <1>3, <1>4, <1>5 DEF Told, Everything

\* A response that ends while nothing is left to decode.
LEMMA SelectEnds ==
  ASSUME IInv, at = "select", NEW tail \in Tails, EndsNow(tail)
  PROVE  IInv'
<1>1. Typed /\ Running
  BY DEF IInv
<1>2. Told
  BY <1>1, SelectOK
<1>3. Ends(tail) /\ UNCHANGED <<request, cancelled, network, decoder>> /\ buffer' = buffer
  BY DEF EndsNow
<1>4. buffer' \in Seq({Half(k) : k \in 1..(2 * MaxLines)}) /\ Len(buffer') <= Len(buffer)
  <2>1. buffer \in Seq({Half(k) : k \in 1..(2 * MaxLines)}) /\ Len(buffer) \in Nat
    BY <1>1 DEF Typed
  <2>2. QED
    BY <1>3, <2>1
<1>5. QED
  BY <1>2, <1>3, <1>4, EndsStep

\* The body has ended: all that had come has been decoded.
LEMMA EndOfBodyStep ==
  ASSUME IInv, EndOfBody
  PROVE  IInv'
<1>1. at = "select"
  BY DEF EndOfBody
<1>2. Typed /\ Numbered /\ Running
  BY <1>1 DEF IInv
<1>3. Faithful(full, pending, found, Arriving, 0) /\ Everything
  BY <1>1, <1>2, SelectOK
<1>4. CASE adapter = "openaiRound" /\ \E c \in Calls : pending[c] # <<>>
  <2>1. <<Failed("AGENT_TOOL_STREAM_INCOMPLETE")>> \in Tails
    BY DEF Tails, Codes
  <2>2. EndsNow(<<Failed("AGENT_TOOL_STREAM_INCOMPLETE")>>)
    BY <1>4 DEF EndOfBody
  <2>3. QED
    BY <1>1, <2>1, <2>2, SelectEnds
<1>5. CASE adapter = "geminiRound" /\ found # <<>>
  <2>1. found \in WholeLists
    BY <1>2, <1>3, <1>5 DEF WholeLists, Whole, CallLists, Faithful, Typed
  <2>2. <<Event("parts", found), Event("calls", found)>> \in Tails
    BY <1>5, <2>1 DEF Tails
  <2>3. EndsNow(<<Event("parts", found), Event("calls", found)>>)
    BY <1>5 DEF EndOfBody
  <2>4. QED
    BY <1>1, <2>2, <2>3, SelectEnds
<1>6. CASE adapter = "geminiChat" /\ cancelled
  <2>1. <<>> \in Tails
    BY <1>6 DEF Tails, Rounds
  <2>2. EndsNow(<<>>)
    BY <1>6 DEF EndOfBody
  <2>3. QED
    BY <1>1, <2>1, <2>2, SelectEnds
<1>7. CASE ~(adapter = "openaiRound" /\ \E c \in Calls : pending[c] # <<>>)
           /\ ~(adapter = "geminiRound" /\ found # <<>>) /\ ~(adapter = "geminiChat" /\ cancelled)
  <2>1. <<Completed(full)>> \in Tails
    BY <1>3 DEF Tails
  <2>2. EndsNow(<<Completed(full)>>)
    BY <1>7, Zenon DEF EndOfBody
  <2>3. QED
    BY <1>1, <2>1, <2>2, SelectEnds
<1>8. QED
  BY <1>4, <1>5, <1>6, <1>7

\* The connection breaks.
LEMMA ReadErrorStep ==
  ASSUME IInv, ReadError
  PROVE  IInv'
<1>1. at = "select"
  BY DEF ReadError
<1>2. Everything
  BY <1>1, SelectOK DEF IInv
<1>3. <<Failed("STREAM_READ_ERROR")>> \in Tails
  BY DEF Tails, Codes
<1>4. CASE adapter = "geminiChat" /\ ~cancelled
  <2>1. <<Failed("STREAM_READ_ERROR")>> \o <<Completed(full)>> =
          <<Failed("STREAM_READ_ERROR"), Completed(full)>>
    BY PairConcat
  <2>2. <<Failed("STREAM_READ_ERROR"), Completed(full)>> \in Tails
    BY <1>2, <1>4 DEF Tails, Rounds
  <2>3. EndsNow(<<Failed("STREAM_READ_ERROR"), Completed(full)>>)
    BY <1>4, <2>1 DEF ReadError
  <2>4. QED
    BY <1>1, <2>2, <2>3, SelectEnds
<1>5. CASE ~(adapter = "geminiChat" /\ ~cancelled)
  <2>1. <<Failed("STREAM_READ_ERROR")>> \o <<>> = <<Failed("STREAM_READ_ERROR")>>
    OBVIOUS
  <2>2. EndsNow(<<Failed("STREAM_READ_ERROR")>>)
    BY <1>5, <2>1 DEF ReadError
  <2>3. QED
    BY <1>1, <1>3, <2>2, SelectEnds
<1>6. QED
  BY <1>4, <1>5

\* The token is seen by the select!.
LEMMA CancelSeenStep ==
  ASSUME IInv, CancelSeen
  PROVE  IInv'
<1>1. at = "select"
  BY DEF CancelSeen
<1>2. CASE adapter \in Rounds
  <2>1. <<Failed("CANCELLED")>> \in Tails
    BY DEF Tails, Codes
  <2>2. EndsNow(<<Failed("CANCELLED")>>)
    BY <1>2 DEF CancelSeen
  <2>3. QED
    BY <1>1, <2>1, <2>2, SelectEnds
<1>3. CASE adapter \notin Rounds
  <2>1. <<Event("cancelled", None)>> \in Tails
    BY <1>3 DEF Tails
  <2>2. EndsNow(<<Event("cancelled", None)>>)
    BY <1>3 DEF CancelSeen
  <2>3. QED
    BY <1>1, <2>1, <2>2, SelectEnds
<1>4. QED
  BY <1>2, <1>3

\* [DONE] ends a response of OpenAI with all its calls, and is passed over by
\* Gemini.
LEMMA TakeDoneStep ==
  ASSUME IInv, TakeDone
  PROVE  IInv'
<1>1. /\ at = "lines" /\ Current.done /\ buffer' = Rest
      /\ IF adapter \in OpenAi THEN Ends(<<FinishOpenAi>>) ELSE at' = "select" /\ UNCHANGED out
      /\ UNCHANGED <<request, cancelled, network, decoder>>
  BY DEF TakeDone
<1>2. Typed /\ Numbered /\ Talk /\ Running
  BY <1>1 DEF IInv
<1>3. PICK t \in 0..Len(sent) : Taken(t)
  BY <1>2 DEF Running
<1>4. /\ t < Len(sent) /\ Number = t + 1 /\ Current = sent[t + 1]
      /\ Len(buffer) >= 2 /\ Len(Rest) = Len(buffer) - 2
      /\ Rest = [i \in 1..(Len(buffer) - 2) |-> Half(2 * (t + 1) + i)]
      /\ Rest \in Seq({Half(k) : k \in 1..(2 * MaxLines)})
      /\ HasLine(Rest) <=> Len(Rest) >= 2
  BY <1>1, <1>2, <1>3, FirstLine
<1>5. /\ t \in Nat /\ sent \in Seq(Lines) /\ Len(sent) \in Nat /\ Len(buffer) \in Nat
      /\ MaxBuffer \in Nat /\ delivered \in 0..(2 * Len(sent))
  BY <1>2, StreamAssumption DEF Typed
<1>6. Arriving \in 0..Len(sent) /\ t < Arriving
  BY <1>1, <1>2, <1>3, WhereTaken
<1>7. t + 1 = Len(sent) /\ Arriving = t + 1
  <2>1. t + 1 \in DOMAIN sent /\ sent[t + 1].done
    BY <1>1, <1>4, <1>5
  <2>2. t + 1 = Len(sent)
    BY <1>2, <2>1 DEF Typed
  <2>3. QED
    BY <1>5, <1>6, <2>2
<1>8. Len(sent[t + 1].items) = 0
  <2>1. sent[t + 1] \in Lines
    BY <1>4, <1>5
  <2>2. sent[t + 1].items = <<>>
    BY <1>1, <1>4, <2>1, LinesAreWritten DEF Written
  <2>3. QED
    BY <2>2
<1>9. Faithful(full, pending, found, t + 1, 0)
  <2>1. \A l \in DOMAIN sent : Written(sent[l])
    BY <1>5, LinesAreWritten
  <2>2. /\ Heard(adapter, sent, t, 0) = Heard(adapter, sent, t + 1, 0)
        /\ Got(sent, t, 0) = Got(sent, t + 1, 0) /\ Begun(sent, t, 0) = Begun(sent, t + 1, 0)
    <3>1. \A k : k = Len(sent[t + 1].items) =>
            /\ Heard(adapter, sent, t, k) = Heard(adapter, sent, t + 1, 0)
            /\ Got(sent, t, k) = Got(sent, t + 1, 0) /\ Begun(sent, t, k) = Begun(sent, t + 1, 0)
      BY <1>4, <1>5, <2>1, LineReached
    <3>2. QED
      BY <1>8, <3>1
  <2>3. QED
    BY <1>3, <2>2 DEF Taken, Faithful, PartsOf
<1>10. full \in Seq(Refs) /\ ToSet(full) = Heard(adapter, sent, Arriving, 0)
  BY <1>2, <1>7, <1>9 DEF Typed, Ordered, Faithful
<1>11. Told /\ Everything
  BY <1>5, <1>6, <1>10, TellsBeginning DEF Told, Everything
<1>12. CASE adapter \in OpenAi
  <2>1. Ends(<<FinishOpenAi>>)
    BY <1>1, <1>12
  <2>2. <<FinishOpenAi>> \in Tails
    <3>1. CASE adapter = "openaiChat" \/ Held = <<>>
      <4>1. FinishOpenAi = Completed(full)
        BY <3>1 DEF FinishOpenAi
      <4>2. QED
        BY <1>11, <4>1 DEF Tails
    <3>2. CASE ~(adapter = "openaiChat" \/ Held = <<>>) /\ ~grounded
      <4>1. FinishOpenAi = Failed("AGENT_TOOL_CONTEXT_MISSING")
        BY <3>2 DEF FinishOpenAi
      <4>2. QED
        BY <4>1 DEF Tails, Codes
    <3>3. CASE /\ ~(adapter = "openaiChat" \/ Held = <<>>) /\ grounded
               /\ \E c \in ToSet(Held) : pending[c] # <<"open", "args">>
      <4>1. FinishOpenAi = Failed("AGENT_TOOL_SCHEMA_INVALID")
        BY <3>3 DEF FinishOpenAi
      <4>2. QED
        BY <4>1 DEF Tails, Codes
    <3>4. CASE /\ ~(adapter = "openaiChat" \/ Held = <<>>) /\ grounded
               /\ \A c \in ToSet(Held) : pending[c] = <<"open", "args">>
      <4>1. FinishOpenAi = Event("calls", Held)
        BY <3>4 DEF FinishOpenAi
      <4>2. adapter = "openaiRound"
        BY <1>12, <3>4 DEF OpenAi
      <4>3. /\ Held \in CallLists /\ IsInjective(Held)
            /\ ToSet(Held) = Begun(sent, Len(sent), 0)
        BY <1>2, <1>7, <1>9, <4>2, HeldOK
      <4>4. \A c \in ToSet(Held) : PartsOf(c, sent, Arriving, 0) = {"open", "args"}
        <5>1. ToSet(<<"open", "args">>) = {"open", "args"}
          BY DEF ToSet
        <5>2. \A c \in ToSet(Held) : c \in Calls
          BY <4>3 DEF CallLists, ToSet
        <5>3. QED
          BY <1>7, <1>9, <3>4, <4>2, <5>1, <5>2 DEF Faithful
      <4>5. sent # <<>> /\ sent[Len(sent)].done
        BY <1>1, <1>4, <1>5, <1>7
      <4>6. Whole(Held)
        BY <1>7, <3>4, <4>2, <4>3, <4>4, <4>5 DEF Whole
      <4>7. QED
        BY <4>1, <4>2, <4>3, <4>6 DEF Tails, WholeLists
    <3>5. QED
      BY <3>1, <3>2, <3>3, <3>4
  <2>3. buffer' \in Seq({Half(k) : k \in 1..(2 * MaxLines)}) /\ Len(buffer') <= Len(buffer)
    BY <1>1, <1>4, <1>5
  <2>4. QED
    BY <1>1, <1>11, <2>1, <2>2, <2>3, EndsStep
<1>13. CASE adapter \notin OpenAi
  <2>1. /\ at' = "select" /\ out' = out /\ adapter' = adapter /\ grounded' = grounded
        /\ cancelled' = cancelled /\ sent' = sent /\ spent' = spent /\ delivered' = delivered
        /\ full' = full /\ pending' = pending /\ found' = found
    BY <1>1, <1>13 DEF request, network, decoder
  <2>2. Talk' /\ Lines' = Lines /\ Numbered'
    BY <1>1, <1>2, <2>1, RequestKept
  <2>3. Typed'
    <3>1. adapter' \in Rounds => Len(buffer') <= MaxBuffer
      BY <1>1, <1>2, <1>4, <1>5, <2>1 DEF Typed
    <3>2. QED
      BY <1>1, <1>2, <1>4, <2>1, <2>2, <3>1 DEF Typed
  <2>4. delivered' = 2 * (t + 1) + Len(buffer')
    BY <1>1, <1>3, <1>4, <1>5, <2>1 DEF Taken
  <2>5. ~(Len(buffer') >= 2)
    BY <1>1, <1>4, <1>5, <1>7, <2>1, <2>4
  <2>6. Faithful(full, pending, found, t + 1, 0)'
    BY <1>9, <2>1 DEF Faithful, PartsOf
  <2>7. Taken(t + 1)'
    BY <1>1, <1>4, <2>1, <2>4, <2>5, <2>6 DEF Taken
  <2>8. Running'
    BY <1>2, <1>5, <1>7, <2>1, <2>7 DEF Running
  <2>9. QED
    BY <2>1, <2>2, <2>3, <2>8 DEF IInv
<1>14. QED
  BY <1>12, <1>13

-----------------------------------------------------------------------------
(* How a response ends.                                                     *)

\* The events of a response that has ended: its texts, and what it ends with.
EndsAs(n, last) ==
  \/ adapter \notin Rounds /\ last = n
  \/ last = n + 1 /\ \E code \in Codes : out[n + 1] = Failed(code)
  \/ last = n + 1 /\ Everything /\ out[n + 1] = Completed(full)
  \/ /\ adapter = "openaiRound" /\ last = n + 1
     /\ \E asked \in WholeLists : out[n + 1] = Event("calls", asked)
  \/ /\ adapter = "geminiRound" /\ last = n + 2
     /\ \E asked \in WholeLists :
          out[n + 1] = Event("parts", asked) /\ out[n + 2] = Event("calls", asked)
  \/ adapter \notin Rounds /\ last = n + 1 /\ out[n + 1] = Event("cancelled", None)
  \/ /\ adapter \notin Rounds /\ last = n + 2 /\ Everything
     /\ out[n + 1] = Failed("STREAM_READ_ERROR") /\ out[n + 2] = Completed(full)
Ended == EndsAs(Len(full) + 1, Len(out))

\* A sequence that none, one or two elements follow.
LEMMA FollowedBy ==
  ASSUME NEW S, NEW s \in Seq(S), NEW x, NEW y
  PROVE  /\ s \o <<>> = s
         /\ DOMAIN (s \o <<x>>) = 1..(Len(s) + 1) /\ Len(s \o <<x>>) = Len(s) + 1
         /\ (s \o <<x>>)[Len(s) + 1] = x
         /\ DOMAIN (s \o <<x, y>>) = 1..(Len(s) + 2) /\ Len(s \o <<x, y>>) = Len(s) + 2
         /\ (s \o <<x, y>>)[Len(s) + 1] = x /\ (s \o <<x, y>>)[Len(s) + 2] = y
         /\ \A i \in 1..Len(s) : (s \o <<x>>)[i] = s[i] /\ (s \o <<x, y>>)[i] = s[i]
<1>1. s \in Seq(S \cup {x, y}) /\ <<x>> \in Seq(S \cup {x, y}) /\ <<x, y>> \in Seq(S \cup {x, y})
  OBVIOUS
<1>2. s \o <<>> = s
  OBVIOUS
<1>3. /\ DOMAIN (s \o <<x>>) = 1..(Len(s) + 1) /\ Len(s \o <<x>>) = Len(s) + 1
      /\ (s \o <<x>>)[Len(s) + 1] = x /\ \A i \in 1..Len(s) : (s \o <<x>>)[i] = s[i]
  BY <1>1
<1>4. /\ DOMAIN (s \o <<x, y>>) = 1..(Len(s) + 2) /\ Len(s \o <<x, y>>) = Len(s) + 2
      /\ (s \o <<x, y>>)[Len(s) + 1] = x /\ (s \o <<x, y>>)[Len(s) + 2] = y
      /\ \A i \in 1..Len(s) : (s \o <<x, y>>)[i] = s[i]
  BY <1>1
<1>5. QED
  BY <1>2, <1>3, <1>4

\* The texts come first, and what a response ends with after them.
LEMMA OutOK ==
  ASSUME IInv
  PROVE  /\ full \in Seq(Refs) /\ DOMAIN out = 1..Len(out) /\ Len(out) >= Len(full) + 1
         /\ \A i \in 1..(Len(full) + 1) :
              out[i] = IF i = 1 THEN Started ELSE Event("text", full[i - 1])
         /\ IF at = "ended" THEN Ended ELSE Len(out) = Len(full) + 1
<1> DEFINE s == Spoken(full)
           n == Len(full) + 1
<1>1. full \in Seq(Refs)
  BY DEF IInv, Typed, Ordered
<1>2. s \in Seq(Utterances) /\ Len(s) = n /\ n \in Nat
  BY <1>1, SpokenOK
<1>3. \A i \in 1..n : s[i] = IF i = 1 THEN Started ELSE Event("text", full[i - 1])
  BY DEF Spoken
<1> HIDE DEF s
<1>4. \A x, y : /\ s \o <<>> = s
                /\ DOMAIN (s \o <<x>>) = 1..(n + 1) /\ Len(s \o <<x>>) = n + 1
                /\ (s \o <<x>>)[n + 1] = x
                /\ DOMAIN (s \o <<x, y>>) = 1..(n + 2) /\ Len(s \o <<x, y>>) = n + 2
                /\ (s \o <<x, y>>)[n + 1] = x /\ (s \o <<x, y>>)[n + 2] = y
                /\ \A i \in 1..n : (s \o <<x>>)[i] = s[i] /\ (s \o <<x, y>>)[i] = s[i]
  BY <1>2, FollowedBy
<1>5. DOMAIN s = 1..n
  BY <1>2
<1> DEFINE Fine == /\ DOMAIN out = 1..Len(out) /\ Len(out) >= n
                   /\ \A i \in 1..n : out[i] = s[i]
<1>6. ASSUME out = s PROVE Fine /\ Len(out) = n
  BY <1>2, <1>5, <1>6
<1>7. ASSUME NEW x, out = s \o <<x>> PROVE Fine /\ Len(out) = n + 1 /\ out[n + 1] = x
  BY <1>2, <1>4, <1>7
<1>8. ASSUME NEW x, NEW y, out = s \o <<x, y>>
      PROVE  Fine /\ Len(out) = n + 2 /\ out[n + 1] = x /\ out[n + 2] = y
  BY <1>2, <1>4, <1>8
<1>9. CASE at # "ended"
  BY <1>1, <1>3, <1>6, <1>9 DEF IInv, Running, s
<1>10. CASE at = "ended"
  <2>1. PICK tail \in Tails : out = s \o tail
    BY <1>10 DEF IInv, Closed, s
  <2>2. Fine /\ Ended
    <3> HIDE DEF Fine
    <3>1. CASE \E code \in Codes : tail = <<Failed(code)>>
      <4>1. PICK code \in Codes : tail = <<Failed(code)>>
        BY <3>1
      <4>2. Fine /\ Len(out) = n + 1 /\ out[n + 1] = Failed(code)
        BY <1>7, <2>1, <4>1, Zenon
      <4>3. QED
        BY <4>2 DEF Ended, EndsAs
    <3>2. CASE Everything /\ tail = <<Completed(full)>>
      <4>1. Fine /\ Len(out) = n + 1 /\ out[n + 1] = Completed(full)
        BY <1>7, <2>1, <3>2, Zenon
      <4>2. QED
        BY <3>2, <4>1 DEF Ended, EndsAs
    <3>3. CASE adapter = "openaiRound" /\ \E r \in WholeLists : tail = <<Event("calls", r)>>
      <4>1. PICK r \in WholeLists : tail = <<Event("calls", r)>>
        BY <3>3
      <4>2. Fine /\ Len(out) = n + 1 /\ out[n + 1] = Event("calls", r)
        BY <1>7, <2>1, <4>1, Zenon
      <4>3. QED
        BY <3>3, <4>1, <4>2 DEF Ended, EndsAs
    <3>4. CASE adapter = "geminiRound" /\
               \E r \in WholeLists : tail = <<Event("parts", r), Event("calls", r)>>
      <4>1. PICK r \in WholeLists : tail = <<Event("parts", r), Event("calls", r)>>
        BY <3>4
      <4>2. /\ Fine /\ Len(out) = n + 2
            /\ out[n + 1] = Event("parts", r) /\ out[n + 2] = Event("calls", r)
        BY <1>8, <2>1, <4>1, Zenon
      <4>3. QED
        BY <3>4, <4>1, <4>2 DEF Ended, EndsAs
    <3>5. CASE adapter \notin Rounds /\ tail = <<>>
      <4>1. Fine /\ Len(out) = n
        BY <1>4, <1>6, <2>1, <3>5, Zenon
      <4>2. QED
        BY <3>5, <4>1 DEF Ended, EndsAs
    <3>6. CASE adapter \notin Rounds /\ tail = <<Event("cancelled", None)>>
      <4>1. Fine /\ Len(out) = n + 1 /\ out[n + 1] = Event("cancelled", None)
        BY <1>7, <2>1, <3>6, Zenon
      <4>2. QED
        BY <3>6, <4>1 DEF Ended, EndsAs
    <3>7. CASE adapter \notin Rounds /\ Everything /\
               tail = <<Failed("STREAM_READ_ERROR"), Completed(full)>>
      <4>1. /\ Fine /\ Len(out) = n + 2
            /\ out[n + 1] = Failed("STREAM_READ_ERROR") /\ out[n + 2] = Completed(full)
        BY <1>8, <2>1, <3>7, Zenon
      <4>2. QED
        BY <3>7, <4>1 DEF Ended, EndsAs
    <3>8. QED
      BY <2>1, <3>1, <3>2, <3>3, <3>4, <3>5, <3>6, <3>7 DEF Tails
  <2>3. QED
    BY <1>1, <1>3, <1>10, <2>2 DEF Fine
<1>11. QED
  BY <1>9, <1>10

\* A response that asks for calls asks for whole ones.
LEMMA AskedOK ==
  ASSUME IInv, NEW k \in DOMAIN out, out[k].type = "calls"
  PROVE  /\ at = "ended" /\ k = Len(out) /\ adapter \in Rounds
         /\ out[k].data \in WholeLists
         /\ adapter = "geminiRound" => out[k - 1] = Event("parts", out[k].data)
<1> DEFINE n == Len(full) + 1
<1>1. /\ DOMAIN out = 1..Len(out) /\ Len(out) >= n /\ n \in Nat
      /\ \A i \in 1..n : out[i].type # "calls"
      /\ IF at = "ended" THEN Ended ELSE Len(out) = n
  <2>1. /\ full \in Seq(Refs) /\ DOMAIN out = 1..Len(out) /\ Len(out) >= n
        /\ \A i \in 1..n : out[i] = IF i = 1 THEN Started ELSE Event("text", full[i - 1])
        /\ IF at = "ended" THEN Ended ELSE Len(out) = n
    BY OutOK
  <2>2. n \in Nat
    <3>1. full \in Seq(Refs)
      BY DEF IInv, Typed, Ordered
    <3>2. QED
      BY <3>1
  <2>3. \A r : Event("text", r).type # "calls" /\ Started.type # "calls"
    BY DEF Event, Started
  <2>4. \A i \in 1..n : out[i].type # "calls"
    <3>1. ASSUME NEW i \in 1..n PROVE out[i].type # "calls"
      <4>1. out[i] = Started \/ \E r : out[i] = Event("text", r)
        BY <2>1, Zenon
      <4>2. QED
        BY <2>3, <4>1, Zenon
    <3>2. QED
      BY <3>1
  <2>5. QED
    BY <2>1, <2>2, <2>4, Zenon
<1>2. k \in 1..Len(out) /\ k \notin 1..n
  BY <1>1
<1>3. \A e, d : Event("calls", e).data = e /\ Event("calls", e).type = "calls"
  BY DEF Event
<1>4. /\ \A e : Failed(e).type # "calls" /\ Completed(e).type # "calls" /\ Event("parts", e).type # "calls"
      /\ Event("cancelled", None).type # "calls"
  BY DEF Failed, Completed, Event
<1>5. at = "ended" /\ Ended
  BY <1>1, <1>2
<1> HIDE DEF n
<1>6. Len(out) = n + 1 => k = n + 1
  BY <1>1, <1>2
<1>7. Len(out) = n + 2 => k = n + 1 \/ (k = n + 2 /\ k - 1 = n + 1)
  BY <1>1, <1>2
<1>8. Len(out) # n
  BY <1>2
<1>9. QED
  BY <1>3, <1>4, <1>5, <1>6, <1>7, <1>8 DEF Ended, EndsAs, n, Rounds

-----------------------------------------------------------------------------
(* The next round.                                                          *)

\* The messages of a round: its text, its calls, and a result for each.
RoundMessages(text, calls, parts) ==
  text \o <<ToolCalls(calls, parts)>> \o [k \in DOMAIN calls |-> ToolResult(calls[k])]

OneText(text) == text = <<>> \/ \E x : text = <<Assistant(x)>>

\* They are the calls, at most one message before them, and the results after.
Appended(longer, h, text, calls, parts) ==
  LET start == Len(h) + Len(text) + 1
  IN /\ Len(text) \in {0, 1} /\ longer \in Seq(ToSet(longer))
     /\ Len(longer) = start + Len(calls)
     /\ \A i \in 1..Len(h) : longer[i] = h[i]
     /\ Len(text) = 1 => longer[Len(h) + 1].role = "assistant"
     /\ longer[start] = ToolCalls(calls, parts)
     /\ \A k \in 1..Len(calls) : longer[start + k] = ToolResult(calls[k])

\* The messages of a round are appended in their order.
LEMMA MessagesOK ==
  ASSUME NEW text, OneText(text), NEW calls \in Batch, NEW parts, NEW S, NEW h \in Seq(S),
         NEW longer, longer = h \o RoundMessages(text, calls, parts)
  PROVE  Appended(longer, h, text, calls, parts)
<1> DEFINE a == Len(text)
           m == Len(calls)
           c == ToolCalls(calls, parts)
           results == [k \in 1..m |-> ToolResult(calls[k])]
           U == S \cup ToSet(text) \cup {c} \cup {ToolResult(calls[k]) : k \in 1..m}
           n == Len(h)
<1>1. m \in Nat /\ DOMAIN calls = 1..m
  BY DEF Batch
<1>2. a \in {0, 1} /\ text \in Seq(U) /\ (a = 1 => text[1].role = "assistant")
  <2>1. CASE text = <<>>
    BY <2>1
  <2>2. ASSUME NEW x, text = <<Assistant(x)>> PROVE a = 1 /\ text \in Seq(U) /\ text[1].role = "assistant"
    <3>1. a = 1 /\ text[1] = Assistant(x) /\ Assistant(x).role = "assistant"
      BY <2>2 DEF Assistant
    <3>2. Assistant(x) \in U
      BY <2>2 DEF ToSet
    <3> HIDE DEF U
    <3>3. QED
      BY <2>2, <3>1, <3>2
  <2>3. QED
    BY <2>1, <2>2 DEF OneText
<1>3. c \in U /\ \A k \in 1..m : ToolResult(calls[k]) \in U
  OBVIOUS
<1>4. h \in Seq(U) /\ n \in Nat
  OBVIOUS
<1> HIDE DEF U, c
<1>5. results \in Seq(U) /\ Len(results) = m /\ \A k \in 1..m : results[k] = ToolResult(calls[k])
  BY <1>1, <1>3
<1> HIDE DEF results, m, a
<1> DEFINE more == text \o <<c>> \o results
<1>6. <<c>> \in Seq(U) /\ Len(<<c>>) = 1 /\ <<c>>[1] = c
  BY <1>3
<1>7. /\ text \o <<c>> \in Seq(U) /\ Len(text \o <<c>>) = a + 1
      /\ (text \o <<c>>)[a + 1] = c /\ \A i \in 1..a : (text \o <<c>>)[i] = text[i]
  BY <1>2, <1>6 DEF a
<1>8. /\ more \in Seq(U) /\ Len(more) = a + 1 + m
      /\ \A i \in 1..(a + 1) : more[i] = (text \o <<c>>)[i]
      /\ \A k \in 1..m : more[a + 1 + k] = results[k]
  <2> DEFINE head == text \o <<c>>
  <2>1. head \in Seq(U) /\ Len(head) = a + 1 /\ a + 1 \in Nat
    BY <1>2, <1>7
  <2> HIDE DEF head
  <2>2. head \o results \in Seq(U) /\ Joined(head \o results, head, results)
    BY <1>5, <2>1, JoinedOK
  <2>3. QED
    BY <1>5, <2>1, <2>2 DEF head, Joined
<1>9. more[a + 1] = c /\ (a = 1 => more[1] = text[1])
  <2>1. a + 1 \in 1..(a + 1) /\ (a = 1 => 1 \in 1..(a + 1) /\ 1 \in 1..a)
    BY <1>2
  <2>2. QED
    BY <1>7, <1>8, <2>1
<1>10. RoundMessages(text, calls, parts) = more
  BY <1>1 DEF RoundMessages, c, results
<1> HIDE DEF more
<1>11. /\ longer \in Seq(U) /\ Len(longer) = n + (a + 1 + m)
       /\ \A i \in 1..n : longer[i] = h[i]
       /\ \A i \in 1..(a + 1 + m) : longer[n + i] = more[i]
  <2>1. longer \in Seq(U) /\ Joined(longer, h, more)
    BY <1>4, <1>8, <1>10, JoinedOK
  <2>2. Len(more) = a + 1 + m
    BY <1>8
  <2>3. QED
    BY <2>1, <2>2, Zenon DEF Joined
<1>12. longer[n + a + 1] = c /\ (a = 1 => longer[n + 1] = text[1])
  <2>1. /\ a + 1 \in 1..(a + 1 + m) /\ n + (a + 1) = n + a + 1
        /\ (a = 1 => 1 \in 1..(a + 1 + m))
    BY <1>1, <1>2, <1>4
  <2>2. QED
    BY <1>9, <1>11, <2>1
<1>13. \A k \in 1..m : longer[n + a + 1 + k] = ToolResult(calls[k])
  <2>1. \A k \in 1..m : a + 1 + k \in 1..(a + 1 + m) /\ n + (a + 1 + k) = n + a + 1 + k
    BY <1>1, <1>2, <1>4
  <2>2. QED
    BY <1>5, <1>8, <1>11, <2>1
<1>14. longer \in Seq(ToSet(longer))
  <2>1. \A w \in Seq(U) : w \in Seq({w[i] : i \in DOMAIN w})
    OBVIOUS
  <2>2. QED
    BY <1>11, <2>1, Zenon DEF ToSet
<1>15. Len(longer) = n + a + 1 + m
  BY <1>1, <1>2, <1>4, <1>11
<1>16. QED
  BY <1>2, <1>10, <1>11, <1>12, <1>13, <1>14, <1>15 DEF Appended, a, m, n, c

\* The calls of a batch under their ids, with Gemini's parts.
Paired(calls, parts) ==
  /\ \A k \in DOMAIN calls : calls[k].id = CallId(calls[k].n)
  /\ adapter \notin OpenAi => parts = [k \in 1..Len(calls) |-> calls[k].n]

\* The messages of a round keep a history in which the results follow their calls,
\* and number the calls they hold.
LEMMA FollowsMore ==
  ASSUME NEW text, OneText(text), NEW calls \in Batch, NEW parts, Paired(calls, parts),
         NEW S, NEW h \in Seq(S), Follows(h)
  PROVE  LET longer == h \o RoundMessages(text, calls, parts)
         IN /\ longer \in Seq(ToSet(longer)) /\ Follows(longer)
            /\ {x \in ToSet(longer) : x.role = "calls"} =
                 {x \in ToSet(h) : x.role = "calls"} \cup {ToolCalls(calls, parts)}
<1> DEFINE longer == h \o RoundMessages(text, calls, parts)
           n == Len(h)
           a == Len(text)
           m == Len(calls)
           b == n + a + 1
           c == ToolCalls(calls, parts)
<1>1. /\ a \in {0, 1} /\ longer \in Seq(ToSet(longer)) /\ Len(longer) = b + m
      /\ \A i \in 1..n : longer[i] = h[i]
      /\ a = 1 => longer[n + 1].role = "assistant"
      /\ longer[b] = c
      /\ \A k \in 1..m : longer[b + k] = ToolResult(calls[k])
  <2> HIDE DEF longer
  <2>1. longer = h \o RoundMessages(text, calls, parts)
    BY DEF longer
  <2>2. Appended(longer, h, text, calls, parts)
    BY <2>1, MessagesOK
  <2>3. QED
    BY <2>2 DEF Appended
<1>2. m \in Nat /\ DOMAIN calls = 1..m /\ n \in Nat /\ DOMAIN h = 1..n
  BY DEF Batch
<1>3. DOMAIN longer = 1..(b + m)
  <2> HIDE DEF longer, b, m
  <2>1. QED
    BY <1>1
<1>4. c.role = "calls" /\ c.calls = calls /\ c.parts = parts
  BY DEF ToolCalls
<1>5. \A k \in 1..m : ToolResult(calls[k]).role = "result" /\ ToolResult(calls[k]).id = calls[k].id
  BY DEF ToolResult
<1> HIDE DEF longer, m, n, a, c
<1>6. ASSUME NEW p \in DOMAIN longer
      PROVE  \/ p \in 1..n
             \/ p \notin 1..n /\ p = n + 1 /\ a = 1
             \/ p \notin 1..n /\ p = b
             \/ p \notin 1..n /\ \E k \in 1..m : p = b + k
  <2>1. p \in 1..(b + m)
    BY <1>3
  <2>2. p > b => p - b \in 1..m /\ p = b + (p - b)
    BY <1>1, <1>2, <2>1
  <2>3. p \in 1..n \/ (p \notin 1..n /\ ((p = n + 1 /\ a = 1) \/ p = b \/ p > b))
    BY <1>1, <1>2, <2>1
  <2>4. QED
    BY <2>2, <2>3
<1>7. /\ \A p \in 1..n : p \in DOMAIN longer
      /\ b \in DOMAIN longer /\ b \notin 1..n /\ \A k \in 1..m : b + k \in DOMAIN longer
  BY <1>1, <1>2, <1>3
<1>8. \A p \in DOMAIN longer : longer[p].role = "calls" => p \in 1..n \/ p = b
  BY <1>1, <1>5, <1>6
<1>9. \A p \in DOMAIN longer : longer[p].role \in {"user", "assistant", "calls", "result"}
  <2>1. \A p \in 1..n : h[p].role \in {"user", "assistant", "calls", "result"}
    BY <1>2 DEF Follows
  <2>2. QED
    BY <1>1, <1>4, <1>5, <1>6, <2>1
<1>10. ASSUME NEW p \in DOMAIN longer, longer[p].role = "calls"
       PROVE  /\ longer[p].calls \in Batch
              /\ \A k \in DOMAIN longer[p].calls : longer[p].calls[k].id = CallId(longer[p].calls[k].n)
              /\ adapter \notin OpenAi =>
                   longer[p].parts = [k \in 1..Len(longer[p].calls) |-> longer[p].calls[k].n]
              /\ p + Len(longer[p].calls) <= Len(longer)
              /\ \A k \in DOMAIN longer[p].calls : longer[p + k] = ToolResult(longer[p].calls[k])
  <2>1. CASE p \in 1..n
    <3>1. longer[p] = h[p] /\ p \in DOMAIN h /\ h[p].role = "calls"
      BY <1>1, <1>2, <1>10, <2>1
    <3>2. /\ h[p].calls \in Batch
          /\ \A k \in DOMAIN h[p].calls : h[p].calls[k].id = CallId(h[p].calls[k].n)
          /\ adapter \notin OpenAi => h[p].parts = [k \in 1..Len(h[p].calls) |-> h[p].calls[k].n]
          /\ p + Len(h[p].calls) <= n
          /\ \A k \in DOMAIN h[p].calls : h[p + k] = ToolResult(h[p].calls[k])
      BY <3>1 DEF Follows, n
    <3>3. Len(h[p].calls) \in Nat /\ DOMAIN h[p].calls = 1..Len(h[p].calls)
      BY <3>2 DEF Batch
    <3>4. p + Len(h[p].calls) <= Len(longer)
      BY <1>1, <1>2, <2>1, <3>2, <3>3
    <3>5. \A k \in DOMAIN h[p].calls : p + k \in 1..n
      BY <1>2, <2>1, <3>2, <3>3
    <3>6. \A k \in DOMAIN h[p].calls : longer[p + k] = ToolResult(h[p].calls[k])
      BY <1>1, <3>2, <3>5
    <3>7. QED
      BY <3>1, <3>2, <3>4, <3>6, Zenon
  <2>2. CASE p = b
    <3>1. longer[p] = c /\ longer[p].calls = calls /\ longer[p].parts = parts
      BY <1>1, <1>4, <2>2
    <3>2. p + Len(calls) <= Len(longer)
      BY <1>1, <1>2, <2>2 DEF m
    <3>3. \A k \in DOMAIN calls : longer[p + k] = ToolResult(calls[k])
      BY <1>1, <1>2, <2>2
    <3>4. QED
      BY <3>1, <3>2, <3>3, Zenon DEF Paired
  <2>3. QED
    BY <1>8, <1>10, <2>1, <2>2
<1>11. ASSUME NEW p \in DOMAIN longer, longer[p].role = "result"
       PROVE  \E q \in 1..(p - 1) : longer[q].role = "calls" /\
                \E k \in DOMAIN longer[q].calls : longer[p].id = longer[q].calls[k].id
  <2>1. CASE p \in 1..n
    <3>1. longer[p] = h[p] /\ p \in DOMAIN h /\ h[p].role = "result"
      BY <1>1, <1>2, <1>11, <2>1
    <3>2. PICK q \in 1..(p - 1) : h[q].role = "calls" /\
            \E k \in DOMAIN h[q].calls : h[p].id = h[q].calls[k].id
      BY <3>1 DEF Follows
    <3>3. longer[q] = h[q]
      <4>1. q \in 1..n
        BY <1>2, <2>1, <3>2
      <4>2. QED
        BY <1>1, <4>1
    <3>4. QED
      BY <3>1, <3>2, <3>3
  <2>2. ASSUME NEW k \in 1..m, p = b + k
        PROVE  \E q \in 1..(p - 1) : longer[q].role = "calls" /\
                 \E j \in DOMAIN longer[q].calls : longer[p].id = longer[q].calls[j].id
    <3>1. b \in 1..(p - 1)
      BY <1>1, <1>2, <2>2
    <3>2. longer[b].role = "calls" /\ longer[b].calls = calls /\ k \in DOMAIN calls
      BY <1>1, <1>2, <1>4
    <3>3. longer[p].id = calls[k].id
      BY <1>1, <1>5, <2>2
    <3>4. QED
      BY <3>1, <3>2, <3>3
  <2>3. QED
    BY <1>1, <1>4, <1>6, <1>11, <2>1, <2>2
<1>12. Follows(longer)
  BY <1>9, <1>10, <1>11 DEF Follows
<1>13. {x \in ToSet(longer) : x.role = "calls"} = {x \in ToSet(h) : x.role = "calls"} \cup {c}
  <2>1. \A x : x \in ToSet(longer) <=> \E p \in DOMAIN longer : x = longer[p]
    BY DEF ToSet
  <2>2. \A x : x \in ToSet(h) <=> \E p \in 1..n : x = h[p]
    BY <1>2 DEF ToSet
  <2>3. \A x : x \in ToSet(longer) /\ x.role = "calls" =>
                 (x \in ToSet(h) /\ x.role = "calls") \/ x = c
    BY <1>1, <1>8, <2>1, <2>2
  <2>4. \A x : (x \in ToSet(h) /\ x.role = "calls") \/ x = c => x \in ToSet(longer) /\ x.role = "calls"
    BY <1>1, <1>4, <1>7, <2>1, <2>2
  <2>5. QED
    BY <2>3, <2>4
<1>14. QED
  BY <1>1, <1>12, <1>13 DEF longer, c

\* The next round begins with the results of this one in its history.
LEMMA NextRoundStep ==
  ASSUME IInv, NextRound
  PROVE  IInv'
<1>1. /\ at = "ended" /\ out # <<>> /\ Last(out).type = "calls" /\ ~cancelled
      /\ history' = history \o Answered /\ body' = Body(history')
      /\ spent' = spent + Len(sent) /\ sent' = <<>> /\ delivered' = 0
      /\ at' = "select" /\ buffer' = <<>>
      /\ full' = <<>> /\ pending' = [c \in Calls |-> <<>>] /\ found' = <<>>
      /\ out' = <<Started>> /\ UNCHANGED <<adapter, grounded, cancelled>>
  BY DEF NextRound
<1>2. Typed /\ Numbered /\ Talk
  BY DEF IInv
<1> DEFINE calls == [k \in DOMAIN Requested |-> [n |-> Requested[k], id |-> CallId(Requested[k])]]
           parts == IF adapter = "geminiRound" THEN out[Len(out) - 1].data ELSE <<>>
           text == IF RoundText = <<>> THEN <<>> ELSE <<Assistant(RoundText)>>
<1>3. /\ Requested \in WholeLists /\ adapter \in Rounds
      /\ adapter = "geminiRound" => out[Len(out) - 1] = Event("parts", Requested)
  <2>1. Len(out) \in DOMAIN out
    <3>1. DOMAIN out = 1..Len(out) /\ Len(out) >= Len(full) + 1 /\ full \in Seq(Refs)
      BY OutOK
    <3>2. Len(full) \in Nat
      BY <3>1
    <3>3. Len(out) >= 1 => Len(out) \in 1..Len(out)
      <4>1. Len(out) \in Nat \/ Len(out) \notin Nat
        OBVIOUS
      <4>2. QED
        BY <1>1, <3>1, <3>2
    <3>4. QED
      BY <3>1, <3>2, <3>3
  <2>2. out[Len(out)].type = "calls" /\ Requested = out[Len(out)].data
    BY <1>1 DEF Requested, Last
  <2>3. QED
    BY <2>1, <2>2, AskedOK
<1>4. Requested \in Seq(Calls) /\ Whole(Requested) /\ DOMAIN Requested = 1..Len(Requested)
  BY <1>3 DEF WholeLists, CallLists
<1>5. /\ calls \in Batch /\ Len(calls) = Len(Requested)
      /\ \A k \in DOMAIN calls : calls[k].n = Requested[k] /\ calls[k].id = CallId(calls[k].n)
  <2>1. DOMAIN calls = 1..Len(Requested)
    BY <1>4
  <2>2. \A k \in 1..Len(Requested) : calls[k] \in [n : Calls, id : {CallId(c) : c \in Calls}]
    BY <1>4
  <2>3. calls \in Batch
    BY <1>4, <2>1, <2>2 DEF Batch
  <2>4. QED
    BY <1>4, <2>1, <2>3
<1>6. adapter \notin OpenAi => parts = [k \in 1..Len(calls) |-> calls[k].n]
  <2>1. ASSUME adapter \notin OpenAi PROVE parts = Requested
    BY <1>3, <2>1 DEF OpenAi, Rounds, Event
  <2>2. Requested = [k \in 1..Len(calls) |-> calls[k].n]
    BY <1>4, <1>5
  <2> HIDE DEF calls, parts
  <2>3. QED
    BY <2>1, <2>2, Zenon
<1>7. OneText(text)
  BY DEF OneText
<1>8. Answered = RoundMessages(text, calls, parts)
  BY DEF Answered, RoundMessages
<1>9. history \in Seq(ToSet(history)) /\ Follows(history)
  BY <1>2 DEF Talk
<1> HIDE DEF calls, parts, text
<1>10. /\ history' \in Seq(ToSet(history')) /\ Follows(history')
       /\ {x \in ToSet(history') : x.role = "calls"} =
            {x \in ToSet(history) : x.role = "calls"} \cup {ToolCalls(calls, parts)}
  <2>1. LET longer == history \o RoundMessages(text, calls, parts)
        IN /\ longer \in Seq(ToSet(longer)) /\ Follows(longer)
           /\ {x \in ToSet(longer) : x.role = "calls"} =
                {x \in ToSet(history) : x.role = "calls"} \cup {ToolCalls(calls, parts)}
    <3>1. Paired(calls, parts)
      BY <1>5, <1>6 DEF Paired
    <3>2. QED
      BY <1>5, <1>7, <1>9, <3>1, FollowsMore
  <2>2. QED
    BY <1>1, <1>8, <2>1
<1>11. Talk'
  <2>1. Follows(history)'
    BY <1>1, <1>10 DEF Follows
  <2>2. Body(history)' = Body(history')
    BY <1>1 DEF Body
  <2>3. QED
    BY <1>1, <1>10, <2>1, <2>2 DEF Talk
<1>12. \E n \in Nat : InHistory' = 1..n
  <2>1. InHistory' = UNION {{c.n : c \in ToSet(m.calls)} : m \in {x \in ToSet(history') : x.role = "calls"}}
    BY DEF InHistory
  <2>2. InHistory' = InHistory \cup {c.n : c \in ToSet(calls)}
    <3>1. ToolCalls(calls, parts).calls = calls
      BY DEF ToolCalls
    <3>2. QED
      BY <1>10, <2>1, <3>1 DEF InHistory
  <2>3. {c.n : c \in ToSet(calls)} = ToSet(Requested)
    <3>1. DOMAIN calls = DOMAIN Requested
      BY DEF calls
    <3>2. QED
      BY <1>5, <3>1 DEF ToSet
  <2>4. ToSet(Requested) = Begun(sent, Arriving, 0)
    BY <1>4 DEF Whole
  <2>5. Arriving \in 0..Len(sent)
    <3>1. \A n, d \in Nat : d \in 0..(2 * n) => d \div 2 \in 0..n
      OBVIOUS
    <3>2. QED
      BY <1>2, <3>1 DEF Typed, Arriving
  <2>6. QED
    BY <1>2, <2>2, <2>3, <2>4, <2>5 DEF Numbered
<1>13. spent' \in 0..MaxLines
  <2>1. spent \in Nat /\ Len(sent) \in Nat /\ spent + Len(sent) <= MaxLines /\ MaxLines \in Nat
    BY <1>2, StreamAssumption DEF Typed
  <2>2. QED
    BY <1>1, <2>1
<1>14. Beginning'
  BY <1>1, <1>2, <1>11, <1>12, <1>13 DEF Beginning, Typed
<1>15. QED
  BY <1>14, BeginningOK, PTL

\* The token says nothing of the stream.
LEMMA CancelStep ==
  ASSUME IInv, Cancel \/ UNCHANGED vars
  PROVE  IInv'
<1>1. UNCHANGED <<request, network, at, buffer, decoder, out>> /\ cancelled' \in BOOLEAN
  BY DEF Cancel, vars, IInv, Typed
<1>2. Typed /\ Numbered /\ Talk
  BY DEF IInv
<1>3. /\ adapter' = adapter /\ grounded' = grounded /\ sent' = sent /\ spent' = spent
      /\ delivered' = delivered /\ at' = at /\ buffer' = buffer /\ out' = out
      /\ full' = full /\ pending' = pending /\ found' = found
  BY <1>1 DEF request, network, decoder
<1>4. Talk' /\ Lines' = Lines /\ Numbered'
  BY <1>1, <1>2, <1>3, RequestKept
<1>5. Typed'
  BY <1>1, <1>2, <1>3, <1>4 DEF Typed
<1>6. Tails' = Tails /\ Told' = Told
  BY <1>1, <1>3, TailsKept
<1>7. Running => Running'
  <2>1. ASSUME NEW t \in 0..Len(sent), Taken(t) PROVE Taken(t)'
    BY <1>3, <2>1 DEF Taken, Faithful, PartsOf
  <2>2. QED
    BY <1>3, <2>1 DEF Running
<1>8. Closed => Closed'
  BY <1>3, <1>6 DEF Closed
<1>9. QED
  BY <1>3, <1>4, <1>5, <1>7, <1>8 DEF IInv

\* Every step of a stream keeps the invariant.
LEMMA NextOK ==
  ASSUME IInv, [Next]_vars
  PROVE  IInv'
<1>1. CASE \E line \in Lines : Write(line)
  BY <1>1, WriteStep
<1>2. CASE \E n \in 1..(2 * MaxLines) : Chunk(n)
  BY <1>2, ChunkStep
<1>3. QED
  BY <1>1, <1>2, EndOfBodyStep, ReadErrorStep, CancelSeenStep, TakeLineStep, TakeDoneStep,
     NextRoundStep, CancelStep DEF Next

-----------------------------------------------------------------------------
(* What the invariant says of a round.                                      *)

\* What had come is a beginning of what was sent, and the same places of it.
LEMMA ReceivedOK ==
  ASSUME Typed
  PROVE  /\ Arriving \in 0..Len(sent) /\ Received \in Seq(Lines) /\ Len(Received) = Arriving
         /\ \A l \in 1..Arriving : Received[l] = sent[l]
         /\ VisibleRefs = Heard(adapter, sent, Arriving, 0)
         /\ Opened(Received) = Begun(sent, Arriving, 0)
         /\ UNION {ToSet(l.items) : l \in ToSet(Received)} = Got(sent, Arriving, 0)
<1> DEFINE n == Arriving
<1>1. sent \in Seq(Lines) /\ n \in 0..Len(sent)
  <2>1. \A k, d \in Nat : d \in 0..(2 * k) => d \div 2 \in 0..k
    OBVIOUS
  <2>2. QED
    BY <2>1 DEF Typed, Arriving
<1>2. /\ Received \in Seq(Lines) /\ Len(Received) = n
      /\ \A l \in 1..n : Received[l] = sent[l]
  <2>1. Received = SubSeq(sent, 1, n)
    BY DEF Received, Arriving
  <2> HIDE DEF n
  <2>2. QED
    BY <1>1, <2>1
<1> HIDE DEF n
<1>3. \A r \in Refs : r \in Reached(Received, n, 0) <=>
        r[1] \in 1..n /\ r[2] \in 1..Len(sent[r[1]].items)
  <2>1. \A r \in Refs : r[1] \in Nat /\ r[2] \in Nat
    BY DEF Refs
  <2>2. QED
    BY <1>1, <1>2, <2>1 DEF Reached, Places
<1>4. \A r \in Refs : r \in Reached(sent, n, 0) <=>
        r[1] \in 1..n /\ r[2] \in 1..Len(sent[r[1]].items)
  <2>1. \A r \in Refs : r[1] \in Nat /\ r[2] \in Nat
    BY DEF Refs
  <2>2. QED
    BY <1>1, <2>1 DEF Reached, Places
<1>5. Reached(Received, n, 0) \subseteq Refs /\ Reached(sent, n, 0) \subseteq Refs
  BY DEF Reached, Places
<1>6. Reached(Received, n, 0) = Reached(sent, n, 0)
  BY <1>3, <1>4, <1>5
<1>7. \A r \in Reached(sent, n, 0) : At(Received, r) = At(sent, r)
  BY <1>2, <1>4, <1>5 DEF At
<1>8. Got(Received, n, 0) = Got(sent, n, 0)
  BY <1>6, <1>7 DEF Got
<1>9. Begun(Received, n, 0) = Begun(sent, n, 0)
  BY <1>8 DEF Begun
<1>10. \A l \in DOMAIN Received : Received[l].items \in Seq(Words)
  BY <1>2, LinesAreWritten DEF Written
<1>11. /\ UNION {ToSet(l.items) : l \in ToSet(Received)} = Got(sent, n, 0)
       /\ Opened(Received) = Begun(sent, n, 0)
  BY <1>2, <1>8, <1>9, <1>10, GotAll, OpenedAll
<1>12. VisibleRefs = Heard(adapter, sent, n, 0)
  <2>1. DOMAIN Received = 1..n
    BY <1>1, <1>2
  <2>2. ASSUME NEW x \in VisibleRefs PROVE x \in Heard(adapter, sent, n, 0)
    <3>1. PICK l \in DOMAIN Received :
            x \in {<<l, i>> : i \in {j \in DOMAIN Received[l].items : Visible(Received[l].items[j])}}
      BY <2>2 DEF VisibleRefs
    <3>2. PICK i \in DOMAIN Received[l].items : x = <<l, i>> /\ Visible(Received[l].items[i])
      BY <3>1
    <3>3. l \in 1..n /\ Received[l] = sent[l] /\ Received[l].items \in Seq(Words)
      BY <1>2, <1>10, <2>1
    <3>4. i \in 1..Len(sent[l].items)
      BY <3>2, <3>3
    <3>5. x \in Refs /\ x[1] = l /\ x[2] = i
      BY <1>1, <3>2, <3>3, <3>4 DEF Refs
    <3>6. x \in Reached(sent, n, 0)
      BY <1>4, <3>3, <3>4, <3>5
    <3>7. QED
      BY <3>2, <3>3, <3>5, <3>6 DEF Heard, Hears, Visible, At
  <2>3. ASSUME NEW x \in Heard(adapter, sent, n, 0) PROVE x \in VisibleRefs
    <3>1. x \in Refs /\ x[1] \in 1..n /\ x[2] \in 1..Len(sent[x[1]].items)
      BY <1>4, <1>5, <2>3 DEF Heard
    <3>2. x = <<x[1], x[2]>>
      BY <3>1 DEF Refs
    <3>3. Visible(sent[x[1]].items[x[2]])
      BY <2>3 DEF Heard, Hears, Visible, At
    <3>4. x[2] \in DOMAIN Received[x[1]].items /\ Received[x[1]] = sent[x[1]]
      BY <1>2, <1>10, <2>1, <3>1
    <3>5. QED
      BY <2>1, <3>1, <3>2, <3>3, <3>4 DEF VisibleRefs
  <2>4. QED
    BY <2>2, <2>3
<1>13. QED
  BY <1>1, <1>2, <1>11, <1>12 DEF n

\* The texts that have been told are the beginning of those that have come.
LEMMA ToldOK ==
  ASSUME IInv
  PROVE  Told
<1>1. CASE at = "ended"
  BY <1>1 DEF IInv, Closed
<1>2. CASE at # "ended"
  <2>1. Typed /\ Running
    BY <1>2 DEF IInv
  <2>2. PICK t \in 0..Len(sent) : Taken(t)
    BY <2>1 DEF Running
  <2>3. t \in Nat /\ Arriving \in Nat /\ (t < Arriving \/ t = Arriving)
    <3>1. Arriving \in 0..Len(sent) /\ t <= Arriving
      BY <2>1, <2>2, WhereTaken
    <3>2. QED
      BY <3>1
  <2>4. full \in Seq(Refs) /\ ToSet(full) = Heard(adapter, sent, t, 0)
    BY <2>1, <2>2 DEF Typed, Ordered, Taken, Faithful
  <2>5. QED
    BY <2>3, <2>4, TellsBeginning DEF Told
<1>3. QED
  BY <1>1, <1>2

\* The types of the events of a response.
LEMMA EventsOK ==
  ASSUME IInv
  PROVE  /\ \A k \in DOMAIN out : out[k].type \in Terminal \cup {"started", "text", "parts"}
         /\ \A k \in DOMAIN out : out[k].type = "text" <=> k \in 2..(Len(full) + 1)
         /\ \A k \in DOMAIN out :
              out[k].type = "completed" => Everything /\ out[k].data = full
         /\ adapter \in Rounds => RoundsEndOnce
         /\ adapter \in Rounds /\ at = "ended" =>
              Last(out).type \in {"completed", "calls", "failed"}
<1> DEFINE n == Len(full) + 1
           N == Len(out)
<1>1. /\ DOMAIN out = 1..N /\ N >= n
      /\ \A i \in 1..n : out[i] = IF i = 1 THEN Started ELSE Event("text", full[i - 1])
      /\ IF at = "ended" THEN EndsAs(n, N) ELSE N = n
  BY OutOK, Zenon DEF Ended
<1>2. n \in Nat /\ n >= 1
  <2>1. full \in Seq(Refs)
    BY DEF IInv, Typed, Ordered
  <2>2. QED
    BY <2>1
<1>3. /\ \A t, d : Event(t, d).type = t /\ Event(t, d).data = d
      /\ Started.type = "started"
      /\ \A d : Failed(d).type = "failed" /\ Completed(d).type = "completed" /\ Completed(d).data = d
  BY DEF Event, Started, Failed, Completed
<1> HIDE DEF N
<1>4. out[1].type = "started" /\ \A i \in 2..n : out[i].type = "text"
  <2>1. 1 \in 1..n /\ \A i \in 2..n : i \in 1..n /\ i # 1
    BY <1>2
  <2> HIDE DEF n
  <2>2. out[1] = Started /\ \A i \in 2..n : out[i] = Event("text", full[i - 1])
    BY <1>1, <2>1
  <2>3. ASSUME NEW i \in 2..n PROVE out[i].type = "text"
    <3>1. out[i] = Event("text", full[i - 1])
      BY <2>2
    <3>2. QED
      BY <3>1 DEF Event
  <2>4. QED
    BY <1>3, <2>2, <2>3
<1> HIDE DEF n
<1>5. at = "ended" => (N \in Nat /\ N <= n + 2) /\ EndsAs(n, N)
  BY <1>1, <1>2 DEF EndsAs
<1>6. N \in Nat /\ N <= n + 2
  BY <1>1, <1>2, <1>5
<1>7. \A k \in 1..N : k = 1 \/ k \in 2..n \/ (k = n + 1 /\ N >= n + 1) \/ (k = n + 2 /\ N = n + 2)
  BY <1>2, <1>6
<1>8. N # n => EndsAs(n, N) /\ at = "ended"
  BY <1>1
<1>9. /\ N >= n + 1 => out[n + 1].type \in Terminal \cup {"parts"}
      /\ N >= n + 1 /\ out[n + 1].type = "completed" => Everything /\ out[n + 1].data = full
      /\ N = n + 2 => out[n + 2].type \in {"calls", "completed"}
      /\ N = n + 2 /\ out[n + 2].type = "completed" => Everything /\ out[n + 2].data = full
      /\ N = n + 2 /\ adapter \in Rounds => out[n + 1].type = "parts"
      /\ N = n + 1 /\ adapter \in Rounds => out[n + 1].type \in {"completed", "calls", "failed"}
      /\ at = "ended" /\ adapter \in Rounds => N # n
  <2>1. (N >= n + 1 => N # n) /\ (N = n + 1 => N # n) /\ (N = n + 2 => N # n)
        /\ (N = n + 1 => N # n + 2)
    BY <1>2, <1>6
  <2>2. at = "ended" \/ N # n => EndsAs(n, N)
    BY <1>5, <1>8
  <2>3. QED
    BY <1>3, <2>1, <2>2 DEF Terminal, EndsAs
<1>10. ASSUME NEW k \in DOMAIN out PROVE out[k].type \in Terminal \cup {"started", "text", "parts"}
  <2>1. k = 1 \/ k \in 2..n => out[k].type \in {"started", "text"}
    BY <1>4
  <2>2. k = n + 1 /\ N >= n + 1 => out[k].type \in Terminal \cup {"parts"}
    BY <1>9
  <2>3. k = n + 2 /\ N = n + 2 => out[k].type \in Terminal
    BY <1>9 DEF Terminal
  <2>4. QED
    BY <1>1, <1>7, <2>1, <2>2, <2>3
<1>11. ASSUME NEW k \in DOMAIN out PROVE out[k].type = "text" <=> k \in 2..n
  <2>1. k \in 2..n => out[k].type = "text"
    BY <1>4
  <2>2. k \notin 2..n => out[k].type # "text"
    BY <1>1, <1>4, <1>7, <1>9 DEF Terminal
  <2>3. QED
    BY <2>1, <2>2
<1>12. ASSUME NEW k \in DOMAIN out, out[k].type = "completed" PROVE Everything /\ out[k].data = full
  BY <1>1, <1>4, <1>7, <1>9, <1>12
<1>13. ASSUME adapter \in Rounds PROVE RoundsEndOnce
  <2>1. ASSUME NEW k \in DOMAIN out, out[k].type \in Terminal PROVE k = N /\ at = "ended"
    <3>1. k # 1 /\ k \notin 2..n
      BY <1>4, <2>1 DEF Terminal
    <3>2. N # n
      BY <1>1, <1>2, <1>7, <3>1
    <3>3. k = n + 1 \/ (k = n + 2 /\ N = n + 2)
      BY <1>1, <1>7, <3>1
    <3>4. N = n + 1 \/ N = n + 2
      BY <1>1, <1>2, <1>6, <3>2
    <3>5. N = n + 2 => k # n + 1
      BY <1>9, <1>13, <2>1 DEF Terminal
    <3>6. QED
      BY <1>8, <3>2, <3>3, <3>4, <3>5
  <2>2. at = "ended" => Last(out).type \in Terminal
    <3>1. ASSUME at = "ended" PROVE N = n + 1 \/ N = n + 2
      BY <1>1, <1>2, <1>6, <1>9, <1>13, <3>1
    <3>2. QED
      BY <1>9, <1>13, <3>1 DEF Last, Terminal, N
  <2>3. QED
    BY <2>1, <2>2 DEF RoundsEndOnce, OneTerminal, N
<1>14. ASSUME adapter \in Rounds, at = "ended" PROVE Last(out).type \in {"completed", "calls", "failed"}
  <2>1. N = n + 1 \/ N = n + 2
    BY <1>1, <1>2, <1>6, <1>9, <1>14
  <2>2. QED
    BY <1>9, <1>14, <2>1 DEF Last, N
<1>15. QED
  BY <1>10, <1>11, <1>12, <1>13, <1>14 DEF n

\* The types and limits.
LEMMA TypeFollows ==
  ASSUME IInv
  PROVE  TypeOK
<1>1. Typed /\ body = Body(history)
  BY DEF IInv, Talk
<1>2. spent \in 0..MaxLines /\ delivered \in 0..(2 * MaxLines)
  <2>1. Len(sent) \in Nat /\ MaxLines \in Nat /\ spent \in Nat /\ spent + Len(sent) <= MaxLines
    BY <1>1, StreamAssumption DEF Typed
  <2>2. QED
    BY <1>1, <2>1 DEF Typed
<1>3. /\ ToSet(sent) \subseteq Lines /\ ToSet(full) \subseteq Nat \X Nat
      /\ ToSet(buffer) \subseteq {Half(k) : k \in 1..(2 * MaxLines)}
      /\ ToSet(found) \subseteq Calls
      /\ \A c \in Calls : ToSet(pending[c]) \subseteq {"open", "args", "bad"}
  <2>1. \A S : \A s \in Seq(S) : ToSet(s) \subseteq S
    BY DEF ToSet
  <2>2. /\ sent \in Seq(Lines) /\ full \in Seq(Refs) /\ found \in Seq(Calls)
        /\ buffer \in Seq({Half(k) : k \in 1..(2 * MaxLines)})
        /\ \A c \in Calls : pending[c] \in Seq(Parted)
    BY <1>1 DEF Typed, Ordered
  <2>3. QED
    BY <2>1, <2>2, Zenon DEF Refs, Parted
<1>4. at # "ended" => delivered <= MaxStream
  BY DEF IInv, Running
<1>5. body.ok \in BOOLEAN
  BY <1>1 DEF Body, OpenAiBody, GeminiBody
<1>6. \A k \in DOMAIN out : out[k].type \in Terminal \cup {"started", "text", "parts"}
  BY EventsOK
<1>7. QED
  BY <1>1, <1>2, <1>3, <1>4, <1>5, <1>6 DEF Typed, TypeOK

\* The texts of a round are those of the wire.
LEMMA TextFollows ==
  ASSUME IInv
  PROVE  TextIsWire
<1> DEFINE n == Len(full)
           texts == Ascending({k \in DOMAIN out : out[k].type = "text"})
<1>1. Typed /\ Ordered(full) /\ full \in Seq(Refs) /\ n \in Nat
  BY DEF IInv, Typed, Ordered
<1>2. /\ DOMAIN out = 1..Len(out) /\ Len(out) >= n + 1
      /\ \A i \in 1..(n + 1) : out[i] = IF i = 1 THEN Started ELSE Event("text", full[i - 1])
  BY OutOK
<1>3. /\ \A k \in DOMAIN out : out[k].type = "text" <=> k \in 2..(n + 1)
      /\ \A k \in DOMAIN out : out[k].type = "completed" => Everything /\ out[k].data = full
  BY EventsOK
<1> HIDE DEF n
<1>4. \A i \in 2..(n + 1) : i \in DOMAIN out
  <2>1. Len(out) \in Nat
    <3>1. IF at = "ended" THEN Ended ELSE Len(out) = Len(full) + 1
      BY OutOK
    <3>2. IF at = "ended" THEN EndsAs(n + 1, Len(out)) ELSE Len(out) = n + 1
      BY <3>1 DEF Ended, n
    <3>3. QED
      BY <1>1, <3>2 DEF EndsAs
  <2>2. QED
    BY <1>1, <1>2, <2>1
<1>5. texts = [i \in 1..n |-> 1 + i]
  <2>1. {k \in DOMAIN out : out[k].type = "text"} = (1 + 1)..(n + 1)
    BY <1>3, <1>4
  <2>2. Ascending((1 + 1)..(n + 1)) = [i \in 1..((n + 1) - 1) |-> 1 + i]
    <3>1. 1 \in Nat /\ n + 1 \in Nat /\ 1 <= n + 1
      BY <1>1
    <3>2. QED
      BY <3>1, AscendingInterval
  <2>3. (n + 1) - 1 = n
    BY <1>1
  <2>4. QED
    BY <2>1, <2>2, <2>3
<1>6. DOMAIN RoundText = 1..n /\ \A i \in 1..n : RoundText[i] = Event("text", full[i])
  <2>1. RoundText = [j \in DOMAIN texts |-> out[texts[j]]]
    BY DEF RoundText
  <2>2. \A i \in 1..n : out[1 + i] = Event("text", full[i])
    <3>1. ASSUME NEW i \in 1..n PROVE out[1 + i] = Event("text", full[i])
      <4>1. 1 + i \in 1..(n + 1) /\ 1 + i # 1 /\ (1 + i) - 1 = i
        BY <1>1
      <4>2. QED
        BY <1>2, <4>1
    <3>2. QED
      BY <3>1
  <2> HIDE DEF texts
  <2>3. DOMAIN texts = 1..n /\ \A i \in 1..n : texts[i] = 1 + i
    BY <1>5
  <2>4. QED
    BY <2>1, <2>2, <2>3
<1>7. Said = full
  <2>1. Said = [k \in 1..n |-> full[k]]
    BY <1>6 DEF Said, Event
  <2>2. full = [k \in 1..n |-> full[k]]
    BY <1>1 DEF n
  <2>3. QED
    BY <2>1, <2>2
<1>8. VisibleRefs = Heard(adapter, sent, Arriving, 0)
  BY <1>1, ReceivedOK
<1>9. Tells(full, VisibleRefs)
  BY <1>8, ToldOK DEF Told
<1>10. \A i, j \in DOMAIN Said : i < j => Before(Said[i], Said[j])
  BY <1>1, <1>7 DEF Ordered
<1>11. \A k \in DOMAIN out : out[k].type = "completed" => out[k].data = Said /\ ToSet(Said) = VisibleRefs
  BY <1>3, <1>7, <1>8 DEF Everything
<1>12. QED
  BY <1>7, <1>9, <1>10, <1>11 DEF TextIsWire, Tells

\* The calls that are handed over are whole.
LEMMA CallsFollow ==
  ASSUME IInv
  PROVE  CallsAreWhole
<1> DEFINE items == UNION {ToSet(l.items) : l \in ToSet(Received)}
<1>1. Typed
  BY DEF IInv
<1>2. /\ Received \in Seq(Lines) /\ Len(Received) = Arriving /\ Arriving \in 0..Len(sent)
      /\ \A l \in 1..Arriving : Received[l] = sent[l]
      /\ Opened(Received) = Begun(sent, Arriving, 0) /\ items = Got(sent, Arriving, 0)
  BY <1>1, ReceivedOK
<1> HIDE DEF items
<1>3. ASSUME NEW k \in DOMAIN out, out[k].type = "calls"
      PROVE  LET asked == out[k].data
             IN /\ grounded /\ asked # <<>> /\ IsInjective(asked)
                /\ ToSet(asked) = Opened(Received)
                /\ adapter = "openaiRound" =>
                     /\ Last(Received).done
                     /\ \A c \in ToSet(asked) :
                          Piece(c, "args") \in items /\ Piece(c, "bad") \notin items
                /\ adapter = "geminiRound" =>
                     /\ \A c \in ToSet(asked) : Call(c, 1, TRUE) \in items
                     /\ out[k - 1] = Event("parts", asked)
  <2> DEFINE asked == out[k].data
  <2>1. /\ asked \in WholeLists
        /\ adapter = "geminiRound" => out[k - 1] = Event("parts", asked)
    BY <1>3, AskedOK
  <2> HIDE DEF asked
  <2>2. Whole(asked)
    BY <2>1 DEF WholeLists
  <2>3. ASSUME adapter = "openaiRound"
        PROVE  /\ Last(Received).done
               /\ \A c \in ToSet(asked) :
                    Piece(c, "args") \in items /\ Piece(c, "bad") \notin items
    <3>1. /\ Arriving = Len(sent) /\ sent # <<>> /\ sent[Len(sent)].done
          /\ \A c \in ToSet(asked) : PartsOf(c, sent, Arriving, 0) = {"open", "args"}
      BY <2>2, <2>3 DEF Whole
    <3>2. Len(sent) \in 1..Len(sent)
      BY <1>1, <3>1 DEF Typed
    <3>3. Last(Received).done
      BY <1>2, <3>1, <3>2 DEF Last
    <3>4. QED
      BY <1>2, <3>1, <3>3 DEF PartsOf, Parted
  <2>4. QED
    BY <1>2, <2>1, <2>2, <2>3 DEF Whole, asked
<1>4. QED
  BY <1>3 DEF CallsAreWhole, items

\* What a round hands over is whole, and it ends once.
LEMMA RoundFollows ==
  ASSUME IInv
  PROVE  RoundIsWhole
<1>1. TextIsWire /\ CallsAreWhole
  BY TextFollows, CallsFollow
<1>2. RoundsEndOnce
  <2>1. CASE adapter \in Rounds
    BY <2>1, EventsOK
  <2>2. CASE adapter \notin Rounds
    BY <2>2 DEF RoundsEndOnce
  <2>3. QED
    BY <2>1, <2>2
<1>3. QED
  BY <1>1, <1>2 DEF RoundIsWhole

-----------------------------------------------------------------------------
(* What the invariant says of the messages.                                 *)

\* Two calls have two ids.
LEMMA CallIdsDiffer ==
  ASSUME NEW c, NEW d, CallId(c) = CallId(d)
  PROVE  c = d
BY DEF CallId

\* Gemini accepts what follows, and finds the call of a result.
LEMMA KnownOK ==
  ASSUME NEW S, NEW h \in Seq(S), Follows(h), adapter \notin OpenAi, NEW p \in DOMAIN h
  PROVE  /\ GeminiAccepts(Known(h, p), h[p])
         /\ \A c \in Known(h, p) : c.id = CallId(c.n)
         /\ \A q \in 1..(p - 1) : h[q].role = "calls" => ToSet(h[q].calls) \subseteq Known(h, p)
<1>1. p \in Nat /\ \A q \in 1..(p - 1) : q \in DOMAIN h
  OBVIOUS
<1>2. ASSUME NEW q \in 1..(p - 1), h[q].role = "calls"
      PROVE  ToSet(h[q].calls) \subseteq Known(h, p)
  BY <1>2 DEF Known
<1>3. ASSUME NEW c \in Known(h, p) PROVE c.id = CallId(c.n)
  <2>1. PICK q \in 1..(p - 1) : h[q].role = "calls" /\ c \in ToSet(h[q].calls)
    BY DEF Known
  <2>2. PICK k \in DOMAIN h[q].calls : c = h[q].calls[k]
    BY <2>1 DEF ToSet
  <2>3. QED
    BY <1>1, <2>1, <2>2 DEF Follows
<1>4. ASSUME h[p].role = "calls"
      PROVE  /\ Len(h[p].parts) = Len(h[p].calls)
             /\ \A k \in DOMAIN h[p].calls : h[p].parts[k] = h[p].calls[k].n
  <2>1. h[p].calls \in Batch /\ h[p].parts = [k \in 1..Len(h[p].calls) |-> h[p].calls[k].n]
    BY <1>4 DEF Follows
  <2>2. Len(h[p].calls) \in Nat /\ DOMAIN h[p].calls = 1..Len(h[p].calls)
    BY <2>1 DEF Batch
  <2>3. QED
    BY <2>1, <2>2
<1>5. ASSUME h[p].role = "result" PROVE \E c \in Known(h, p) : c.id = h[p].id
  <2>1. PICK q \in 1..(p - 1) : h[q].role = "calls" /\
          \E k \in DOMAIN h[q].calls : h[p].id = h[q].calls[k].id
    BY <1>5 DEF Follows
  <2>2. PICK k \in DOMAIN h[q].calls : h[p].id = h[q].calls[k].id
    BY <2>1
  <2>3. h[q].calls[k] \in ToSet(h[q].calls)
    BY DEF ToSet
  <2>4. QED
    BY <1>2, <2>1, <2>2, <2>3
<1>6. GeminiAccepts(Known(h, p), h[p])
  BY <1>4, <1>5 DEF GeminiAccepts
<1>7. QED
  BY <1>2, <1>3, <1>6

\* Every message of a batch is answered under its own name and id.
LEMMA AnswersFollow ==
  ASSUME Talk
  PROVE  ResultsAnswerCalls
<1>1. history \in Seq(ToSet(history)) /\ Follows(history) /\ body = Body(history)
  BY DEF Talk
<1>2. DOMAIN history = 1..Len(history) /\ Len(history) \in Nat
  BY <1>1
<1>3. ASSUME NEW p \in DOMAIN history, history[p].role = "calls"
      PROVE  /\ DOMAIN history[p].calls = 1..Len(history[p].calls) /\ Len(history[p].calls) \in Nat
             /\ \A k \in DOMAIN history[p].calls :
                  /\ p + k \in DOMAIN history
                  /\ history[p + k] = ToolResult(history[p].calls[k])
                  /\ history[p].calls[k].id = CallId(history[p].calls[k].n)
             /\ adapter \notin OpenAi =>
                  history[p].parts = [k \in 1..Len(history[p].calls) |-> history[p].calls[k].n]
  <2>1. /\ history[p].calls \in Batch
        /\ \A k \in DOMAIN history[p].calls : history[p].calls[k].id = CallId(history[p].calls[k].n)
        /\ adapter \notin OpenAi =>
             history[p].parts = [k \in 1..Len(history[p].calls) |-> history[p].calls[k].n]
        /\ p + Len(history[p].calls) <= Len(history)
        /\ \A k \in DOMAIN history[p].calls : history[p + k] = ToolResult(history[p].calls[k])
    BY <1>1, <1>3 DEF Follows
  <2>2. DOMAIN history[p].calls = 1..Len(history[p].calls) /\ Len(history[p].calls) \in Nat
    BY <2>1 DEF Batch
  <2>3. \A k \in DOMAIN history[p].calls : p + k \in DOMAIN history
    BY <1>2, <2>1, <2>2
  <2>4. QED
    BY <2>1, <2>2, <2>3, Zenon
<1>4. \A c : ToolResult(c).role = "result" /\ ToolResult(c).id = c.id
  BY DEF ToolResult
<1>5. CASE adapter \in OpenAi
  <2>1. /\ body.ok /\ DOMAIN body.messages = DOMAIN history
        /\ \A p \in DOMAIN history : body.messages[p] = OpenAiMessage(history[p])
    <3>1. body = [ok |-> TRUE, messages |-> [k \in DOMAIN history |-> OpenAiMessage(history[k])]]
      BY <1>1, <1>5 DEF Body, OpenAiBody
    <3>2. body.ok = TRUE /\ body.messages = [k \in DOMAIN history |-> OpenAiMessage(history[k])]
      BY <3>1
    <3>3. QED
      BY <3>2
  <2>2. \A m : /\ m.role = "calls" => OpenAiMessage(m) =
                    [role |-> "calls", entries |-> [k \in DOMAIN m.calls |->
                       [name |-> m.calls[k].n, id |-> m.calls[k].id]]]
               /\ m.role = "result" => OpenAiMessage(m) = [role |-> "tool", name |-> None, id |-> m.id]
               /\ m.role \notin {"calls", "result"} => OpenAiMessage(m) = m
    BY DEF OpenAiMessage
  <2>3. Len(body.messages) = Len(history)
    BY <1>2, <2>1
  <2>4. ASSUME NEW p \in DOMAIN body.messages, body.messages[p].role = "calls",
               NEW k \in DOMAIN body.messages[p].entries
        PROVE  /\ body.messages[p + k].role = "tool"
               /\ body.messages[p + k].id = body.messages[p].entries[k].id
               /\ body.messages[p + k].name \in {None, body.messages[p].entries[k].name}
    <3> DEFINE m == history[p]
    <3>1. body.messages[p] = OpenAiMessage(m) /\ p \in DOMAIN history
      BY <2>1
    <3> HIDE DEF m
    <3>2. m.role = "calls"
      BY <2>2, <2>4, <3>1
    <3>3. body.messages[p].entries = [j \in DOMAIN m.calls |-> [name |-> m.calls[j].n, id |-> m.calls[j].id]]
      BY <2>2, <3>1, <3>2
    <3>4. k \in DOMAIN m.calls /\ body.messages[p].entries[k].id = m.calls[k].id
      BY <2>4, <3>3
    <3>5. p + k \in DOMAIN history /\ history[p + k] = ToolResult(m.calls[k])
      BY <1>3, <3>1, <3>2, <3>4 DEF m
    <3>6. body.messages[p + k] = [role |-> "tool", name |-> None, id |-> m.calls[k].id]
      BY <1>4, <2>1, <2>2, <3>5
    <3>7. QED
      BY <3>4, <3>6
  <2>5. QED
    BY <2>1, <2>3, <2>4 DEF ResultsAnswerCalls
<1>6. CASE adapter \notin OpenAi
  <2>1. \A p \in DOMAIN history :
          /\ GeminiAccepts(Known(history, p), history[p])
          /\ \A c \in Known(history, p) : c.id = CallId(c.n)
          /\ \A q \in 1..(p - 1) : history[q].role = "calls" =>
               ToSet(history[q].calls) \subseteq Known(history, p)
    BY <1>1, <1>6, KnownOK
  <2>2. /\ body.ok /\ DOMAIN body.messages = DOMAIN history
        /\ \A p \in DOMAIN history :
             body.messages[p] = GeminiMessage(Known(history, p), history[p])
    <3>1. body = [ok |-> TRUE, messages |-> [p \in DOMAIN history |->
                                               GeminiMessage(Known(history, p), history[p])]]
      BY <1>1, <1>6, <2>1, Zenon DEF Body, GeminiBody
    <3>2. /\ body.ok = TRUE
          /\ body.messages = [p \in DOMAIN history |-> GeminiMessage(Known(history, p), history[p])]
      BY <3>1
    <3>3. QED
      BY <3>2
  <2>3. \A K, m :
          /\ m.role = "calls" => GeminiMessage(K, m) =
               [role |-> "calls", entries |-> [k \in DOMAIN m.parts |->
                  [name |-> m.parts[k], id |-> Native(m.parts[k])]]]
          /\ m.role = "result" => GeminiMessage(K, m) =
               [role |-> "tool", name |-> (CHOOSE c \in K : c.id = m.id).n,
                id |-> Native((CHOOSE c \in K : c.id = m.id).n)]
          /\ m.role \notin {"calls", "result"} => GeminiMessage(K, m) = m
    BY DEF GeminiMessage
  <2>4. Len(body.messages) = Len(history)
    BY <1>2, <2>2
  <2>5. ASSUME NEW p \in DOMAIN body.messages, body.messages[p].role = "calls",
               NEW k \in DOMAIN body.messages[p].entries
        PROVE  /\ body.messages[p + k].role = "tool"
               /\ body.messages[p + k].id = body.messages[p].entries[k].id
               /\ body.messages[p + k].name \in {None, body.messages[p].entries[k].name}
    <3> DEFINE m == history[p]
               K == Known(history, p + k)
    <3>1. body.messages[p] = GeminiMessage(Known(history, p), m) /\ p \in DOMAIN history
      BY <2>2
    <3> HIDE DEF m
    <3>2. m.role = "calls"
      BY <2>3, <2>5, <3>1
    <3>3. body.messages[p].entries = [j \in DOMAIN m.parts |-> [name |-> m.parts[j], id |-> Native(m.parts[j])]]
      BY <2>3, <3>1, <3>2
    <3>4. /\ m.parts = [j \in 1..Len(m.calls) |-> m.calls[j].n]
          /\ DOMAIN m.calls = 1..Len(m.calls)
      BY <1>3, <1>6, <3>1, <3>2 DEF m
    <3>5. /\ k \in DOMAIN m.calls /\ body.messages[p].entries[k].name = m.calls[k].n
          /\ body.messages[p].entries[k].id = Native(m.calls[k].n)
      BY <2>5, <3>3, <3>4
    <3>6. /\ p + k \in DOMAIN history /\ history[p + k] = ToolResult(m.calls[k])
          /\ m.calls[k].id = CallId(m.calls[k].n)
      BY <1>3, <3>1, <3>2, <3>5 DEF m
    <3>7. m.calls[k] \in K
      <4>1. p \in 1..((p + k) - 1)
        BY <1>2, <3>1, <3>4, <3>5
      <4>2. ToSet(m.calls) \subseteq K
        BY <2>1, <3>2, <3>6, <4>1 DEF m
      <4>3. QED
        BY <3>5, <4>2 DEF ToSet
    <3> DEFINE c == CHOOSE c \in K : c.id = m.calls[k].id
    <3>8. c \in K /\ c.id = m.calls[k].id
      BY <3>7
    <3>9. c.n = m.calls[k].n
      <4>1. c.id = CallId(c.n)
        BY <2>1, <3>6, <3>8
      <4>2. QED
        BY <3>6, <3>8, <4>1, CallIdsDiffer
    <3> HIDE DEF c, K
    <3>10. body.messages[p + k] = [role |-> "tool", name |-> c.n, id |-> Native(c.n)]
      BY <1>4, <2>2, <2>3, <3>6 DEF c, K
    <3>11. QED
      BY <3>5, <3>9, <3>10
  <2>6. QED
    BY <2>2, <2>4, <2>5 DEF ResultsAnswerCalls
<1>7. QED
  BY <1>5, <1>6

-----------------------------------------------------------------------------
(* The checks of a provider.                                                *)

\* What is listed has been offered, once, by a model that generates.
Offers(models, items) ==
  /\ IsInjective(models)
  /\ \A id \in ToSet(models) :
       /\ id # "bad"
       /\ \E i \in ToSet(items) : i.id = id /\ (profile.provider = "gemini" => i.generates)

\* The tool call that lets a model use the repository.
ToolCalled ==
  /\ tool = "repo_status" /\ Opened(Received) = {1} /\ Last(out).data = <<1>>

\* A key and a request go only to a URL that has been checked; a round of a check
\* is the first of its conversation; and a verdict about a model stands.
ProbeInv ==
  /\ profile \in Profiles
  /\ stage \in {"idle", "head", "body", "round", "done", "chat"}
  /\ op \in {"none", "discover", "verify", "probe", "health"}
  /\ tool \in {None, "repo_status", "other"}
  /\ verdict.kind \in {"none", "error", "health", "catalog", "model"}
  /\ wire \in Seq([to : {"models", "generate", "stream"}, keyed : BOOLEAN])
  /\ (stage \in {"head", "body", "round"} \/ \E k \in DOMAIN wire : wire[k].keyed) =>
       profile.url = "safe"
  /\ stage # "chat" => adapter \in Rounds /\ InHistory = {}
  /\ stage = "idle" => op \in {"discover", "verify", "health"}
  /\ stage = "body" => op \in {"discover", "verify"} /\ received <= Limit
  /\ stage = "round" => op = "probe"
  /\ reply.size \in Nat /\ received \in Nat /\ reply.items \in Seq(Offered \cup Parts)
  /\ verdict.kind = "model" =>
       stage = "done" /\ (verdict.ok <=> op = "probe") /\ (verdict.tools => ToolCalled)

\* A check that is not about the stream leaves it alone.
LEMMA ProbeIsNext ==
  ASSUME [ProbeNext]_all
  PROVE  [Next]_vars
<1>1. UNCHANGED stream => [Next]_vars
  BY DEF stream, vars
<1>2. CASE Ask
  <2>1. UNCHANGED stream
    BY <1>2 DEF Ask, Concludes, Sends
  <2>2. QED
    BY <1>1, <2>1
<1>3. CASE HeadRefused
  <2>1. UNCHANGED stream
    BY <1>3 DEF HeadRefused, Concludes
  <2>2. QED
    BY <1>1, <2>1
<1>4. CASE HeadAccepted
  <2>1. UNCHANGED stream
    BY <1>4 DEF HeadAccepted, Concludes
  <2>2. QED
    BY <1>1, <2>1
<1>5. ASSUME NEW r \in Replies, HeadWithBody(r) PROVE UNCHANGED stream
  BY <1>5 DEF HeadWithBody, Concludes
<1>6. ASSUME NEW n \in 1..reply.size, Receive(n) PROVE UNCHANGED stream
  BY <1>6 DEF Receive, Concludes
<1>7. CASE NetworkFails
  <2>1. UNCHANGED stream
    BY <1>7 DEF NetworkFails, Concludes
  <2>2. QED
    BY <1>1, <2>1
<1>8. CASE BodyEnds
  <2>1. UNCHANGED stream
    BY <1>8 DEF BodyEnds, Concludes, Sends
  <2>2. QED
    BY <1>1, <2>1
<1>9. ASSUME NEW name \in {"repo_status", "other"}, ProbeEnds(name) PROVE UNCHANGED stream
  BY <1>9 DEF ProbeEnds, Concludes
<1>10. CASE RoundStep
  BY <1>10 DEF RoundStep, Next
<1>11. CASE ChatStep
  BY <1>11 DEF ChatStep
<1>12. CASE UNCHANGED all
  <2>1. UNCHANGED stream
    BY <1>12 DEF all
  <2>2. QED
    BY <1>1, <2>1
<1>13. QED
  BY <1>1, <1>2, <1>3, <1>4, <1>5, <1>6, <1>7, <1>8, <1>9, <1>10, <1>11, <1>12
     DEF ProbeNext

\* A check and a chat begin with their invariants.
LEMMA ProbeInitOK ==
  ProbeInit => IInv /\ ProbeInv
<1> SUFFICES ASSUME ProbeInit PROVE IInv /\ ProbeInv
  OBVIOUS
<1>1. IInv
  BY InitOK DEF ProbeInit
<1>2. /\ wire = <<>> /\ reply = NoReply /\ received = 0 /\ tool = None /\ verdict = NoVerdict
      /\ profile \in Profiles
      /\ \/ stage = "chat" /\ op = "none"
         \/ /\ stage = "idle" /\ op \in {"discover", "verify", "health"}
            /\ adapter = RoundOf(profile.provider)
  BY DEF ProbeInit
<1>3. InHistory = {}
  <2>1. ToSet(<<User>>) = {User} /\ User.role # "calls" /\ history = <<User>>
    BY DEF ToSet, User, ProbeInit, Init
  <2>2. QED
    BY <2>1 DEF InHistory
<1>4. reply.size \in Nat /\ received \in Nat /\ reply.items \in Seq(Offered \cup Parts)
  BY <1>2 DEF NoReply, Reply
<1>5. verdict.kind = "none"
  BY <1>2 DEF NoVerdict, Verdict
<1>6. wire \in Seq([to : {"models", "generate", "stream"}, keyed : BOOLEAN]) /\ DOMAIN wire = {}
  BY <1>2
<1>7. stage = "idle" => adapter \in Rounds
  BY <1>2 DEF RoundOf, Rounds
<1>8. QED
  BY <1>1, <1>2, <1>3, <1>4, <1>5, <1>6, <1>7 DEF ProbeInv

\* The numbers of a set, each at the place that counts those up to it.
LEMMA AscendingOK ==
  ASSUME NEW K \in SUBSET Nat, IsFiniteSet(K)
  PROVE  /\ Cardinality(K) \in Nat
         /\ Ascending(K) \in [1..Cardinality(K) -> K] /\ IsInjective(Ascending(K))
<1> DEFINE upTo(x) == {m \in K : m <= x}
           n == Cardinality(K)
           place == [x \in K |-> Cardinality(upTo(x))]
<1>1. n \in Nat
  BY FS_CardinalityType
<1>2. \A x \in K : IsFiniteSet(upTo(x)) /\ Cardinality(upTo(x)) <= n /\ Cardinality(upTo(x)) \in Nat
  <2>1. \A x \in K : upTo(x) \in SUBSET K
    OBVIOUS
  <2> HIDE DEF upTo
  <2>2. QED
    BY <2>1, FS_Subset, FS_CardinalityType
<1>3. \A x \in K : Cardinality(upTo(x)) # 0
  <2>1. ASSUME NEW x \in K PROVE x \in upTo(x)
    OBVIOUS
  <2> HIDE DEF upTo
  <2>2. QED
    BY <1>2, <2>1, FS_EmptySet
<1>4. place \in [K -> 1..n]
  <2> HIDE DEF upTo, n
  <2>1. QED
    BY <1>1, <1>2, <1>3
<1>5. \A x, y \in K : x < y => place[x] # place[y]
  <2>1. ASSUME NEW x \in K, NEW y \in K, x < y
        PROVE  upTo(x) \in SUBSET upTo(y) /\ upTo(x) # upTo(y)
    <3>1. y \in upTo(y) /\ y \notin upTo(x)
      BY <2>1
    <3>2. \A m \in K : m <= x => m <= y
      BY <2>1
    <3>3. QED
      BY <3>1, <3>2
  <2> HIDE DEF upTo
  <2>2. QED
    BY <1>2, <2>1, FS_Subset
<1>6. place \in Injection(K, 1..n)
  <2> HIDE DEF place
  <2>1. \A x, y \in K : x # y => x < y \/ y < x
    OBVIOUS
  <2>2. \A a, b \in DOMAIN place : place[a] = place[b] => a = b
    BY <1>4, <1>5, <2>1
  <2>3. QED
    BY <1>4, <2>2 DEF Injection, IsInjective
<1>7. IsFiniteSet(1..n) /\ Cardinality(1..n) = n
  BY <1>1, FS_Interval
<1>8. place \in Surjection(K, 1..n)
  <2> HIDE DEF place, n
  <2>1. Cardinality(K) = n
    BY DEF n
  <2>2. QED
    BY <1>6, <1>7, <2>1, FS_Injection
<1>9. \A i \in 1..n : \E x \in K : Cardinality(upTo(x)) = i
  <2> HIDE DEF n
  <2>1. \A i \in 1..n : \E x \in K : place[x] = i
    BY <1>8 DEF Surjection
  <2>2. QED
    BY <2>1
<1>10. Ascending(K) = [i \in 1..n |-> CHOOSE x \in K : Cardinality(upTo(x)) = i]
  BY DEF Ascending
<1>11. \A i \in 1..n : Ascending(K)[i] \in K /\ Cardinality(upTo(Ascending(K)[i])) = i
  <2> HIDE DEF upTo, n
  <2>1. QED
    BY <1>9, <1>10
<1>12. DOMAIN Ascending(K) = 1..n
  BY <1>10
<1>13. IsInjective(Ascending(K))
  <2> HIDE DEF upTo, n
  <2>1. QED
    BY <1>11, <1>12 DEF IsInjective
<1>14. Ascending(K) \in [1..n -> K]
  <2>1. \A f : DOMAIN f = 1..n /\ (\A i \in 1..n : f[i] \in K) /\ f = [i \in 1..n |-> f[i]] =>
                 f \in [1..n -> K]
    OBVIOUS
  <2>2. Ascending(K) = [i \in 1..n |-> Ascending(K)[i]]
    BY <1>10
  <2>3. QED
    BY <1>11, <1>12, <2>1, <2>2
<1>15. QED
  BY <1>1, <1>13, <1>14

\* What is usable of an offer has been offered, and once.
LEMMA UsableOK ==
  ASSUME NEW S, NEW items \in Seq(S)
  PROVE  Offers(Usable(items), items)
<1> DEFINE good(i) == items[i].id # "bad" /\ (profile.provider # "gemini" \/ items[i].generates)
           first(i) == good(i) /\ \A j \in 1..(i - 1) : good(j) => items[j].id # items[i].id
           K == {i \in DOMAIN items : first(i)}
           taken == Ascending(K)
           n == Cardinality(K)
<1>1. K \in SUBSET Nat /\ IsFiniteSet(K) /\ \A i \in K : i \in 1..Len(items)
  <2>1. DOMAIN items = 1..Len(items) /\ IsFiniteSet(1..Len(items))
    BY FS_Interval
  <2>2. K \in SUBSET (1..Len(items))
    BY <2>1
  <2> HIDE DEF K
  <2>3. IsFiniteSet(K)
    BY <2>1, <2>2, FS_Subset
  <2>4. \A i \in K : i \in 1..Len(items) /\ i \in Nat
    BY <2>2
  <2>5. QED
    BY <2>3, <2>4
<1>2. /\ taken \in [1..n -> K] /\ IsInjective(taken)
  <2> HIDE DEF K
  <2>1. QED
    BY <1>1, AscendingOK
<1>3. Usable(items) = [k \in DOMAIN taken |-> items[taken[k]].id]
  BY DEF Usable
<1>4. ASSUME NEW i \in K, NEW j \in K, items[i].id = items[j].id PROVE i = j
  <2>1. first(i) /\ first(j) /\ good(i) /\ good(j) /\ i \in Nat /\ j \in Nat /\ i >= 1 /\ j >= 1
    BY <1>1
  <2> HIDE DEF K, good
  <2>2. ~(i < j)
    <3>1. i < j => i \in 1..(j - 1)
      BY <2>1
    <3>2. QED
      BY <1>4, <2>1, <3>1
  <2>3. ~(j < i)
    <3>1. j < i => j \in 1..(i - 1)
      BY <2>1
    <3>2. QED
      BY <1>4, <2>1, <3>1
  <2>4. QED
    BY <2>1, <2>2, <2>3
<1>5. \A i \in K : good(i)
  OBVIOUS
<1> HIDE DEF K, taken, good, first, n
<1>6. DOMAIN Usable(items) = 1..n /\ \A k \in 1..n : taken[k] \in K /\ Usable(items)[k] = items[taken[k]].id
  BY <1>2, <1>3
<1>7. IsInjective(Usable(items))
  <2>1. \A k, l \in 1..n : taken[k] = taken[l] => k = l
    BY <1>2 DEF IsInjective
  <2>2. \A k, l \in 1..n : Usable(items)[k] = Usable(items)[l] => k = l
    BY <1>4, <1>6, <2>1
  <2>3. QED
    BY <1>6, <2>2 DEF IsInjective
<1>8. ASSUME NEW id \in ToSet(Usable(items))
      PROVE  /\ id # "bad"
             /\ \E i \in ToSet(items) : i.id = id /\ (profile.provider = "gemini" => i.generates)
  <2>1. PICK k \in 1..n : id = Usable(items)[k]
    BY <1>6 DEF ToSet
  <2>2. taken[k] \in K /\ id = items[taken[k]].id /\ good(taken[k]) /\ taken[k] \in 1..Len(items)
    BY <1>1, <1>5, <1>6, <2>1
  <2>3. items[taken[k]] \in ToSet(items)
    BY <2>2 DEF ToSet
  <2>4. QED
    BY <2>2, <2>3 DEF good
<1>9. QED
  BY <1>7, <1>8 DEF Offers

\* What of the stream a verdict or a round depends on.
LEMMA StreamKept ==
  ASSUME UNCHANGED stream
  PROVE  /\ adapter' = adapter /\ InHistory' = InHistory /\ at' = at /\ out' = out
         /\ Received' = Received /\ Opened(Received)' = Opened(Received)
         /\ Last(out)' = Last(out)
<1>1. /\ adapter' = adapter /\ history' = history /\ sent' = sent /\ delivered' = delivered
      /\ at' = at /\ out' = out
  BY DEF stream, request, network
<1>2. InHistory' = InHistory
  BY <1>1 DEF InHistory
<1>3. Received' = Received
  BY <1>1 DEF Received
<1>4. Opened(Received)' = Opened(Received)
  BY <1>3 DEF Opened
<1>5. QED
  BY <1>1, <1>2, <1>3, <1>4 DEF Last

\* What a check may keep of a response.
Kept == reply.size \in Nat /\ received \in Nat /\ reply.items \in Seq(Offered \cup Parts)

\* A check that is concluded.
LEMMA ConcludesOK ==
  ASSUME ProbeInv, stage # "chat", NEW result, Concludes(result), Kept',
         op' \in {"none", "discover", "verify", "probe", "health"},
         tool' \in {None, "repo_status", "other"},
         result.kind \in {"none", "error", "health", "catalog", "model"},
         result.kind = "model" => (result.ok <=> op' = "probe") /\ (result.tools => ToolCalled')
  PROVE  ProbeInv'
<1>1. /\ stage' = "done" /\ verdict' = result /\ profile' = profile /\ wire' = wire
      /\ UNCHANGED stream
  BY DEF Concludes
<1>2. adapter' = adapter /\ InHistory' = InHistory
  BY <1>1, StreamKept
<1>3. /\ profile \in Profiles
      /\ wire \in Seq([to : {"models", "generate", "stream"}, keyed : BOOLEAN])
      /\ (\E k \in DOMAIN wire : wire[k].keyed) => profile.url = "safe"
      /\ adapter \in Rounds /\ InHistory = {}
  BY DEF ProbeInv
<1>4. /\ reply'.size \in Nat /\ received' \in Nat /\ reply'.items \in Seq((Offered \cup Parts)')
  BY DEF Kept
<1>5. /\ verdict'.kind \in {"none", "error", "health", "catalog", "model"}
      /\ verdict'.kind = "model" =>
           stage' = "done" /\ (verdict'.ok <=> op' = "probe") /\ (verdict'.tools => ToolCalled')
  BY <1>1
<1> HIDE DEF ToolCalled
<1>6. QED
  BY <1>1, <1>2, <1>3, <1>4, <1>5 DEF ProbeInv

\* A request that is sent.
LEMMA SendsOK ==
  ASSUME ProbeInv, stage \notin {"chat", "done"}, profile.url = "safe", UNCHANGED tool, Kept',
         NEW operation \in {"discover", "verify", "probe", "health"}, Sends(operation)
  PROVE  ProbeInv'
<1>1. /\ stage' = "head" /\ op' = operation /\ profile' = profile /\ verdict' = verdict
      /\ wire' = Append(wire, [to |-> Endpoint(operation), keyed |-> profile.key = "good"])
      /\ UNCHANGED stream
  BY DEF Sends
<1>2. adapter' = adapter /\ InHistory' = InHistory
  BY <1>1, StreamKept
<1>3. wire' \in Seq([to : {"models", "generate", "stream"}, keyed : BOOLEAN])
  <2>1. Endpoint(operation) \in {"models", "generate", "stream"}
    BY DEF Endpoint
  <2>2. [to |-> Endpoint(operation), keyed |-> profile.key = "good"]
          \in [to : {"models", "generate", "stream"}, keyed : BOOLEAN]
    BY <2>1
  <2>3. wire \in Seq([to : {"models", "generate", "stream"}, keyed : BOOLEAN])
    BY DEF ProbeInv
  <2>4. QED
    BY <1>1, <2>2, <2>3
<1>4. /\ profile \in Profiles /\ adapter \in Rounds /\ InHistory = {}
      /\ tool \in {None, "repo_status", "other"}
      /\ verdict.kind \in {"none", "error", "health", "catalog", "model"}
      /\ verdict.kind # "model"
  BY DEF ProbeInv
<1>5. reply'.size \in Nat /\ received' \in Nat /\ reply'.items \in Seq((Offered \cup Parts)')
  BY DEF Kept
<1>6. QED
  BY <1>1, <1>2, <1>3, <1>4, <1>5 DEF ProbeInv

\* A request that is not refused goes to a URL that has been checked.
LEMMA AskStep ==
  ASSUME ProbeInv, Ask
  PROVE  ProbeInv'
<1>1. /\ stage = "idle" /\ UNCHANGED <<reply, received, tool>> /\ op \in {"discover", "verify", "health"}
      /\ tool \in {None, "repo_status", "other"}
  BY DEF Ask, ProbeInv
<1>2. Kept'
  BY <1>1 DEF Kept, ProbeInv
<1>3. CASE Concludes(Health(FALSE)) /\ UNCHANGED op
  <2>1. Health(FALSE).kind = "health"
    BY DEF Health, Verdict
  <2>2. QED
    BY <1>1, <1>2, <1>3, <2>1, ConcludesOK
<1>4. CASE Concludes(Error(Refusal)) /\ UNCHANGED op
  <2>1. Error(Refusal).kind = "error"
    BY DEF Error, Verdict
  <2>2. QED
    BY <1>1, <1>2, <1>4, <2>1, ConcludesOK
<1>5. CASE Refusal = None /\ Sends(op)
  <2>1. profile.url = "safe"
    <3>1. profile.url \in {"safe", "unsafe"}
      BY DEF ProbeInv, Profiles
    <3>2. UrlError = None
      BY <1>5, NoRefusalAssumption DEF Refusal
    <3>3. QED
      BY <3>1, <3>2, NoRefusalAssumption DEF UrlError
  <2>2. QED
    BY <1>1, <1>2, <1>5, <2>1, SendsOK
<1>6. QED
  BY <1>3, <1>4, <1>5 DEF Ask

\* The head of a response.
LEMMA HeadStep ==
  ASSUME ProbeInv,
         HeadRefused \/ HeadAccepted \/ NetworkFails \/ \E r \in Replies : HeadWithBody(r)
  PROVE  ProbeInv'
<1>1. /\ stage \in {"head", "body"}
      /\ op \in {"none", "discover", "verify", "probe", "health"}
      /\ tool \in {None, "repo_status", "other"} /\ UNCHANGED <<op, tool>>
  BY DEF HeadRefused, HeadAccepted, NetworkFails, HeadWithBody, ProbeInv
<1>2. Kept
  BY DEF ProbeInv, Kept
<1>3. /\ Health(TRUE).kind = "health" /\ Health(FALSE).kind = "health"
      /\ \A code : Error(code).kind = "error"
  BY DEF Health, Error, Verdict
<1>4. CASE HeadRefused \/ NetworkFails
  <2>1. \/ Concludes(IF op = "health" THEN Health(FALSE) ELSE Error("HTTP_STATUS"))
        \/ Concludes(IF op = "health" THEN Health(FALSE) ELSE Error("NETWORK_ERROR"))
    BY <1>4 DEF HeadRefused, NetworkFails
  <2>2. Kept'
    BY <1>2, <1>4 DEF HeadRefused, NetworkFails, Kept
  <2>3. CASE op = "health"
    <3>1. Concludes(Health(FALSE))
      BY <2>1, <2>3
    <3>2. QED
      BY <1>1, <1>3, <2>2, <3>1, ConcludesOK
  <2>4. CASE op # "health"
    <3>1. Concludes(Error("HTTP_STATUS")) \/ Concludes(Error("NETWORK_ERROR"))
      BY <2>1, <2>4
    <3>2. QED
      BY <1>1, <1>3, <2>2, <3>1, ConcludesOK
  <2>5. QED
    BY <2>3, <2>4
<1>5. CASE HeadAccepted
  <2>1. Kept'
    BY <1>2, <1>5 DEF HeadAccepted, Kept
  <2>2. CASE op = "health"
    <3>1. Concludes(Health(TRUE))
      BY <1>5, <2>2 DEF HeadAccepted
    <3>2. QED
      BY <1>1, <1>3, <2>1, <3>1, ConcludesOK
  <2>3. CASE op # "health"
    <3>1. /\ stage = "head" /\ op = "probe" /\ stage' = "round" /\ UNCHANGED <<profile, wire, verdict, stream>>
          /\ UNCHANGED <<op, reply, received, tool>>
      BY <1>5, <2>3 DEF HeadAccepted
    <3>2. adapter' = adapter /\ InHistory' = InHistory
      BY <3>1, StreamKept
    <3>3. QED
      BY <3>1, <3>2 DEF ProbeInv
  <2>4. QED
    BY <2>2, <2>3
<1>6. ASSUME NEW r \in Replies, HeadWithBody(r) PROVE ProbeInv'
  <2>1. r.size \in Nat /\ r.items \in Seq(Offered \cup Parts)
    <3>1. Limit \in Nat /\ MaxItems \in Nat
      BY ProbeAssumption DEF Limit
    <3>2. Items \subseteq Offered \cup Parts
      BY DEF Items
    <3>3. SeqOf(Items, MaxItems) \subseteq Seq(Offered \cup Parts)
      <4>1. ASSUME NEW s \in SeqOf(Items, MaxItems) PROVE s \in Seq(Offered \cup Parts)
        <5>1. PICK m \in 0..MaxItems : s \in [1..m -> Items]
          BY DEF SeqOf
        <5>2. m \in Nat /\ s \in [1..m -> Offered \cup Parts]
          BY <3>1, <3>2, <5>1
        <5>3. QED
          BY <5>2
      <4>2. QED
        BY <4>1
    <3>5. <<>> \in Seq(Offered \cup Parts)
      OBVIOUS
    <3>6. 1..(Limit + 1) \subseteq Nat /\ 1..Limit \subseteq Nat
      BY <3>1
    <3>7. r.size \in Nat /\ (r.items = <<>> \/ r.items \in SeqOf(Items, MaxItems))
      BY <1>6, <3>6 DEF Replies, Reply
    <3>8. QED
      BY <3>3, <3>5, <3>7
  <2>2. /\ stage = "head" /\ op \in {"discover", "verify"} /\ reply' = r /\ received' = 0
        /\ UNCHANGED <<op, tool>>
    BY <1>6 DEF HeadWithBody
  <2>3. Kept'
    BY <2>1, <2>2 DEF Kept, Offered, Parts
  <2>4. CASE Concludes(Error("RESPONSE_TOO_LARGE"))
    BY <1>1, <1>3, <2>3, <2>4, ConcludesOK
  <2>5. CASE stage' = "body" /\ UNCHANGED <<profile, wire, verdict, stream>>
    <3>1. adapter' = adapter /\ InHistory' = InHistory
      BY <2>5, StreamKept
    <3>2. Limit' \in Nat /\ received' <= Limit'
      BY <2>2, ProbeAssumption DEF Limit
    <3>3. reply'.size \in Nat /\ received' \in Nat /\ reply'.items \in Seq((Offered \cup Parts)')
      BY <2>3 DEF Kept
    <3>4. QED
      BY <2>2, <2>5, <3>1, <3>2, <3>3 DEF ProbeInv
  <2>6. QED
    BY <1>6, <2>4, <2>5 DEF HeadWithBody
<1>7. QED
  BY <1>4, <1>5, <1>6

\* A piece of a body that takes it over its limit is not kept.
LEMMA ReceiveStep ==
  ASSUME ProbeInv, NEW n \in 1..reply.size, Receive(n)
  PROVE  ProbeInv'
<1>1. /\ stage = "body" /\ op \in {"discover", "verify"} /\ Kept
      /\ tool \in {None, "repo_status", "other"}
      /\ received' = received + n /\ UNCHANGED <<op, reply, tool>>
  BY DEF Receive, ProbeInv, Kept
<1>2. Kept'
  BY <1>1 DEF Kept, Offered, Parts
<1>3. CASE Concludes(Error("RESPONSE_TOO_LARGE"))
  <2>1. Error("RESPONSE_TOO_LARGE").kind = "error"
    BY DEF Error, Verdict
  <2>2. QED
    BY <1>1, <1>2, <1>3, <2>1, ConcludesOK
<1>4. CASE ~(received' > Limit) /\ UNCHANGED <<profile, stage, wire, verdict, stream>>
  <2>1. adapter' = adapter /\ InHistory' = InHistory
    BY <1>4, StreamKept
  <2>2. received' \in Nat /\ reply'.size \in Nat /\ reply'.items \in Seq((Offered \cup Parts)')
    BY <1>2 DEF Kept
  <2>3. Limit \in Nat /\ Limit' = Limit
    BY <1>1, ProbeAssumption DEF Limit
  <2>4. received' <= Limit'
    BY <1>4, <2>2, <2>3
  <2>5. QED
    BY <1>1, <1>4, <2>1, <2>2, <2>4 DEF ProbeInv
<1>5. QED
  BY <1>3, <1>4 DEF Receive

\* A body that has ended is an error, a list, an answer, or not one.
LEMMA BodyEndsStep ==
  ASSUME ProbeInv, BodyEnds
  PROVE  ProbeInv'
<1>1. /\ stage = "body" /\ op \in {"discover", "verify"} /\ profile.url = "safe"
      /\ tool \in {None, "repo_status", "other"} /\ UNCHANGED tool
      /\ reply' = NoReply /\ received' = 0
  BY DEF BodyEnds, ProbeInv
<1>2. Kept'
  BY <1>1 DEF Kept, NoReply, Reply
<1>3. ASSUME NEW code, Concludes(Error(code)), UNCHANGED op PROVE ProbeInv'
  <2>1. Error(code).kind = "error"
    BY DEF Error, Verdict
  <2>2. QED
    BY <1>1, <1>2, <1>3, <2>1, ConcludesOK
<1>4. ASSUME NEW models, Concludes(Catalog(models)), UNCHANGED op PROVE ProbeInv'
  <2>1. Catalog(models).kind = "catalog"
    BY DEF Catalog, Verdict
  <2>2. QED
    BY <1>1, <1>2, <1>4, <2>1, ConcludesOK
<1>5. ASSUME op = "verify", Concludes(Model(FALSE, FALSE)), UNCHANGED op PROVE ProbeInv'
  <2>1. Model(FALSE, FALSE).kind = "model" /\ ~Model(FALSE, FALSE).ok /\ ~Model(FALSE, FALSE).tools
    BY DEF Model, Verdict
  <2>2. QED
    BY <1>1, <1>2, <1>5, <2>1, ConcludesOK
<1>6. ASSUME Sends("probe") PROVE ProbeInv'
  BY <1>1, <1>2, <1>6, SendsOK
<1>7. \/ UNCHANGED op /\ \E code : Concludes(Error(code))
      \/ UNCHANGED op /\ \E models : Concludes(Catalog(models))
      \/ UNCHANGED op /\ op = "verify" /\ Concludes(Model(FALSE, FALSE))
      \/ Sends("probe")
  <2>1. CASE UNCHANGED op /\ Concludes(Error("INVALID_JSON"))
    BY <2>1
  <2>2. CASE UNCHANGED op /\ Concludes(IF reply.form = "other" THEN Error("INVALID_SCHEMA")
                                       ELSE Listed(Usable(reply.items)))
    <3>1. \/ Concludes(Error("INVALID_SCHEMA"))
          \/ Concludes(Error("DISCOVERY_EMPTY"))
          \/ Concludes(Catalog(Usable(reply.items)))
      BY <2>2 DEF Listed
    <3>2. QED
      BY <2>2, <3>1
  <2>3. CASE op = "verify" /\ IF HasText(reply.items) THEN Sends("probe")
                              ELSE Concludes(Model(FALSE, FALSE)) /\ UNCHANGED op
    BY <2>3
  <2>4. QED
    BY <2>1, <2>2, <2>3 DEF BodyEnds
<1>8. QED
  BY <1>3, <1>4, <1>5, <1>6, <1>7

\* The only call of a first round is the first one, and has been opened.
LEMMA OneCall ==
  ASSUME IInv, InHistory = {}, Last(out).type = "calls", Len(Last(out).data) = 1
  PROVE  Opened(Received) = {1} /\ Last(out).data = <<1>>
<1> DEFINE k == Len(out)
           asked == Last(out).data
<1>1. k \in DOMAIN out /\ Last(out) = out[k]
  <2>1. DOMAIN out = 1..Len(out) /\ Len(out) >= Len(full) + 1 /\ full \in Seq(Refs)
    BY OutOK
  <2>2. Len(full) \in Nat
    BY <2>1
  <2>3. QED
    BY <2>1, <2>2 DEF Last
<1>2. asked \in WholeLists
  BY <1>1, AskedOK
<1>3. asked \in Seq(Calls) /\ ToSet(asked) = Begun(sent, Arriving, 0)
  BY <1>2 DEF WholeLists, CallLists, Whole
<1>4. Typed /\ Numbered
  BY DEF IInv
<1>5. Arriving \in 0..Len(sent) /\ Opened(Received) = Begun(sent, Arriving, 0)
  BY <1>4, ReceivedOK
<1>6. PICK n \in Nat : Begun(sent, Arriving, 0) \cup InHistory = 1..n
  BY <1>4, <1>5 DEF Numbered
<1>7. ToSet(asked) = {asked[1]} /\ asked = <<asked[1]>>
  BY <1>3 DEF ToSet
<1>8. asked[1] = 1
  <2>1. {asked[1]} = 1..n
    BY <1>3, <1>6, <1>7
  <2>2. asked[1] \in 1..n /\ \A i \in 1..n : i = asked[1]
    BY <2>1
  <2>3. 1 \in 1..n
    BY <2>2
  <2>4. QED
    BY <2>2, <2>3
<1>9. QED
  BY <1>3, <1>5, <1>7, <1>8

\* The probe has ended: what it tells of tools is what the round asked for.
LEMMA ProbeEndsStep ==
  ASSUME IInv, ProbeInv, NEW name \in {"repo_status", "other"}, ProbeEnds(name)
  PROVE  ProbeInv'
<1>1. /\ stage = "round" /\ op = "probe" /\ at = "ended" /\ Kept
      /\ adapter \in Rounds /\ InHistory = {}
      /\ tool' = (IF Last(out).type = "calls" THEN name ELSE None)
      /\ UNCHANGED <<op, reply, received>>
  BY DEF ProbeEnds, ProbeInv, Kept
<1>2. Kept' /\ tool' \in {None, "repo_status", "other"}
  BY <1>1 DEF Kept, Offered, Parts
<1>3. Last(out).type \in {"completed", "calls", "failed"}
  BY <1>1, EventsOK
<1>4. CASE Last(out).type = "failed"
  <2>1. Concludes(Error(Last(out).data))
    BY <1>4 DEF ProbeEnds
  <2>2. Error(Last(out).data).kind = "error"
    BY DEF Error, Verdict
  <2>3. QED
    BY <1>1, <1>2, <2>1, <2>2, ConcludesOK
<1>5. CASE Last(out).type = "completed"
  <2>1. Concludes(Model(TRUE, FALSE))
    BY <1>5 DEF ProbeEnds
  <2>2. Model(TRUE, FALSE).kind = "model" /\ Model(TRUE, FALSE).ok /\ ~Model(TRUE, FALSE).tools
    BY DEF Model, Verdict
  <2>3. QED
    BY <1>1, <1>2, <2>1, <2>2, ConcludesOK
<1>6. CASE Last(out).type = "calls"
  <2> DEFINE trusted == Len(Last(out).data) = 1 /\ name = "repo_status"
  <2>1. Concludes(Model(TRUE, trusted))
    BY <1>6 DEF ProbeEnds
  <2>2. trusted => ToolCalled'
    <3>1. ASSUME trusted PROVE ToolCalled'
      <4>1. Opened(Received) = {1} /\ Last(out).data = <<1>>
        BY <1>1, <1>6, <3>1, OneCall
      <4>2. Opened(Received)' = Opened(Received) /\ Last(out)' = Last(out)
        BY <2>1, StreamKept DEF Concludes
      <4>3. tool' = "repo_status"
        BY <1>1, <1>6, <3>1
      <4>4. QED
        BY <4>1, <4>2, <4>3 DEF ToolCalled
    <3>2. QED
      BY <3>1
  <2>3. /\ Model(TRUE, trusted).kind = "model" /\ Model(TRUE, trusted).ok
        /\ Model(TRUE, trusted).tools => trusted
    BY DEF Model, Verdict
  <2> HIDE DEF trusted
  <2>4. QED
    BY <1>1, <1>2, <2>1, <2>2, <2>3, ConcludesOK
<1>7. QED
  BY <1>3, <1>4, <1>5, <1>6

\* A step of the stream leaves the check alone.
LEMMA StreamStep ==
  ASSUME ProbeInv, RoundStep \/ ChatStep \/ UNCHANGED all
  PROVE  ProbeInv'
<1>1. UNCHANGED check
  BY DEF RoundStep, ChatStep, all
<1>2. /\ profile' = profile /\ op' = op /\ stage' = stage /\ wire' = wire /\ reply' = reply
      /\ received' = received /\ tool' = tool /\ verdict' = verdict
  BY <1>1 DEF check
<1>3. stage # "chat" => adapter' = adapter /\ InHistory' = InHistory
  <2>1. CASE RoundStep
    <3>1. UNCHANGED request
      BY <2>1 DEF RoundStep, Write, Chunk, EndOfBody, ReadError, TakeLine, TakeDone, EndsNow
    <3>2. QED
      BY <3>1 DEF request, InHistory
  <2>2. CASE ChatStep
    BY <2>2 DEF ChatStep
  <2>3. CASE UNCHANGED all
    <3>1. UNCHANGED stream
      BY <2>3 DEF all
    <3>2. QED
      BY <3>1, StreamKept
  <2>4. QED
    BY <2>1, <2>2, <2>3
<1>4. verdict.kind = "model" => UNCHANGED stream
  <2>1. verdict.kind = "model" => stage = "done"
    BY DEF ProbeInv
  <2>2. QED
    BY <2>1 DEF RoundStep, ChatStep, all
<1>5. verdict.kind = "model" /\ ToolCalled => ToolCalled'
  <2>1. UNCHANGED stream => Opened(Received)' = Opened(Received) /\ Last(out)' = Last(out)
    BY StreamKept
  <2>2. QED
    BY <1>2, <1>4, <2>1 DEF ToolCalled
<1>6. Limit' = Limit
  BY <1>2 DEF Limit
<1> HIDE DEF ToolCalled
<1>7. QED
  BY <1>2, <1>3, <1>5, <1>6 DEF ProbeInv, Offered, Parts, Profiles

\* Every step of a check keeps what is known of it.
LEMMA ProbeNextOK ==
  ASSUME IInv, ProbeInv, [ProbeNext]_all
  PROVE  ProbeInv'
<1>1. CASE Ask
  BY <1>1, AskStep
<1>2. CASE HeadRefused \/ HeadAccepted \/ NetworkFails \/ \E r \in Replies : HeadWithBody(r)
  BY <1>2, HeadStep
<1>3. CASE \E n \in 1..reply.size : Receive(n)
  BY <1>3, ReceiveStep
<1>4. CASE BodyEnds
  BY <1>4, BodyEndsStep
<1>5. CASE \E name \in {"repo_status", "other"} : ProbeEnds(name)
  BY <1>5, ProbeEndsStep
<1>6. CASE RoundStep \/ ChatStep \/ UNCHANGED all
  BY <1>6, StreamStep
<1>7. QED
  BY <1>1, <1>2, <1>3, <1>4, <1>5, <1>6 DEF ProbeNext

-----------------------------------------------------------------------------
(* What the invariants say of a check.                                      *)

\* The types and limits of a check.
LEMMA ProbeTypeFollows ==
  ASSUME ProbeInv
  PROVE  ProbeTypeOK
BY DEF ProbeInv, ProbeTypeOK

\* A verdict is given while the stream rests.
LEMMA DoneStep ==
  ASSUME [ProbeNext]_all, stage' = "done"
  PROVE  UNCHANGED stream
<1>1. ASSUME NEW result, Concludes(result) PROVE UNCHANGED stream
  BY <1>1 DEF Concludes
<1>2. CASE Ask
  BY <1>2 DEF Ask, Concludes, Sends
<1>3. CASE HeadRefused \/ HeadAccepted \/ NetworkFails
  BY <1>3 DEF HeadRefused, HeadAccepted, NetworkFails, Concludes
<1>4. ASSUME NEW r \in Replies, HeadWithBody(r) PROVE UNCHANGED stream
  BY <1>4 DEF HeadWithBody, Concludes
<1>5. ASSUME NEW n \in 1..reply.size, Receive(n) PROVE UNCHANGED stream
  BY <1>5 DEF Receive, Concludes
<1>6. CASE BodyEnds
  BY <1>6 DEF BodyEnds, Concludes, Sends
<1>7. ASSUME NEW name \in {"repo_status", "other"}, ProbeEnds(name) PROVE UNCHANGED stream
  BY <1>7 DEF ProbeEnds, Concludes
<1>8. CASE RoundStep \/ ChatStep
  BY <1>8 DEF RoundStep, ChatStep, check
<1>9. CASE UNCHANGED all
  BY <1>9 DEF all
<1>10. QED
  BY <1>2, <1>3, <1>4, <1>5, <1>6, <1>7, <1>8, <1>9 DEF ProbeNext

\* What a check newly tells has been seen in a body that arrived whole.
Seen ==
  /\ verdict'.kind = "catalog" /\ verdict # verdict' => CatalogIsEarned(verdict'.models)
  /\ op' = "probe" /\ op # op' => Arrived(VerifyLimit) /\ HasText(reply.items)

\* Only the end of a body is the end of a search or the beginning of a probe.
LEMMA SeenElsewhere ==
  ASSUME IInv, ProbeInv, [ProbeNext]_all, ~BodyEnds
  PROVE  op' = op /\ (verdict' = verdict \/ verdict'.kind # "catalog")
<1>1. /\ Health(TRUE).kind = "health" /\ Health(FALSE).kind = "health"
      /\ \A code : Error(code).kind = "error"
  BY DEF Health, Error, Verdict
<1>2. CASE Ask
  <2>1. op' = op
    BY <1>2 DEF Ask, Sends
  <2>2. \/ Concludes(Health(FALSE)) \/ Concludes(Error(Refusal)) \/ verdict' = verdict
    BY <1>2 DEF Ask, Sends
  <2>3. QED
    BY <1>1, <2>1, <2>2 DEF Concludes
<1>3. CASE HeadRefused \/ NetworkFails
  <2>1. \/ Concludes(Health(FALSE)) \/ Concludes(Error("HTTP_STATUS"))
        \/ Concludes(Error("NETWORK_ERROR"))
    BY <1>3 DEF HeadRefused, NetworkFails
  <2>2. QED
    BY <1>1, <1>3, <2>1 DEF Concludes, HeadRefused, NetworkFails
<1>4. CASE HeadAccepted
  <2>1. Concludes(Health(TRUE)) \/ verdict' = verdict
    BY <1>4 DEF HeadAccepted
  <2>2. QED
    BY <1>1, <1>4, <2>1 DEF Concludes, HeadAccepted
<1>5. ASSUME \/ \E r \in Replies : HeadWithBody(r)
             \/ \E n \in 1..reply.size : Receive(n)
      PROVE  op' = op /\ (verdict' = verdict \/ verdict'.kind # "catalog")
  <2>1. op' = op /\ (Concludes(Error("RESPONSE_TOO_LARGE")) \/ verdict' = verdict)
    BY <1>5 DEF HeadWithBody, Receive
  <2>2. QED
    BY <1>1, <2>1 DEF Concludes
<1>6. ASSUME NEW name \in {"repo_status", "other"}, ProbeEnds(name)
      PROVE  op' = op /\ (verdict' = verdict \/ verdict'.kind # "catalog")
  <2>1. op' = op /\ at = "ended" /\ adapter \in Rounds
    BY <1>6 DEF ProbeEnds, ProbeInv
  <2>2. Last(out).type \in {"completed", "calls", "failed"}
    BY <1>6, <2>1, EventsOK
  <2>3. CASE Last(out).type = "failed"
    <3>1. Concludes(Error(Last(out).data))
      BY <1>6, <2>3 DEF ProbeEnds
    <3>2. QED
      BY <1>1, <2>1, <3>1 DEF Concludes
  <2>4. CASE Last(out).type # "failed"
    <3>1. verdict'.kind = "model"
      <4>1. CASE Last(out).type = "completed"
        <5>1. Concludes(Model(TRUE, FALSE))
          BY <1>6, <4>1 DEF ProbeEnds
        <5>2. QED
          BY <5>1 DEF Concludes, Model, Verdict
      <4>2. CASE Last(out).type = "calls"
        <5>1. Concludes(Model(TRUE, Len(Last(out).data) = 1 /\ name = "repo_status"))
          BY <1>6, <4>2 DEF ProbeEnds
        <5>2. QED
          BY <5>1 DEF Concludes, Model, Verdict
      <4>3. QED
        BY <2>2, <2>4, <4>1, <4>2
    <3>2. QED
      BY <2>1, <3>1
  <2>5. QED
    BY <2>3, <2>4
<1>7. CASE RoundStep \/ ChatStep \/ UNCHANGED all
  BY <1>7 DEF RoundStep, ChatStep, all, check
<1>8. QED
  BY <1>2, <1>3, <1>4, <1>5, <1>6, <1>7 DEF ProbeNext

\* A list that is told is what the whole body offers, a probe is sent for an
\* answer that is a text.
LEMMA SeenAtTheEnd ==
  ASSUME ProbeInv, BodyEnds
  PROVE  Seen
<1>1. stage = "body" /\ received <= Limit /\ Kept
  BY DEF BodyEnds, ProbeInv, Kept
<1>2. CASE op' = "probe" /\ op # op'
  <2>1. /\ received = reply.size /\ op = "verify" /\ HasText(reply.items) /\ Sends("probe")
    BY <1>2 DEF BodyEnds
  <2>2. Arrived(VerifyLimit) /\ verdict' = verdict
    BY <1>1, <2>1 DEF Arrived, Limit, Sends
  <2>3. QED
    BY <2>1, <2>2 DEF Seen
<1>3. CASE ~(op' = "probe" /\ op # op') /\ verdict'.kind = "catalog" /\ verdict # verdict'
  <2>1. /\ \A code : Error(code).kind # "catalog"
        /\ Model(FALSE, FALSE).kind # "catalog"
        /\ \A models : Catalog(models).models = models
    BY DEF Error, Model, Catalog, Verdict
  <2>2. ~Concludes(Error("INVALID_JSON")) /\ ~Concludes(Model(FALSE, FALSE)) /\ ~Sends("probe")
    BY <1>3, <2>1 DEF Concludes, Sends
  <2>3. /\ received = reply.size /\ op = "discover"
        /\ Concludes(IF reply.form = "other" THEN Error("INVALID_SCHEMA")
                     ELSE Listed(Usable(reply.items)))
    BY <2>2 DEF BodyEnds
  <2>4. Usable(reply.items) # <<>> /\ Concludes(Catalog(Usable(reply.items)))
    BY <1>3, <2>1, <2>3 DEF Listed, Concludes
  <2>5. verdict'.models = Usable(reply.items)
    BY <2>1, <2>4 DEF Concludes
  <2>6. Offers(Usable(reply.items), reply.items)
    BY <1>1, UsableOK DEF Kept
  <2>7. Arrived(DiscoverLimit)
    BY <1>1, <2>3 DEF Arrived, Limit
  <2>8. CatalogIsEarned(Usable(reply.items))
    BY <2>4, <2>6, <2>7 DEF CatalogIsEarned, Offers
  <2>9. QED
    BY <1>3, <2>5, <2>8 DEF Seen
<1>4. CASE ~(op' = "probe" /\ op # op') /\ ~(verdict'.kind = "catalog" /\ verdict # verdict')
  BY <1>4 DEF Seen
<1>5. QED
  BY <1>2, <1>3, <1>4

\* What the setup is told has been seen.
LEMMA VerdictStep ==
  ASSUME IInv, ProbeInv, ProbeInv', [ProbeNext]_all
  PROVE  /\ Seen
         /\ verdict'.kind = "model" =>
              /\ verdict'.ok <=> op' = "probe"
              /\ verdict'.tools => /\ tool' = "repo_status"
                                   /\ Opened(Received) = {1} /\ Last(out).data = <<1>>
<1>1. Seen
  <2>1. CASE BodyEnds
    BY <2>1, SeenAtTheEnd
  <2>2. CASE ~BodyEnds
    BY <2>2, SeenElsewhere DEF Seen
  <2>3. QED
    BY <2>1, <2>2
<1>2. ASSUME verdict'.kind = "model"
      PROVE  /\ verdict'.ok <=> op' = "probe"
             /\ verdict'.tools => /\ tool' = "repo_status"
                                  /\ Opened(Received) = {1} /\ Last(out).data = <<1>>
  <2>1. stage' = "done" /\ (verdict'.ok <=> op' = "probe") /\ (verdict'.tools => ToolCalled')
    BY <1>2 DEF ProbeInv
  <2>2. Opened(Received)' = Opened(Received) /\ Last(out)' = Last(out)
    BY <2>1, DoneStep, StreamKept
  <2>3. ToolCalled' => /\ tool' = "repo_status"
                       /\ Opened(Received)' = {1} /\ Last(out)'.data = <<1>>
    BY DEF ToolCalled
  <2>4. QED
    BY <2>1, <2>2, <2>3
<1>3. QED
  BY <1>1, <1>2

-----------------------------------------------------------------------------
(* Theorems.                                                                *)

\* The state of the two adapters and of their checks, and what it depends on, is
\* never lost: lines are taken as they came, calls are numbered and kept, and the
\* messages of a turn are paired.
THEOREM StreamInvariant == ProbeSpec => [](IInv /\ ProbeInv)
<1>1. ProbeInit => IInv /\ ProbeInv
  BY ProbeInitOK
<1>2. IInv /\ ProbeInv /\ [ProbeNext]_all => (IInv /\ ProbeInv)'
  <2>1. ASSUME IInv, ProbeInv, [ProbeNext]_all PROVE IInv' /\ ProbeInv'
    BY <2>1, ProbeIsNext, NextOK, ProbeNextOK
  <2>2. QED
    BY <2>1
<1>3. QED
  BY <1>1, <1>2, PTL DEF ProbeSpec

\* A stream keeps its types, and stops at its limits: no more than 4 MiB of a
\* response is decoded, nor more than 1 MiB held undecoded by a round.
THEOREM StreamTypes == ProbeSpec => []TypeOK
<1>1. IInv => TypeOK
  BY TypeFollows
<1>2. QED
  BY <1>1, StreamInvariant, PTL

\* However a response is cut, whatever the provider writes and wherever it stops,
\* what a round hands to the loop is what the provider said: its texts in order,
\* calls only together and whole, and one terminal event.
THEOREM RoundsAreWhole == ProbeSpec => []RoundIsWhole
<1>1. IInv => RoundIsWhole
  BY RoundFollows
<1>2. QED
  BY <1>1, StreamInvariant, PTL

\* Over any number of rounds, every request is accepted by its encoder and every
\* result follows its call, under the name and id the provider gave it.
THEOREM ResultsFollowCalls == ProbeSpec => []ResultsAnswerCalls
<1>1. IInv => ResultsAnswerCalls
  BY AnswersFollow DEF IInv
<1>2. QED
  BY <1>1, StreamInvariant, PTL

\* The same of the stream on its own, as a chat uses it.
THEOREM StreamAlone == Spec => [](TypeOK /\ RoundIsWhole /\ ResultsAnswerCalls)
<1>1. IInv /\ [Next]_vars => IInv'
  BY NextOK
<1>2. IInv => TypeOK /\ RoundIsWhole /\ ResultsAnswerCalls
  BY TypeFollows, RoundFollows, AnswersFollow DEF IInv
<1>3. QED
  BY <1>1, <1>2, InitOK, PTL DEF Spec

\* A check keeps no more of a body than its limit, and sends a key only to a URL
\* that validate_url has accepted.
THEOREM ProbeTypes == ProbeSpec => []ProbeTypeOK
<1>1. ProbeInv => ProbeTypeOK
  BY ProbeTypeFollows
<1>2. QED
  BY <1>1, StreamInvariant, PTL

\* A model is listed, called compatible or let use the repository only on what has
\* been seen of it, for any provider, any body and any round of the probe.
THEOREM VerdictsAreEarned == ProbeSpec => VerdictIsEarned
<1> DEFINE Earned ==
      /\ Seen
      /\ verdict'.kind = "model" =>
           /\ verdict'.ok <=> op' = "probe"
           /\ verdict'.tools => /\ tool' = "repo_status"
                                /\ Opened(Received) = {1} /\ Last(out).data = <<1>>
<1>1. IInv /\ ProbeInv /\ (IInv /\ ProbeInv)' /\ [ProbeNext]_all => [Earned]_all
  BY VerdictStep
<1>2. ProbeSpec => [][Earned]_all
  BY <1>1, StreamInvariant, PTL DEF ProbeSpec
<1>3. QED
  BY <1>2, PTL DEF VerdictIsEarned, Seen
=============================================================================
