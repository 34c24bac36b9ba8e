--------------------------- MODULE ProviderStream ---------------------------
(***************************************************************************)
(* How the two adapters of mentat-inference-openai turn an HTTP response   *)
(* into events, and the history of a turn into the next request.           *)
(*                                                                         *)
(* infer_agent_round (live) and infer_stream (the older chat call) exist   *)
(* once per provider.  A response is a sequence of SSE lines; the network  *)
(* cuts it into chunks anywhere, also inside a line, and may end or break  *)
(* at any point.  A line is sent in two halves, the second of which holds  *)
(* the newline: a half is this model's unit of bytes.  Texts and tool      *)
(* calls are numbered, their contents left out.                            *)
(***************************************************************************)
EXTENDS Ordering, SequencesExt

CONSTANTS
  Adapters,     \* the functions of Adapter to model
  MaxLines,     \* SSE lines of one turn (a bound)
  MaxStream,    \* 4 MiB of a response, in halves of lines
  MaxBuffer,    \* 1 MiB of undecoded bytes of an agent round, in halves
  ArgLimit,     \* 64 KiB of arguments of one call, in pieces
  CallLimit,    \* 24 calls of one response
  Calls,        \* numbers of the tool calls a provider may ask for
  NativeId,     \* [Calls]: the id the provider gives a call
  None

Adapter == {"openaiRound", "geminiRound", "openaiChat", "geminiChat"}
Rounds == {"openaiRound", "geminiRound"}
OpenAi == {"openaiRound", "openaiChat"}

ASSUME StreamAssumption ==
  /\ Adapters \subseteq Adapter /\ Calls \subseteq Nat
  /\ {MaxLines, MaxStream, MaxBuffer, ArgLimit, CallLimit} \subseteq Nat
  /\ NativeId \in [Calls -> {"uuid", "opaque", "absent"}]

\* None stands for no error.
ASSUME NoErrorAssumption ==
  None \notin {"TOOL_ARGUMENT_LIMIT", "AGENT_TOOL_CONTEXT_MISSING", "AGENT_TOOL_SCHEMA_INVALID"}

VARIABLES
  adapter,      \* which function runs
  grounded,     \* request.repository_context is present
  cancelled,    \* the token
  sent,         \* lines the provider has written in this round
  spent,        \* lines of the earlier rounds
  delivered,    \* received_bytes, in halves
  at,           \* in the select!, in the loop over the lines, ended
  buffer,       \* byte_buffer: halves of lines
  full,         \* full_text: numbers of texts
  pending,      \* OpenAI: [Calls] the pieces collected so far
  found,        \* Gemini: tool_calls, each with its provider part
  out,          \* events yielded in this round
  history,      \* request.messages
  body          \* the messages of the request, as the provider reads them

request == <<adapter, grounded, history, body>>
network == <<sent, spent, delivered>>
decoder == <<full, pending, found>>
vars == <<request, cancelled, network, at, buffer, decoder, out>>

-----------------------------------------------------------------------------
(* Lines.                                                                   *)

Text == [kind |-> "text"]
Thought == [kind |-> "thought"]                    \* Gemini: part.thought
Piece(c, part) == [kind |-> "piece", call |-> c, part |-> part]      \* OpenAI
Call(c, size, valid) ==                                              \* Gemini
  [kind |-> "call", call |-> c, size |-> size, valid |-> valid]

Line(items) == [done |-> FALSE, items |-> items]
Junk == Line(<<>>)      \* comments, blank lines, JSON of another shape
Done == [done |-> TRUE, items |-> <<>>]

\* "open" carries id and name, "args" the whole arguments, "bad" arguments
\* that no schema accepts; an args that follows another is too much.
Pieces == {Piece(c, p) : c \in Calls, p \in {"open", "args", "bad"}}
OpenAiLines ==
  {Line(<<Text>>)} \cup {Line(<<p>>) : p \in Pieces}
    \cup {Line(<<Text, Piece(c, "open")>>) : c \in Calls}
    \cup {Line(<<Piece(c, "open"), Piece(c, "args")>>) : c \in Calls}

WholeCalls == {Call(c, s, v) : c \in Calls, s \in {1, ArgLimit + 1}, v \in BOOLEAN}
GeminiLines ==
  {Line(<<Text>>), Line(<<Thought>>)} \cup {Line(<<k>>) : k \in WholeCalls}
    \cup {Line(<<Text, Call(c, 1, TRUE)>>) : c \in Calls}
    \cup {Line(<<Call(c, 1, TRUE), Call(d, 1, TRUE)>>) : c, d \in Calls}

Lines == {Junk, Done} \cup IF adapter \in OpenAi THEN OpenAiLines ELSE GeminiLines

First(item) == item.kind = "call" \/ (item.kind = "piece" /\ item.part = "open")
Opened(lines) ==
  {it.call : it \in {i \in UNION {ToSet(l.items) : l \in ToSet(lines)} : First(i)}}
InHistory ==
  UNION {{c.n : c \in ToSet(m.calls)} : m \in {x \in ToSet(history) : x.role = "calls"}}

\* Calls are numbered as the provider opens them, before their arguments;
\* nothing follows [DONE].
MayFollow(line) ==
  /\ sent # <<>> => ~Last(sent).done
  /\ \A i \in DOMAIN line.items :
       LET it == line.items[i]
           before == Opened(sent) \cup Opened(<<Line(SubSeq(line.items, 1, i - 1))>>)
       IN /\ First(it) => it.call = 1 + Cardinality(before \cup InHistory)
          /\ it.kind = "piece" /\ ~First(it) => it.call \in before

Write(line) ==
  /\ at # "ended" /\ spent + Len(sent) < MaxLines
  /\ MayFollow(line)
  /\ sent' = Append(sent, line)
  /\ UNCHANGED <<request, cancelled, spent, delivered, at, buffer, decoder, out>>

-----------------------------------------------------------------------------
(* Events.                                                                  *)

Event(type, data) == [type |-> type, data |-> data]
Started == Event("started", None)
Failed(code) == Event("failed", code)
Completed(text) == Event("completed", text)
Terminal == {"completed", "calls", "failed", "cancelled"}

Ends(events) ==
  /\ at' = "ended"
  /\ out' = out \o events

EndsNow(events) == Ends(events) /\ UNCHANGED <<request, cancelled, network, buffer, decoder>>

-----------------------------------------------------------------------------
(* The select!: a chunk, the end of the body, an error, or the token.  No   *)
(* branch has priority.                                                     *)

Half(k) == [line |-> (k + 1) \div 2, half |-> 2 - (k % 2)]
HasLine(bytes) == \E i \in DOMAIN bytes : bytes[i].half = 2

\* Slip: only the whole response is limited.
OversizedInTotal(n) == delivered + n > MaxStream

Oversized(n) ==
  \/ delivered + n > MaxStream
  \/ (adapter \in Rounds /\ Len(buffer) + n > MaxBuffer)

\* Slip: a chunk replaces what was left of the one before.
ChunkForgets(n) ==
  LET bytes == [i \in 1..n |-> Half(delivered + i)]
  IN /\ at = "select" /\ delivered + n <= 2 * Len(sent)
     /\ delivered' = delivered + n
     /\ IF Oversized(n)
          THEN Ends(<<Failed("STREAM_LIMIT")>>) /\ UNCHANGED buffer
          ELSE /\ buffer' = bytes
               /\ at' = IF HasLine(buffer') THEN "lines" ELSE "select"
               /\ UNCHANGED out
     /\ UNCHANGED <<request, cancelled, sent, spent, decoder>>

\* A chunk is added to what was left of the one before.
Chunk(n) ==
  LET bytes == [i \in 1..n |-> Half(delivered + i)]
  IN /\ at = "select" /\ delivered + n <= 2 * Len(sent)
     /\ delivered' = delivered + n
     /\ IF Oversized(n)
          THEN Ends(<<Failed("STREAM_LIMIT")>>) /\ UNCHANGED buffer
          ELSE /\ buffer' = buffer \o bytes
               /\ at' = IF HasLine(buffer') THEN "lines" ELSE "select"
               /\ UNCHANGED out
     /\ UNCHANGED <<request, cancelled, sent, spent, decoder>>

\* None: the body ended, though a line or a call may be half received.
EndOfBody ==
  /\ at = "select"
  /\ EndsNow(
       IF adapter = "openaiRound" /\ \E c \in Calls : pending[c] # <<>>
         THEN <<Failed("AGENT_TOOL_STREAM_INCOMPLETE")>>
       ELSE IF adapter = "geminiRound" /\ found # <<>>
         THEN <<Event("parts", found), Event("calls", found)>>
       ELSE IF adapter = "geminiChat" /\ cancelled
         THEN <<>>
       ELSE <<Completed(full)>>)

\* infer_stream of Gemini leaves the loop after Failed and then completes.
ReadError ==
  /\ at = "select"
  /\ EndsNow(<<Failed("STREAM_READ_ERROR")>> \o
       IF adapter = "geminiChat" /\ ~cancelled THEN <<Completed(full)>> ELSE <<>>)

\* Slip: the token is looked at when a chunk has arrived.
CancelSeenWithChunk ==
  /\ at = "select" /\ cancelled /\ delivered < 2 * Len(sent)
  /\ EndsNow(<<IF adapter \in Rounds THEN Failed("CANCELLED")
                                     ELSE Event("cancelled", None)>>)

CancelSeen ==
  /\ at = "select" /\ cancelled
  /\ EndsNow(<<IF adapter \in Rounds THEN Failed("CANCELLED")
                                     ELSE Event("cancelled", None)>>)

-----------------------------------------------------------------------------
(* One line of the buffer.  acc: the decoder, the events and the error of   *)
(* the items handled so far.                                                *)

SayText(acc, ref) ==
  [acc EXCEPT !.full = Append(@, ref), !.events = Append(@, Event("text", ref))]

AddPiece(acc, it) ==
  LET all == [acc.pending EXCEPT ![it.call] = Append(@, it.part)]
      args == {k \in DOMAIN all[it.call] : all[it.call][k] # "open"}
      held == {c \in Calls : all[c] # <<>>}
  IN [acc EXCEPT !.pending = all,
                 !.error = IF Cardinality(args) > ArgLimit \/ Cardinality(held) > CallLimit
                             THEN "TOOL_ARGUMENT_LIMIT" ELSE None]

AddCall(acc, it) ==
  IF it.size > ArgLimit \/ Len(acc.found) >= CallLimit
    THEN [acc EXCEPT !.error = "TOOL_ARGUMENT_LIMIT"]
  ELSE IF ~grounded
    THEN [acc EXCEPT !.error = "AGENT_TOOL_CONTEXT_MISSING"]
  ELSE IF ~it.valid
    THEN [acc EXCEPT !.error = "AGENT_TOOL_SCHEMA_INVALID"]
  ELSE [acc EXCEPT !.found = Append(@, it.call)]

Item(acc, it, ref) ==
  IF acc.error # None THEN acc
  ELSE IF it.kind = "text" \/ (it.kind = "thought" /\ adapter = "geminiChat")
    THEN SayText(acc, ref)
  ELSE IF it.kind = "piece" /\ adapter = "openaiRound" THEN AddPiece(acc, it)
  ELSE IF it.kind = "call" /\ adapter = "geminiRound" THEN AddCall(acc, it)
  ELSE acc

Decode(line, number) ==
  LET start == [full |-> full, pending |-> pending, found |-> found,
                events |-> <<>>, error |-> None]
      acc[i \in 0..Len(line.items)] ==
        IF i = 0 THEN start ELSE Item(acc[i - 1], line.items[i], <<number, i>>)
  IN acc[Len(line.items)]

NewLine == CHOOSE i \in DOMAIN buffer :
             /\ buffer[i].half = 2
             /\ \A j \in 1..(i - 1) : buffer[j].half # 2

\* Two halves of one line are that line; anything else is not JSON.
Number == buffer[NewLine].line
Current ==
  IF SubSeq(buffer, 1, NewLine) = <<Half(2 * Number - 1), Half(2 * Number)>>
    THEN sent[Number] ELSE Junk
Rest == SubSeq(buffer, NewLine + 1, Len(buffer))

\* A line is decoded; an error ends the round in the middle of it.
TakeLine ==
  LET acc == Decode(Current, Number)
  IN /\ at = "lines" /\ ~Current.done
     /\ buffer' = Rest
     /\ full' = acc.full /\ pending' = acc.pending /\ found' = acc.found
     /\ out' = out \o acc.events
                   \o (IF acc.error = None THEN <<>> ELSE <<Failed(acc.error)>>)
     /\ at' = IF acc.error # None THEN "ended"
              ELSE IF HasLine(Rest) THEN "lines" ELSE "select"
     /\ UNCHANGED <<request, cancelled, network>>

Held == Ascending({c \in Calls : pending[c] # <<>>})

\* [DONE]: the calls are parsed together, in the order of their index.
FinishOpenAi ==
  IF adapter = "openaiChat" \/ Held = <<>> THEN Completed(full)
  ELSE IF ~grounded THEN Failed("AGENT_TOOL_CONTEXT_MISSING")
  ELSE IF \E c \in ToSet(Held) : pending[c] # <<"open", "args">>
    THEN Failed("AGENT_TOOL_SCHEMA_INVALID")
  ELSE Event("calls", Held)

\* Gemini only leaves the loop over the lines and goes on reading.
TakeDone ==
  /\ at = "lines" /\ Current.done
  /\ buffer' = Rest
  /\ IF adapter \in OpenAi THEN Ends(<<FinishOpenAi>>)
                           ELSE at' = "select" /\ UNCHANGED out
  /\ UNCHANGED <<request, cancelled, network, decoder>>

-----------------------------------------------------------------------------
(* The next request (agent_loop.rs, agent_wire.rs).  A call's id is the     *)
(* provider's when that is a UUID, else a fresh one; Gemini gets its own    *)
(* part back, with its own id, and is answered by name.                     *)

CallId(c) == IF NativeId[c] = "uuid" THEN <<"native", c>> ELSE <<"fresh", c>>
Native(c) == IF NativeId[c] = "absent" THEN None ELSE <<"native", c>>

User == [role |-> "user"]
Assistant(text) == [role |-> "assistant", text |-> text]
ToolCalls(calls, parts) == [role |-> "calls", calls |-> calls, parts |-> parts]
ToolResult(call) == [role |-> "result", id |-> call.id]

OpenAiMessage(m) ==
  CASE m.role = "calls" ->
         [role |-> "calls", entries |-> [k \in DOMAIN m.calls |->
                              [name |-> m.calls[k].n, id |-> m.calls[k].id]]]
    [] m.role = "result" -> [role |-> "tool", name |-> None, id |-> m.id]
    [] OTHER -> m

OpenAiBody(messages) ==
  [ok |-> TRUE, messages |-> [k \in DOMAIN messages |-> OpenAiMessage(messages[k])]]

\* call_names and native_ids, when the message at p is reached.
Known(messages, p) ==
  UNION {ToSet(messages[q].calls) : q \in {r \in 1..(p - 1) : messages[r].role = "calls"}}

GeminiAccepts(known, m) ==
  /\ m.role = "calls" => /\ Len(m.parts) = Len(m.calls)
                         /\ \A k \in DOMAIN m.calls : m.parts[k] = m.calls[k].n
  /\ m.role = "result" => \E c \in known : c.id = m.id

\* Slip: the response to a call keeps the id this program gave the call.
GeminiMessageOwnId(known, m) ==
  CASE m.role = "calls" ->
         [role |-> "calls", entries |-> [k \in DOMAIN m.parts |->
                              [name |-> m.parts[k], id |-> Native(m.parts[k])]]]
    [] m.role = "result" ->
         LET c == CHOOSE c \in known : c.id = m.id
         IN [role |-> "tool", name |-> c.n, id |-> m.id]
    [] OTHER -> m

GeminiMessage(known, m) ==
  CASE m.role = "calls" ->
         [role |-> "calls", entries |-> [k \in DOMAIN m.parts |->
                              [name |-> m.parts[k], id |-> Native(m.parts[k])]]]
    [] m.role = "result" ->
         LET c == CHOOSE c \in known : c.id = m.id
         IN [role |-> "tool", name |-> c.n, id |-> Native(c.n)]
    [] OTHER -> m

\* The first message that is not accepted is an error for the whole.
GeminiBody(messages) ==
  IF \A p \in DOMAIN messages : GeminiAccepts(Known(messages, p), messages[p])
    THEN [ok |-> TRUE, messages |-> [p \in DOMAIN messages |->
                                       GeminiMessage(Known(messages, p), messages[p])]]
    ELSE [ok |-> FALSE, messages |-> <<>>]

Body(messages) ==
  IF adapter \in OpenAi THEN OpenAiBody(messages) ELSE GeminiBody(messages)

Requested == Last(out).data
RoundText ==
  LET texts == Ascending({k \in DOMAIN out : out[k].type = "text"})
  IN [j \in DOMAIN texts |-> out[texts[j]]]

\* run_bounded: the text, the calls with their parts, and one result each.
Answered ==
  LET calls == [k \in DOMAIN Requested |-> [n |-> Requested[k], id |-> CallId(Requested[k])]]
      parts == IF adapter = "geminiRound" THEN out[Len(out) - 1].data ELSE <<>>
  IN (IF RoundText = <<>> THEN <<>> ELSE <<Assistant(RoundText)>>)
       \o <<ToolCalls(calls, parts)>>
       \o [k \in DOMAIN calls |-> ToolResult(calls[k])]

NextRound ==
  /\ at = "ended" /\ out # <<>> /\ Last(out).type = "calls" /\ ~cancelled
  /\ history' = history \o Answered
  /\ body' = Body(history')
  /\ spent' = spent + Len(sent)
  /\ sent' = <<>> /\ delivered' = 0
  /\ at' = "select" /\ buffer' = <<>>
  /\ full' = <<>> /\ pending' = [c \in Calls |-> <<>>] /\ found' = <<>>
  /\ out' = <<Started>>
  /\ UNCHANGED <<adapter, grounded, cancelled>>

-----------------------------------------------------------------------------
Init ==
  /\ adapter \in Adapters
  /\ grounded \in BOOLEAN
  /\ cancelled = FALSE
  /\ sent = <<>> /\ spent = 0 /\ delivered = 0
  /\ at = "select" /\ buffer = <<>>
  /\ full = <<>> /\ pending = [c \in Calls |-> <<>>] /\ found = <<>>
  /\ out = <<Started>>
  /\ history = <<User>>
  /\ body = Body(history)

Cancel ==
  /\ ~cancelled /\ cancelled' = TRUE
  /\ UNCHANGED <<request, network, at, buffer, decoder, out>>

Next ==
  \/ \E line \in Lines : Write(line)
  \/ \E n \in 1..(2 * MaxLines) : Chunk(n)
  \/ EndOfBody
  \/ ReadError
  \/ CancelSeen
  \/ TakeLine
  \/ TakeDone
  \/ NextRound
  \/ Cancel

Spec == Init /\ [][Next]_vars

\* The runtime polls the stream: a line that is there is taken, and the ready
\* token is looked at.  Nothing is assumed of the provider.
FairSpec == Spec /\ WF_vars(TakeLine) /\ WF_vars(TakeDone) /\ WF_vars(CancelSeen)

-----------------------------------------------------------------------------
(* Properties.                                                              *)

TypeOK ==
  /\ adapter \in Adapters /\ grounded \in BOOLEAN /\ cancelled \in BOOLEAN
  /\ ToSet(sent) \subseteq Lines
  /\ spent \in 0..MaxLines /\ delivered \in 0..(2 * MaxLines)
  /\ at \in {"select", "lines", "ended"}
  /\ ToSet(buffer) \subseteq {Half(k) : k \in 1..(2 * MaxLines)}
  /\ at # "ended" => delivered <= MaxStream
  /\ adapter \in Rounds => Len(buffer) <= MaxBuffer
  /\ ToSet(full) \subseteq Nat \X Nat
  /\ \A c \in Calls : ToSet(pending[c]) \subseteq {"open", "args", "bad"}
  /\ ToSet(found) \subseteq Calls
  /\ \A k \in DOMAIN out : out[k].type \in Terminal \cup {"started", "text", "parts"}
  /\ body.ok \in BOOLEAN

\* What the provider had said in whole lines, up to its [DONE].
Received == SubSeq(sent, 1, delivered \div 2)
Visible(item) == item.kind = "text" \/ (item.kind = "thought" /\ adapter = "geminiChat")
VisibleRefs ==
  UNION {{<<l, i>> : i \in {j \in DOMAIN Received[l].items : Visible(Received[l].items[j])}} :
           l \in DOMAIN Received}
Before(a, b) == a[1] < b[1] \/ (a[1] = b[1] /\ a[2] < b[2])
Said == [k \in DOMAIN RoundText |-> RoundText[k].data]

\* However the network cuts the response, the deltas are the provider's visible
\* texts in order, none lost, doubled or torn, and a completed answer is all of
\* them (the buffer carried from chunk to chunk in both adapters).
TextIsWire ==
  /\ ToSet(Said) \subseteq VisibleRefs
  /\ \A i, j \in DOMAIN Said : i < j => Before(Said[i], Said[j])
  /\ \A ref \in VisibleRefs, i \in DOMAIN Said : Before(ref, Said[i]) => ref \in ToSet(Said)
  /\ \A k \in DOMAIN out :
       out[k].type = "completed" => out[k].data = Said /\ ToSet(Said) = VisibleRefs

\* Tool calls are handed to the loop only together and whole: every call the
\* provider opened, in order, each with all its arguments, never on a request
\* without a repository; OpenAI's only once [DONE] has been received.
CallsAreWhole ==
  \A k \in DOMAIN out : out[k].type = "calls" =>
    LET asked == out[k].data
        items == UNION {ToSet(l.items) : l \in ToSet(Received)}
    IN /\ grounded /\ asked # <<>> /\ IsInjective(asked)
       /\ ToSet(asked) = Opened(Received)
       /\ adapter = "openaiRound" =>
            /\ Last(Received).done
            /\ \A c \in ToSet(asked) :
                 Piece(c, "args") \in items /\ Piece(c, "bad") \notin items
       /\ adapter = "geminiRound" =>
            /\ \A c \in ToSet(asked) : Call(c, 1, TRUE) \in items
            /\ out[k - 1] = Event("parts", asked)

\* A round ends with one of ToolCallsRequested, RawCompleted and Failed, and
\* nothing is said after it (SYSTEM_ARCHITECTURE.md:368).
OneTerminal ==
  \A k \in DOMAIN out : out[k].type \in Terminal => k = Len(out) /\ at = "ended"
RoundsEndOnce ==
  adapter \in Rounds => OneTerminal /\ (at = "ended" => Last(out).type \in Terminal)

\* What a round hands to the loop is what the provider said, whole, and once.
RoundIsWhole == TextIsWire /\ CallsAreWhole /\ RoundsEndOnce

\* Every request the loop builds is accepted by the wire encoder, and in it the
\* calls of a batch are followed by their own results, each under the name and
\* the id the provider knows the call by.
ResultsAnswerCalls ==
  /\ body.ok
  /\ Len(body.messages) = Len(history)
  /\ \A p \in DOMAIN body.messages : body.messages[p].role = "calls" =>
       \A k \in DOMAIN body.messages[p].entries :
         LET entry == body.messages[p].entries[k]
             answer == body.messages[p + k]
         IN /\ answer.role = "tool" /\ answer.id = entry.id
            /\ answer.name \in {None, entry.name}

\* A cancelled stream ends even if the provider stays silent (SEC-F005).
CancelEnds == cancelled ~> at = "ended"
=============================================================================
