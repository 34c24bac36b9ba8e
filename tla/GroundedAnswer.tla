--------------------------- MODULE GroundedAnswer ---------------------------
(***************************************************************************)
(* The evidence of an answer: tool calls of a turn, the trace they leave,  *)
(* the audit bundle checked against it, the transaction that stores all of *)
(* it together, and what a restart brings back.                            *)
(*                                                                         *)
(* The actors are the provider, which asks for tools and then answers with *)
(* any bundle it likes; the agent loop (agent_loop.rs) and the gateway     *)
(* (RepositoryTools); the UI thread, which stores the outcome; the disk    *)
(* under a search; the user's cancel; the process, which may die.  One     *)
(* call per round: batches are AgentLoop's and ToolEgress's, so are the    *)
(* limits of a turn.  Freshness is Workspace's.                            *)
(***************************************************************************)
EXTENDS RepositoryTools

CONSTANTS
  Asked,        \* the calls the provider may ask for
  UuidTools,    \* the tools whose calls it may number with a UUID (a bound)
  MaxTurns,     \* turns of the conversation (a bound)
  MaxCalls,     \* calls of all turns (a bound below the loop's own for one)
  Touched,      \* names of the files that may change under the program
  MaxFaults     \* changes on disk, failed commits and crashes (a bound)

ASSUME AnswerAssumption ==
  /\ {MaxTurns, MaxCalls, MaxFaults} \subseteq Nat
  /\ \A call \in Asked :
       /\ call.name \in {"repo_status", "list_tree", "search_paths", "search_text",
                        "read_file_lines", "file_metadata"}
       /\ {call.limit, call.first, call.last} \subseteq Nat

Turn == 1..MaxTurns
Contracts == {"advisor", "audit"}

VARIABLES
  disk,         \* of each file: "same", "changed" or "gone"
  gateway,      \* "fresh", "stale", or "none" when no folder is attached
  cancelled,    \* the token of the turn
  phase,        \* "idle", "round", "search", "answered"
  now,          \* the turn that runs, or ran last
  grounded,     \* the turn has a repository, hence a trace
  trace,        \* its GroundingTrace: calls and source_refs
  search,       \* the search_text under way, with its call and call id
  last,         \* the last call answered, with its result
  answer,       \* the validated bundle of the completion, none for markdown
  rows,         \* conversation_turns and chat_messages
  records,      \* tool_call_records
  refs,         \* source_refs, per trace
  audits,       \* audit_turn_results: none or one per turn
  asked,        \* calls so far
  screen,       \* messages with grounding_by_message and audit_by_message
  faults

memory == <<cancelled, phase, now, grounded, trace, search, last, answer>>
database == <<rows, records, refs, audits>>
bounds == <<asked, faults>>
vars == <<disk, gateway, memory, database, screen, bounds>>

EmptyTrace == [calls |-> {}, refs |-> <<>>]
NoSearch == [call |-> None, id |-> None, acc |-> None]
NoLast == [call |-> None, result |-> None]
Unseen == [status |-> "none", trace |-> None, audit |-> {}]

Init ==
  /\ disk = [f \in {Scanned[k].name : k \in DOMAIN Scanned} |-> "same"]
  /\ gateway = "fresh" /\ cancelled = FALSE
  /\ phase = "idle" /\ now = 0 /\ grounded = FALSE
  /\ trace = EmptyTrace /\ search = NoSearch /\ last = NoLast /\ answer = {}
  /\ rows = [t \in Turn |-> [status |-> "none", contract |-> "advisor", traced |-> FALSE]]
  /\ records = {}
  /\ refs = [t \in Turn |-> <<>>]
  /\ audits = [t \in Turn |-> {}]
  /\ screen = [t \in Turn |-> Unseen]
  /\ asked = 0 /\ faults = 0

-----------------------------------------------------------------------------
(* A turn begins: begin_turn and prepare_grounding_trace, whose failures are *)
(* ChatTurn's and ToolEgress's.  A model without the tools goes without the  *)
(* repository; an audit does not.                                            *)

Begin(contract, repository) ==
  /\ phase = "idle" /\ now < MaxTurns
  /\ repository => gateway = "fresh"
  /\ contract = "audit" => repository
  /\ now' = now + 1 /\ phase' = "round"
  /\ cancelled' = FALSE /\ grounded' = repository
  /\ trace' = EmptyTrace /\ search' = NoSearch /\ last' = NoLast /\ answer' = {}
  /\ rows' = [rows EXCEPT ![now'] = [status |-> "pending", contract |-> contract,
                                     traced |-> FALSE]]
  /\ screen' = [screen EXCEPT ![now'].status = "pending"]
  /\ UNCHANGED <<disk, gateway, records, refs, audits, bounds>>

\* What the turn held is dropped: active_turn, stream_cancel, the loop's own.
Idle ==
  /\ phase' = "idle" /\ cancelled' = FALSE /\ grounded' = FALSE
  /\ trace' = EmptyTrace /\ search' = NoSearch /\ last' = NoLast /\ answer' = {}

\* finish_turn with Failed or Cancelled: the row and the screen, no evidence.
Stopped(status) ==
  /\ Idle
  /\ rows' = [rows EXCEPT ![now].status = status]
  /\ screen' = [screen EXCEPT ![now].status = status]
  /\ UNCHANGED <<now, records, refs, audits>>

-----------------------------------------------------------------------------
(* One tool call.                                                            *)

\* A SourceRef's id is new in every call.
FirstId == 100 * now + Len(trace.refs)

Executed(call) ==
  CASE call.name = "repo_status" -> Found(<<"status">>, <<>>, <<>>)
    [] call.name = "list_tree" -> Tree(call)
    [] call.name = "search_paths" -> Paths(call)
    [] call.name = "read_file_lines" -> Lines(call, disk, FirstId + 1)
    [] call.name = "file_metadata" -> Metadata(call)

Round == Cardinality(trace.calls) + 1

\* A result reaches the trace before anything else sees it.
Answered(call, id, result) ==
  IF result.code # None
    THEN Stopped("failed")
    ELSE /\ trace' = [calls |-> trace.calls \cup
                         {[id |-> id, round |-> Round, name |-> call.name,
                           refs |-> {r.id : r \in ToSet(result.refs)}]},
                      refs |-> trace.refs \o result.refs]
         /\ last' = [call |-> call, result |-> result]
         /\ phase' = "round" /\ search' = NoSearch
         /\ UNCHANGED <<cancelled, now, grounded, answer, database, screen>>

\* The id is the provider's if it gave a UUID, else a new one.
Natives(call) == IF call.name \in UuidTools THEN BOOLEAN ELSE {FALSE}
CallId(native) == IF native THEN <<"native", 0>> ELSE <<"new", 100 * now + Round>>

\* Before the tool runs; the flag and the token are not looked at again, but
\* for the token by a search.
Gate(call) ==
  IF call.name # "repo_status" /\ gateway # "fresh" THEN "REPOSITORY_REINDEX_REQUIRED"
  ELSE IF cancelled THEN "CANCELLED"
  ELSE None

Requested(call) ==
  /\ phase = "round" /\ grounded /\ WellFormed(call)
  /\ asked < MaxCalls /\ asked' = asked + 1

CallTool(call, native) ==
  /\ Requested(call)
  /\ call.name # "search_text" \/ Gate(call) # None
  /\ Answered(call, CallId(native),
       IF Gate(call) # None THEN Refused(Gate(call)) ELSE Sealed(Executed(call)))
  /\ UNCHANGED <<disk, gateway, faults>>

BeginSearch(call, native) ==
  /\ Requested(call)
  /\ call.name = "search_text" /\ Gate(call) = None
  /\ phase' = "search"
  /\ search' = [call |-> call, id |-> CallId(native), acc |-> SearchStart(call)]
  /\ UNCHANGED <<disk, gateway, cancelled, now, grounded, trace, last, answer,
                 database, screen, faults>>

\* The next file: the token is looked at, the file is read as it is now.
SearchFile ==
  /\ phase = "search" /\ search.acc.rest # <<>>
  /\ IF cancelled /\ Len(search.acc.omitted) < MaxOmissions - 1
       THEN Stopped("failed")
       ELSE /\ search' = [search EXCEPT !.acc = SearchStep(@, search.call, disk, FirstId)]
            /\ UNCHANGED <<cancelled, phase, now, grounded, trace, last, answer,
                           database, screen>>
  /\ UNCHANGED <<disk, gateway, bounds>>

EndSearch ==
  /\ phase = "search" /\ search.acc.rest = <<>>
  /\ Answered(search.call, search.id, Sealed(Searched(search.acc)))
  /\ UNCHANGED <<disk, gateway, bounds>>

-----------------------------------------------------------------------------
(* The provider answers.  A bundle is what its JSON says: evidence, claims   *)
(* and conflicts, over source references of any origin.                      *)

Claim(class, ids, sound) == [class |-> class, ids |-> ids, sound |-> sound]
Bundle(own, evidence, claims, conflicts) ==
  [own |-> own,               \* snapshot_id is the trace's, direct_answer not blank
   evidence |-> evidence, claims |-> claims, conflicts |-> conflicts,
   raw |-> TRUE, text |-> <<>>]

\* What the provider has seen in this turn or an earlier one, a copy of it
\* with another excerpt, and a reference it made up.
Seen == ToSet(trace.refs) \cup UNION {ToSet(refs[t]) : t \in Turn}
Altered == {[r EXCEPT !.excerpt = <<"other">>] : r \in ToSet(trace.refs)}
Invented == [id |-> 0, file |-> "a", first |-> 1, last |-> 1, excerpt |-> <<"fn">>]
Cited == Seen \cup Altered \cup {Invented}

Evidences ==
  {<<>>, trace.refs} \cup {<<e>> : e \in Cited} \cup {<<e, e>> : e \in ToSet(trace.refs)}

\* Each bundle has one part that may be wrong; an id is that of its first piece
\* of evidence, or made up.
Bundles ==
  LET sound == <<Claim("Unknown", <<>>, TRUE)>>
      ids(e) == {0} \cup (IF e = <<>> THEN {} ELSE {e[1].id})
      claims(e) == {<<>>, <<Claim("Observed", <<>>, TRUE)>>}
                     \cup {<<Claim("Observed", <<i>>, s)>> \o sound : i \in ids(e), s \in BOOLEAN}
      conflicts(e) == {<<<<>>>>} \cup {<<<<i>>>> : i \in ids(e)} \cup {<<<<i, i>>>> : i \in ids(e)}
  IN {Bundle(FALSE, <<>>, sound, <<>>)}
       \cup UNION {{Bundle(TRUE, e, c, <<>>) : c \in claims(e)} : e \in Evidences}
       \cup UNION {{Bundle(TRUE, e, sound, k) : k \in conflicts(e)} : e \in Evidences}

EvidenceIds(bundle) == {e.id : e \in ToSet(bundle.evidence)}

\* Slip: an id the gateway gave out is enough.
CanonicalById(bundle) ==
  /\ IsInjective([k \in DOMAIN bundle.evidence |-> bundle.evidence[k].id])
  /\ EvidenceIds(bundle) \subseteq {r.id : r \in ToSet(trace.refs)}

\* Every piece of evidence is, field by field, a reference of the trace.
Canonical(bundle) ==
  /\ IsInjective([k \in DOMAIN bundle.evidence |-> bundle.evidence[k].id])
  /\ ToSet(bundle.evidence) \subseteq ToSet(trace.refs)

ClaimsHold(bundle) ==
  \A c \in ToSet(bundle.claims) :
    /\ c.sound                            \* a statement, a confidence in 0..1
    /\ c.class # "Unknown" => c.ids # <<>>
    /\ ToSet(c.ids) \subseteq EvidenceIds(bundle)

ConflictsHold(bundle) ==
  \A ids \in ToSet(bundle.conflicts) :
    ids # <<>> /\ IsInjective(ids) /\ ToSet(ids) \subseteq EvidenceIds(bundle)

Valid(bundle) ==
  grounded /\ bundle.own /\ Canonical(bundle) /\ ClaimsHold(bundle) /\ ConflictsHold(bundle)

\* The answer shown is composed of the claims that are not Unknown.
VerifiedAnswer(claims) ==
  Restrict(claims, {k \in DOMAIN claims : claims[k].class # "Unknown"})
Validated(bundle) ==
  [own |-> bundle.own, evidence |-> bundle.evidence, claims |-> bundle.claims,
   conflicts |-> bundle.conflicts, raw |-> FALSE, text |-> VerifiedAnswer(bundle.claims)]

CompleteMarkdown ==
  /\ phase = "round" /\ rows[now].contract = "advisor"
  /\ phase' = "answered" /\ answer' = {} /\ cancelled' = FALSE
  /\ UNCHANGED <<disk, gateway, now, grounded, trace, search, last,
                 database, screen, bounds>>

CompleteAudit(bundle) ==
  /\ phase = "round" /\ rows[now].contract = "audit" /\ Valid(bundle)
  /\ phase' = "answered" /\ answer' = {Validated(bundle)} /\ cancelled' = FALSE
  /\ UNCHANGED <<disk, gateway, now, grounded, trace, search, last,
                 database, screen, bounds>>

\* A call that is not well formed or comes without a repository, a bundle that
\* is not valid, or the provider's own failure.
RoundFails ==
  /\ phase = "round"
  /\ Stopped("failed")
  /\ UNCHANGED <<disk, gateway, bounds>>

StopAtRound ==
  /\ phase = "round" /\ cancelled
  /\ Stopped("cancelled")
  /\ UNCHANGED <<disk, gateway, bounds>>

-----------------------------------------------------------------------------
(* finish_agent_outcome: trace, records, references, audit row, message and  *)
(* turn in one transaction.                                                  *)

Row(call) == [turn |-> now, id |-> call.id, round |-> call.round,
              name |-> call.name, refs |-> call.refs]
Others == {r \in records : r.turn # now}

\* call_id is the primary key of tool_call_records, over all traces.
KeysAreFree ==
  /\ \A a, b \in trace.calls : a.id = b.id => a = b
  /\ \A a \in trace.calls, r \in Others : a.id # r.id

\* Slip: a record with the same key is replaced.
StoreReplacing ==
  /\ records' = {r \in Others : \A a \in trace.calls : a.id # r.id}
                  \cup {Row(c) : c \in trace.calls}
  /\ refs' = [refs EXCEPT ![now] = trace.refs]
  /\ audits' = [audits EXCEPT ![now] = answer]
  /\ rows' = [rows EXCEPT ![now].status = "completed", ![now].traced = grounded]

Store ==
  /\ KeysAreFree
  /\ records' = Others \cup {Row(c) : c \in trace.calls}
  /\ refs' = [refs EXCEPT ![now] = trace.refs]
  /\ audits' = [audits EXCEPT ![now] = answer]
  /\ rows' = [rows EXCEPT ![now].status = "completed", ![now].traced = grounded]

Finish ==
  /\ phase = "answered"
  /\ Store
  /\ screen' = [screen EXCEPT ![now] = [status |-> "completed",
                                        trace |-> IF grounded THEN trace ELSE None,
                                        audit |-> answer]]
  /\ Idle
  /\ UNCHANGED <<disk, gateway, now, bounds>>

\* fail_atomic_completion: the completed text is given up with its evidence.
FinishFails ==
  /\ phase = "answered"
  /\ \/ ~KeysAreFree /\ UNCHANGED faults
     \/ faults < MaxFaults /\ faults' = faults + 1
  /\ UNCHANGED asked
  /\ Stopped("failed")
  /\ UNCHANGED <<disk, gateway>>

-----------------------------------------------------------------------------
(* The surroundings.                                                         *)

Touch(file, state) ==
  /\ faults < MaxFaults /\ faults' = faults + 1
  /\ disk[file] # state
  /\ disk' = [disk EXCEPT ![file] = state]
  /\ UNCHANGED <<gateway, memory, database, screen, asked>>

Unchanged == \A f \in DOMAIN disk : disk[f] = "same"

\* mark_stale, some time after the change.
Notice ==
  /\ gateway = "fresh" /\ ~Unchanged
  /\ gateway' = "stale"
  /\ UNCHANGED <<disk, memory, database, screen, bounds>>

\* Nobody looks at the token of a turn that has its answer.
Cancel ==
  /\ phase \in {"round", "search"} /\ ~cancelled /\ cancelled' = TRUE
  /\ UNCHANGED <<disk, gateway, phase, now, grounded, trace, search, last, answer,
                 database, screen, bounds>>

\* load_conversation, load_grounding_trace and load_audit_result_for_turn.
LoadTrace(t) ==
  [calls |-> {[id |-> r.id, round |-> r.round, name |-> r.name, refs |-> r.refs] :
                r \in {x \in records : x.turn = t}},
   refs |-> refs[t]]
Restored(t) ==
  [status |-> rows[t].status,
   trace |-> IF rows[t].traced THEN LoadTrace(t) ELSE None,
   audit |-> audits[t]]

\* The process dies and starts again: an unfinished turn has failed.  The folder
\* may be attached again; if it has changed that is another snapshot, which this
\* module leaves out.
Restart ==
  /\ faults < MaxFaults /\ faults' = faults + 1
  /\ rows' = [t \in Turn |-> IF rows[t].status = "pending"
                               THEN [rows[t] EXCEPT !.status = "failed"] ELSE rows[t]]
  /\ Idle
  /\ gateway' = IF Unchanged THEN "fresh" ELSE "none"
  /\ screen' = [t \in Turn |-> [Restored(t) EXCEPT !.status = rows'[t].status]]
  /\ UNCHANGED <<disk, now, records, refs, audits, asked>>

Next ==
  \/ \E contract \in Contracts, repository \in BOOLEAN : Begin(contract, repository)
  \/ \E call \in Asked : \E native \in Natives(call) : CallTool(call, native)
  \/ \E call \in Asked : \E native \in Natives(call) : BeginSearch(call, native)
  \/ SearchFile
  \/ EndSearch
  \/ CompleteMarkdown
  \/ \E bundle \in Bundles : CompleteAudit(bundle)
  \/ RoundFails
  \/ StopAtRound
  \/ Finish
  \/ FinishFails
  \/ \E file \in Touched, state \in {"changed", "gone"} : Touch(file, state)
  \/ Notice
  \/ Cancel
  \/ Restart

Spec == Init /\ [][Next]_vars

-----------------------------------------------------------------------------
(* Properties.                                                               *)

FileOf(name) == CHOOSE f \in ToSet(Scanned) : f.name = name

TypeOK ==
  /\ disk \in [DOMAIN disk -> {"same", "changed", "gone"}]
  /\ gateway \in {"fresh", "stale", "none"} /\ cancelled \in BOOLEAN
  /\ phase \in {"idle", "round", "search", "answered"}
  /\ now \in 0..MaxTurns /\ grounded \in BOOLEAN /\ asked \in 0..MaxCalls /\ faults \in 0..MaxFaults
  /\ \A t \in Turn : /\ rows[t].status \in {"none", "pending", "completed", "failed", "cancelled"}
                     /\ rows[t].contract \in Contracts
  \* a call's result stays within its budgets, however it came about
  /\ phase = "search" => Len(search.acc.omitted) <= MaxOmissions
  /\ last # NoLast =>
       LET r == last.result
       IN 1 + Len(r.content) + Len(r.refs) + Len(r.omitted) <= MaxResult

\* Evidence is what the scan saw, though files change, vanish and come back
\* between two reads of one search: a reference names a file that the catalog
\* shows, and its excerpt is the beginning of those very lines, redacted.  That
\* holds in the trace of the running turn, in the database and on the screen.
Original(ref) ==
  LET file == FileOf(ref.file)
  IN /\ ~file.sensitive /\ file.text
     /\ 1 <= ref.first /\ ref.first <= ref.last /\ ref.last <= Len(file.lines)
     /\ ref.excerpt = Take(Redact(SubSeq(file.lines, ref.first, ref.last)), MaxExcerpt)
EvidenceIsOriginal ==
  /\ \A r \in ToSet(trace.refs) : Original(r)
  /\ \A t \in Turn : \A r \in ToSet(refs[t]) : Original(r)
  /\ phase = "search" => \A r \in ToSet(search.acc.refs) : Original(r)

\* A result says what it leaves out: the paths shown and the omitted ones are
\* all that match; a search names every file it could not look into, and shows
\* every hit in the others unless its limit was reached (NFR-017, spec.md:194).
CountOf(result, code) ==
  LET noted == {o \in ToSet(result.omitted) : o.code = code}
  IN IF noted = {} THEN 0 ELSE (CHOOSE o \in noted : TRUE).count
Matching(call) ==
  {f \in ToSet(Catalog) :
     IF call.name = "search_paths" THEN PathContains(f, call.query)
     ELSE IsPrefix(call.path, f.path) /\ Len(f.path) - Len(call.path) <= call.depth}
SearchIsComplete(call, result) ==
  \/ Len(result.refs) = call.limit
  \/ CountOf(result, "OMISSION_LIMIT") > 0
  \/ \A f \in {g \in ToSet(Catalog) : g.text /\ InFilter(g, call.path)} :
       \/ \E o \in ToSet(result.omitted) : o.file = f.name
       \/ \A k \in DOMAIN f.lines : LineContains(f.lines[k], call.query) =>
            \E r \in ToSet(result.refs) : r.file = f.name /\ r.first = k
NothingSilentlyOmitted ==
  last # NoLast =>
    /\ last.call.name \in {"list_tree", "search_paths"} =>
         Cardinality(Matching(last.call)) =
           Len(last.result.content) + CountOf(last.result, "LIST_TREE_LIMIT")
             + CountOf(last.result, "SEARCH_PATHS_LIMIT")
    /\ last.call.name = "search_text" => SearchIsComplete(last.call, last.result)

\* An audit answer, on screen or stored, exists exactly for a completed audit
\* turn; all its evidence is in the stored trace of that same turn, each piece
\* returned by a call recorded there; it shows only claims backed by evidence;
\* and a restart would show what the screen shows.
Grounded(t, bundle) ==
  /\ ~bundle.raw /\ \A c \in ToSet(bundle.text) : c.ids # <<>>
  /\ \A c \in ToSet(bundle.claims) : ToSet(c.ids) \subseteq EvidenceIds(bundle)
  /\ ToSet(bundle.evidence) \subseteq ToSet(refs[t])
  /\ EvidenceIds(bundle) \subseteq UNION {r.refs : r \in {x \in records : x.turn = t}}
AuditIsGrounded ==
  \A t \in Turn :
    /\ (audits[t] # {}) = (rows[t].status = "completed" /\ rows[t].contract = "audit")
    /\ \A bundle \in audits[t] : Grounded(t, bundle)
    /\ screen[t].status = "completed" => screen[t] = Restored(t)

\* What is stored with a completed answer stays: no later turn, failed commit or
\* restart takes a record or a reference away from it, whatever ids providers
\* choose for their calls.
EvidenceIsKept ==
  [][\A t \in Turn : rows[t].status = "completed" =>
       rows'[t] = rows[t] /\ LoadTrace(t)' = LoadTrace(t) /\ audits'[t] = audits[t]]_vars
=============================================================================
