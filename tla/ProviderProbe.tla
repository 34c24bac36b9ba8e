---------------------------- MODULE ProviderProbe ----------------------------
(***************************************************************************)
(* MultiProviderAdapter asked about a provider: its models, whether a      *)
(* model answers, whether it calls tools, whether it is reachable.         *)
(*                                                                         *)
(* discover_models, verify_model and health_check are one request each,    *)
(* whose body is read piece by piece up to a limit.  A model that answers  *)
(* is then asked for one tool call (verify_capabilities) through the same  *)
(* agent round that ProviderStream models: that round is a part of this    *)
(* module's behaviours, and so is the stream on its own, as a chat uses    *)
(* it.                                                                     *)
(***************************************************************************)
EXTENDS ProviderStream

CONSTANTS
  DiscoverLimit,  \* 4 MiB of a list of models, in pieces
  VerifyLimit,    \* 1 MiB of an answer, in pieces
  MaxItems        \* entries of a list, parts of an answer (a bound)

ASSUME ProbeAssumption == {DiscoverLimit, VerifyLimit, MaxItems} \subseteq Nat

\* None stands for no refusal.
ASSUME NoRefusalAssumption ==
  None \notin {"EGRESS_VIOLATION", "MODEL_NOT_SELECTED", "LOCAL_RUNTIME_UNAVAILABLE",
               "MISSING_API_KEY", "INVALID_HEADER"}

VARIABLES
  profile,      \* BackendProfile
  op,           \* the operation under way
  stage,        \* "idle", "head", "body", "round", "done"; "chat": none
  wire,         \* requests sent: where to, and whether with the key
  reply,        \* the response, as the provider means it
  received,     \* pieces of its body read so far
  tool,         \* the tool the probe's only call names
  verdict

check == <<profile, op, stage, wire, reply, received, tool, verdict>>
stream == <<request, cancelled, network, at, buffer, decoder, out>>
all == <<check, stream>>

Profiles ==
  [provider : {"openai", "gemini", "mock"}, url : {"safe", "unsafe"},
   key : {"good", "none", "unprintable"}, model : {"named", "blank"}]

\* A list offers ids that are accepted or not, for models that generate or not
\* (Gemini says so); an answer has parts.
Offered == [id : {"a", "b", "bad"}, generates : BOOLEAN]
Parts == {"text", "thought", "blank"}
Items == IF op = "discover" THEN Offered ELSE Parts
Limit == IF op = "discover" THEN DiscoverLimit ELSE VerifyLimit

\* Of the shape expected, JSON of another shape, or no JSON; its length told in
\* advance or not.
Reply(form, size, declared, items) ==
  [form |-> form, size |-> size, declared |-> declared, items |-> items]
NoReply == Reply("none", 0, FALSE, <<>>)
Replies ==
  {Reply("json", n, d, s) : n \in 1..(Limit + 1), d \in BOOLEAN,
                            s \in SeqOf(Items, MaxItems)}
    \cup {Reply(f, n, d, <<>>) : f \in {"other", "torn"}, n \in 1..Limit, d \in BOOLEAN}

Verdict(kind, code, ok, tools, models) ==
  [kind |-> kind, code |-> code, ok |-> ok, tools |-> tools, models |-> models]
NoVerdict == Verdict("none", None, FALSE, FALSE, <<>>)
Error(code) == Verdict("error", code, FALSE, FALSE, <<>>)
Health(ok) == Verdict("health", None, ok, FALSE, <<>>)
Catalog(models) == Verdict("catalog", None, TRUE, FALSE, models)
Model(ok, tools) == Verdict("model", None, ok, tools, <<>>)

Concludes(result) ==
  /\ stage' = "done" /\ verdict' = result
  /\ UNCHANGED <<profile, wire, stream>>

-----------------------------------------------------------------------------
(* The request.                                                             *)

\* validate_url: https, or http to this machine, without a user.
UrlError == IF profile.url = "unsafe" THEN "EGRESS_VIOLATION" ELSE None
ModelError ==
  IF op = "verify" /\ profile.model = "blank" THEN "MODEL_NOT_SELECTED" ELSE None

\* authorization_headers and api_key_header.
HeaderError ==
  IF profile.provider = "mock" THEN "LOCAL_RUNTIME_UNAVAILABLE"
  ELSE IF profile.key = "none" THEN "MISSING_API_KEY"
  ELSE IF profile.key = "unprintable" THEN "INVALID_HEADER"
  ELSE None

\* health_check builds its header itself: it takes a local profile, and
\* Gemini's goes without a key that cannot be printed.
HealthHeaderError ==
  IF profile.provider # "gemini" /\ profile.key = "unprintable"
    THEN "INVALID_HEADER" ELSE None

Refusal ==
  IF UrlError # None THEN UrlError
  ELSE IF ModelError # None THEN ModelError
  ELSE IF op = "health" THEN HealthHeaderError ELSE HeaderError

Endpoint(operation) ==
  CASE operation \in {"discover", "health"} -> "models"
    [] operation = "verify" -> "generate"
    [] operation = "probe" -> "stream"

Sends(operation) ==
  /\ stage' = "head" /\ op' = operation
  /\ wire' = Append(wire, [to |-> Endpoint(operation), keyed |-> profile.key = "good"])
  /\ UNCHANGED <<profile, verdict, stream>>

Ask ==
  /\ stage = "idle"
  /\ UNCHANGED <<reply, received, tool>>
  /\ IF op = "health" /\ profile.key = "none" THEN Concludes(Health(FALSE)) /\ UNCHANGED op
     ELSE IF Refusal # None THEN Concludes(Error(Refusal)) /\ UNCHANGED op
     ELSE Sends(op)

-----------------------------------------------------------------------------
(* The response.  A redirect is not followed: it is a refusal.               *)

HeadRefused ==
  /\ stage = "head"
  /\ Concludes(IF op = "health" THEN Health(FALSE) ELSE Error("HTTP_STATUS"))
  /\ UNCHANGED <<op, reply, received, tool>>

HeadAccepted ==
  /\ stage = "head" /\ op \in {"health", "probe"}
  /\ IF op = "health"
       THEN Concludes(Health(TRUE))
       ELSE stage' = "round" /\ UNCHANGED <<profile, wire, verdict, stream>>
  /\ UNCHANGED <<op, reply, received, tool>>

HeadWithBody(r) ==
  /\ stage = "head" /\ op \in {"discover", "verify"}
  /\ reply' = r /\ received' = 0
  /\ IF r.declared /\ r.size > Limit
       THEN Concludes(Error("RESPONSE_TOO_LARGE"))
       ELSE stage' = "body" /\ UNCHANGED <<profile, wire, verdict, stream>>
  /\ UNCHANGED <<op, tool>>

\* Slip: the limit is looked at before the chunk is added.
ReceiveLate(n) ==
  /\ stage = "body" /\ received + n <= reply.size
  /\ received' = received + n
  /\ IF received > Limit
       THEN Concludes(Error("RESPONSE_TOO_LARGE"))
       ELSE UNCHANGED <<profile, stage, wire, verdict, stream>>
  /\ UNCHANGED <<op, reply, tool>>

Receive(n) ==
  /\ stage = "body" /\ received + n <= reply.size
  /\ received' = received + n
  /\ IF received' > Limit
       THEN Concludes(Error("RESPONSE_TOO_LARGE"))
       ELSE UNCHANGED <<profile, stage, wire, verdict, stream>>
  /\ UNCHANGED <<op, reply, tool>>

\* The connection breaks, or the timer of the whole request fires.
NetworkFails ==
  /\ stage \in {"head", "body"}
  /\ Concludes(IF op = "health" THEN Health(FALSE) ELSE Error("NETWORK_ERROR"))
  /\ UNCHANGED <<op, reply, received, tool>>

\* ModelCatalog::from_untrusted, of the models that generate.
Usable(items) ==
  LET good(i) == items[i].id # "bad" /\ (profile.provider # "gemini" \/ items[i].generates)
      first(i) == good(i) /\ \A j \in 1..(i - 1) : good(j) => items[j].id # items[i].id
      taken == Ascending({i \in DOMAIN items : first(i)})
  IN [k \in DOMAIN taken |-> items[taken[k]].id]

Listed(models) == IF models = <<>> THEN Error("DISCOVERY_EMPTY") ELSE Catalog(models)

\* OpenAI: the content of the first choice; Gemini: any part but a thought.
HasText(parts) ==
  IF profile.provider = "gemini"
    THEN "text" \in ToSet(parts)
    ELSE parts # <<>> /\ parts[1] = "text"

\* A body whose length was not told may end anywhere.
BodyEnds ==
  /\ stage = "body"
  /\ received = reply.size \/ ~reply.declared
  /\ reply' = NoReply /\ received' = 0 /\ UNCHANGED tool
  /\ \/ /\ received < reply.size \/ reply.form = "torn"
        /\ Concludes(Error("INVALID_JSON")) /\ UNCHANGED op
     \/ /\ received = reply.size /\ reply.form # "torn" /\ op = "discover"
        /\ Concludes(IF reply.form = "other" THEN Error("INVALID_SCHEMA")
                     ELSE Listed(Usable(reply.items)))
        /\ UNCHANGED op
     \/ /\ received = reply.size /\ reply.form # "torn" /\ op = "verify"
        /\ IF HasText(reply.items)
             THEN Sends("probe")
             ELSE Concludes(Model(FALSE, FALSE)) /\ UNCHANGED op

-----------------------------------------------------------------------------
(* verify_capabilities.  The token is its own and never cancelled; a parsed  *)
(* call always has the probe's snapshot.                                     *)

\* Slip: any call will do.
ProbeEndsOnCall(name) ==
  /\ stage = "round" /\ at = "ended"
  /\ tool' = IF Last(out).type = "calls" THEN name ELSE None
  /\ Concludes(
       CASE Last(out).type = "failed" -> Error(Last(out).data)
         [] Last(out).type = "calls" -> Model(TRUE, name = "repo_status")
         [] Last(out).type = "completed" -> Model(TRUE, FALSE))
  /\ UNCHANGED <<op, reply, received>>

ProbeEnds(name) ==
  /\ stage = "round" /\ at = "ended"
  /\ tool' = IF Last(out).type = "calls" THEN name ELSE None
  /\ Concludes(
       CASE Last(out).type = "failed" -> Error(Last(out).data)
         [] Last(out).type = "calls" ->
              Model(TRUE, Len(Last(out).data) = 1 /\ name = "repo_status")
         [] Last(out).type = "completed" -> Model(TRUE, FALSE))
  /\ UNCHANGED <<op, reply, received>>

RoundStep ==
  /\ stage = "round"
  /\ UNCHANGED check
  /\ \/ \E line \in Lines : Write(line)
     \/ \E n \in 1..(2 * MaxLines) : Chunk(n)
     \/ EndOfBody
     \/ ReadError
     \/ TakeLine
     \/ TakeDone

ChatStep == stage = "chat" /\ UNCHANGED check /\ Next

-----------------------------------------------------------------------------
RoundOf(provider) == IF provider = "gemini" THEN "geminiRound" ELSE "openaiRound"

ProbeInit ==
  /\ Init
  /\ wire = <<>> /\ reply = NoReply /\ received = 0 /\ tool = None /\ verdict = NoVerdict
  /\ profile \in Profiles
  /\ \/ /\ stage = "chat" /\ op = "none"
        /\ profile = [provider |-> "openai", url |-> "safe", key |-> "good", model |-> "named"]
     \/ /\ stage = "idle" /\ op \in {"discover", "verify", "health"}
        /\ adapter = RoundOf(profile.provider) /\ grounded

ProbeNext ==
  \/ Ask
  \/ HeadRefused
  \/ HeadAccepted
  \/ \E r \in Replies : HeadWithBody(r)
  \/ \E n \in 1..reply.size : Receive(n)
  \/ NetworkFails
  \/ BodyEnds
  \/ \E name \in {"repo_status", "other"} : ProbeEnds(name)
  \/ RoundStep
  \/ ChatStep

\* As FairSpec of the stream; the timer of a request fires, and a task that can
\* go on without the provider does.
Polled(A) == stage \in {"chat", "round"} /\ UNCHANGED check /\ A
ProbeSpec ==
  /\ ProbeInit /\ [][ProbeNext]_all
  /\ WF_all(Polled(TakeLine)) /\ WF_all(Polled(TakeDone)) /\ WF_all(Polled(CancelSeen))
  /\ WF_all(Ask) /\ WF_all(NetworkFails)
  /\ WF_all(stage = "round" /\ UNCHANGED check /\ ReadError)
  /\ WF_all(\E name \in {"repo_status", "other"} : ProbeEnds(name))

-----------------------------------------------------------------------------
(* Properties.                                                              *)

ProbeTypeOK ==
  /\ profile \in Profiles
  /\ stage \in {"idle", "head", "body", "round", "done", "chat"}
  /\ op \in {"none", "discover", "verify", "probe", "health"}
  /\ tool \in {None, "repo_status", "other"}
  /\ verdict.kind \in {"none", "error", "health", "catalog", "model"}
  \* no more of a body is kept than its limit; a key goes to a checked URL
  /\ stage = "body" => received <= Limit
  /\ \A k \in DOMAIN wire : wire[k].keyed => profile.url = "safe"

\* What the setup is told has been seen: a model that is listed was offered, and
\* once; one that is called compatible, or asked for a tool call, has answered
\* with visible text in a body that arrived whole; and one that may use the
\* repository has, in a round after that, asked for repo_status in one whole call
\* and nothing else.
Arrived(limit) == received = reply.size /\ received <= limit
CatalogIsEarned(models) ==
  /\ Arrived(DiscoverLimit) /\ models # <<>> /\ IsInjective(models)
  /\ \A id \in ToSet(models) :
       /\ id # "bad"
       /\ \E i \in ToSet(reply.items) :
            i.id = id /\ (profile.provider = "gemini" => i.generates)
VerdictIsEarned ==
  [][/\ verdict'.kind = "catalog" /\ verdict # verdict' => CatalogIsEarned(verdict'.models)
     /\ op' = "probe" /\ op # op' => Arrived(VerifyLimit) /\ HasText(reply.items)
     /\ verdict'.kind = "model" =>
          /\ verdict'.ok <=> op' = "probe"
          /\ verdict'.tools => /\ tool' = "repo_status"
                               /\ Opened(Received) = {1} /\ Last(out).data = <<1>>]_all

\* A check of a provider ends, whatever the provider does or leaves undone.
CheckEnds == stage = "idle" ~> stage = "done"

\* A cancelled stream and a check both end, whatever the provider leaves undone.
SilenceEnds == CancelEnds /\ CheckEnds
=============================================================================
