------------------------ MODULE GroundedAnswerProofs ------------------------
(***************************************************************************)
(* Proofs about GroundedAnswer for every snapshot, whatever the provider   *)
(* asks and answers, however files change and whenever the process stops:  *)
(* evidence is original, an audit answer rests on the evidence stored with *)
(* it, what is stored with a completed answer stays.                       *)
(***************************************************************************)
EXTENDS GroundedAnswer, FiniteSetTheorems, TLAPS

Files == ToSet(Scanned)
Shown == {f \in Files : ~f.sensitive}

\* References to original lines, in the records that source_ref makes.
References ==
  {r \in [id : Nat, file : {f.name : f \in Files}, first : Nat, last : Nat,
          excerpt : Seq({Hidden} \cup UNION {ToSet(f.lines) : f \in Files})] : Original(r)}
Codes == {None, "TOOL_QUERY_INVALID", "EXTERNAL_PATH_BLOCKED", "SOURCE_LIVE_HASH_MISMATCH",
          "SEARCH_FILE_TOO_LARGE", "SEARCH_READ_FAILED", "OMISSION_LIMIT"}
Omissions == [code : Codes, file : {None} \cup {f.name : f \in Files}, count : Nat]

Searches == [rest : Seq(Shown), refs : Seq(References), omitted : Seq(Omissions), code : Codes]

CallShape(c) == c = [id |-> c.id, round |-> c.round, name |-> c.name, refs |-> c.refs]
MessageShape(m) == m = [status |-> m.status, trace |-> m.trace, audit |-> m.audit]

\* The disk, the process and the bounds.
Typed ==
  /\ disk \in [DOMAIN disk -> {"same", "changed", "gone"}]
  /\ gateway \in {"fresh", "stale", "none"} /\ cancelled \in BOOLEAN
  /\ phase \in {"idle", "round", "search", "answered"}
  /\ now \in 0..MaxTurns /\ grounded \in BOOLEAN
  /\ asked \in 0..MaxCalls /\ faults \in 0..MaxFaults

\* The trace holds references of the scan, each of them in the record of a call.
Traced ==
  /\ trace = [calls |-> trace.calls, refs |-> trace.refs]
  /\ trace.refs \in Seq(References)
  /\ \A c \in trace.calls : CallShape(c)
  /\ \A r \in ToSet(trace.refs) : \E c \in trace.calls : r.id \in c.refs

\* A search has files to read only while another omission can be noted.
Searching ==
  phase = "search" =>
    /\ search.call \in Asked /\ WellFormed(search.call) /\ search.call.name = "search_text"
    /\ search = [call |-> search.call, id |-> search.id, acc |-> search.acc]
    /\ search.acc \in Searches
    /\ Len(search.acc.omitted) <= MaxOmissions
    /\ search.acc.rest # <<>> => Len(search.acc.omitted) < MaxOmissions

\* A result that was answered fits.
Fits(r) == 1 + Len(r.content) + Len(r.refs) + Len(r.omitted) <= MaxResult
Answers == last # NoLast => Fits(last.result)

\* A bundle rests on the references ids, whose ids are recorded.
Backed(bundle, seen) ==
  /\ ~bundle.raw /\ \A c \in ToSet(bundle.text) : c.ids # <<>>
  /\ \A c \in ToSet(bundle.claims) : ToSet(c.ids) \subseteq EvidenceIds(bundle)
  /\ ToSet(bundle.evidence) \subseteq ToSet(seen)

\* A turn that runs is pending, later ones do not exist; an answer is due to an audit.
Running ==
  /\ rows \in [Turn -> [status : {"none", "pending", "completed", "failed", "cancelled"},
                        contract : Contracts, traced : BOOLEAN]]
  /\ phase # "idle" => now \in Turn /\ rows[now].status = "pending"
  /\ \A t \in Turn : t > now => rows[t].status = "none"
  /\ phase = "answered" =>
       /\ (answer # {}) <=> (rows[now].contract = "audit")
       /\ \A bundle \in answer : Backed(bundle, trace.refs)

\* What AuditIsGrounded says of one turn, and the records of it.
RecordsOf(t) == {x \in records : x.turn = t}
HeldAt(t) ==
  /\ (audits[t] # {}) <=> (rows[t].status = "completed" /\ rows[t].contract = "audit")
  /\ \A bundle \in audits[t] : Grounded(t, bundle)
  /\ screen[t].status = "completed" => screen[t] = Restored(t)

\* The evidence that is stored and what the screen shows of it.
Stored ==
  /\ refs \in [Turn -> Seq(References)]
  /\ audits = [t \in Turn |-> audits[t]]
  /\ screen = [t \in Turn |-> screen[t]] /\ \A t \in Turn : MessageShape(screen[t])
  /\ \A t \in Turn : HeldAt(t)

IInv == Typed /\ Traced /\ Searching /\ Answers /\ Running /\ Stored

\* No file is named as a private key block begins.
PlainNames == \A f \in ToSet(Scanned) : f.name # "begin"

\* A search has told of a file: it may skip it, names it as left out, or shows
\* every line of it that matches.
Told(f, found, omitted, call) ==
  f.text /\ InFilter(f, call.path) =>
    \/ \E o \in ToSet(omitted) : o.file = f.name
    \/ \A k \in DOMAIN f.lines : LineContains(f.lines[k], call.query) =>
         \E r \in ToSet(found) : r.file = f.name /\ r.first = k

\* What a search has told so far.
Covers(acc, call) ==
  /\ \A o \in ToSet(acc.omitted) : o.count > 0
  /\ acc.code = None =>
       \/ Len(acc.refs) = call.limit
       \/ \E o \in ToSet(acc.omitted) : o.code = "OMISSION_LIMIT"
       \/ \A f \in ToSet(Catalog) :
            f \in ToSet(acc.rest) \/ Told(f, acc.refs, acc.omitted, call)

\* A search under way has told of the files it has left behind.
Covering == phase = "search" => Covers(search.acc, search.call)

\* What a result of a call says of what it leaves out.
Tells(call, result) ==
  /\ call.name \in {"list_tree", "search_paths"} =>
       Cardinality(Matching(call)) =
         Len(result.content) + CountOf(result, "LIST_TREE_LIMIT")
           + CountOf(result, "SEARCH_PATHS_LIMIT")
  /\ call.name = "search_text" => SearchIsComplete(call, result)

\* What a step does to the turn: eight kinds.
Begins == \E contract \in Contracts, repository \in BOOLEAN : Begin(contract, repository)
Grows ==
  /\ phase \in {"round", "search"}
  /\ \E call, id, result : /\ result.code = None /\ result.refs \in Seq(References)
                          /\ Fits(result) /\ Answered(call, id, result)
Seeks ==
  /\ phase \in {"round", "search"} /\ phase' = "search" /\ Searching'
  /\ UNCHANGED <<now, grounded, trace, last, answer, database, screen>>
Completes ==
  /\ phase = "round" /\ phase' = "answered"
  /\ (answer' # {}) <=> (rows[now].contract = "audit")
  /\ \A bundle \in answer' : Backed(bundle, trace.refs)
  /\ UNCHANGED <<now, grounded, trace, search, last, database, screen>>
Stops ==
  /\ phase # "idle"
  /\ \E status \in {"failed", "cancelled"} : Stopped(status)
Rests == UNCHANGED <<phase, now, grounded, trace, search, last, answer, database, screen>>

-----------------------------------------------------------------------------
(* The sequences of the tools.                                              *)

\* The numbers of a set, each at the place that counts those up to it.
LEMMA AscendingOK ==
  ASSUME NEW K \in SUBSET Nat, IsFiniteSet(K)
  PROVE  /\ Cardinality(K) \in Nat
         /\ Ascending(K) \in [1..Cardinality(K) -> K]
         /\ \A i \in 1..Cardinality(K) :
              Cardinality({m \in K : m <= Ascending(K)[i]}) = i
<1> DEFINE upTo(x) == {m \in K : m <= x}
           n == Cardinality(K)
           place == [x \in K |-> Cardinality(upTo(x))]
<1>1. n \in Nat
  BY FS_CardinalityType
<1>2. \A x \in K : IsFiniteSet(upTo(x)) /\ Cardinality(upTo(x)) <= n /\ Cardinality(upTo(x)) \in Nat
  <2>1. \A x \in K : upTo(x) \in SUBSET K
    OBVIOUS
  <2> HIDE DEF upTo
  <2>2. QED
    BY <2>1, FS_Subset, FS_CardinalityType
<1>3. \A x \in K : Cardinality(upTo(x)) # 0
  <2>1. ASSUME NEW x \in K PROVE x \in upTo(x)
    OBVIOUS
  <2> HIDE DEF upTo
  <2>2. QED
    BY <1>2, <2>1, FS_EmptySet
<1>4. place \in [K -> 1..n]
  <2> HIDE DEF upTo, n
  <2>1. QED
    BY <1>1, <1>2, <1>3
<1>5. \A x, y \in K : x < y => place[x] # place[y]
  <2>1. ASSUME NEW x \in K, NEW y \in K, x < y
        PROVE  upTo(x) \in SUBSET upTo(y) /\ upTo(x) # upTo(y)
    <3>1. y \in upTo(y) /\ y \notin upTo(x)
      BY <2>1
    <3>2. \A m \in K : m <= x => m <= y
      BY <2>1
    <3>3. QED
      BY <3>1, <3>2
  <2> HIDE DEF upTo
  <2>2. QED
    BY <1>2, <2>1, FS_Subset
<1>6. place \in Injection(K, 1..n)
  <2> HIDE DEF place
  <2>1. \A x, y \in K : x # y => x < y \/ y < x
    OBVIOUS
  <2>2. \A a, b \in DOMAIN place : place[a] = place[b] => a = b
    BY <1>4, <1>5, <2>1
  <2>3. QED
    BY <1>4, <2>2 DEF Injection, IsInjective
<1>7. IsFiniteSet(1..n) /\ Cardinality(1..n) = n
  BY <1>1, FS_Interval
<1>8. place \in Surjection(K, 1..n)
  <2> HIDE DEF place, n
  <2>1. Cardinality(K) = n
    BY DEF n
  <2>2. QED
    BY <1>6, <1>7, <2>1, FS_Injection
<1>9. \A i \in 1..n : \E x \in K : Cardinality(upTo(x)) = i
  <2> HIDE DEF n
  <2>1. \A i \in 1..n : \E x \in K : place[x] = i
    BY <1>8 DEF Surjection
  <2>2. QED
    BY <2>1
<1>10. Ascending(K) = [i \in 1..n |-> CHOOSE x \in K : Cardinality(upTo(x)) = i]
  BY DEF Ascending
<1>11. \A i \in 1..n : Ascending(K)[i] \in K /\ Cardinality(upTo(Ascending(K)[i])) = i
  <2> HIDE DEF upTo, n
  <2>1. QED
    BY <1>9, <1>10
<1>12. QED
  BY <1>1, <1>10, <1>11

\* Every number of the set has its place.
LEMMA AscendingOnto ==
  ASSUME NEW K \in SUBSET Nat, IsFiniteSet(K), NEW k \in K
  PROVE  \E i \in 1..Cardinality(K) : Ascending(K)[i] = k
<1> DEFINE upTo(x) == {m \in K : m <= x}
           n == Cardinality(K)
<1>1. /\ n \in Nat /\ Ascending(K) \in [1..n -> K]
      /\ \A i \in 1..n : Cardinality(upTo(Ascending(K)[i])) = i
  BY AscendingOK
<1>2. Ascending(K) \in Injection(1..n, K)
  <2> HIDE DEF upTo, n
  <2>1. \A i, j \in 1..n : Ascending(K)[i] = Ascending(K)[j] => i = j
    BY <1>1
  <2>2. QED
    BY <1>1, <2>1 DEF Injection, IsInjective
<1>3. Ascending(K) \in Surjection(1..n, K)
  <2>1. IsFiniteSet(1..n) /\ Cardinality(1..n) = Cardinality(K)
    BY <1>1, FS_Interval
  <2>2. QED
    BY <1>2, <2>1, FS_Injection
<1>4. QED
  BY <1>3 DEF Surjection

\* All numbers up to one stay where they are.
LEMMA AscendingUpTo ==
  ASSUME NEW n \in Nat
  PROVE  Ascending(1..n) = [i \in 1..n |-> i]
<1>1. IsFiniteSet(1..n) /\ Cardinality(1..n) = n /\ 1..n \in SUBSET Nat
  BY FS_Interval
<1>2. /\ Ascending(1..n) \in [1..n -> 1..n]
      /\ \A i \in 1..n : Cardinality({m \in 1..n : m <= Ascending(1..n)[i]}) = i
  BY <1>1, AscendingOK
<1>3. \A i \in 1..n : Ascending(1..n)[i] = i
  <2>1. ASSUME NEW i \in 1..n PROVE Ascending(1..n)[i] = i
    <3> DEFINE k == Ascending(1..n)[i]
    <3>1. k \in 1..n
      BY <1>2
    <3>2. Cardinality({m \in 1..n : m <= k}) = i
      BY <1>2
    <3> HIDE DEF k
    <3>3. {m \in 1..n : m <= k} = 1..k
      BY <3>1
    <3>4. Cardinality(1..k) = k
      BY <3>1, FS_Interval
    <3>5. QED
      BY <3>2, <3>3, <3>4 DEF k
  <2>2. QED
    BY <2>1
<1>4. QED
  BY <1>2, <1>3

\* What redaction leaves is a sequence of the lines and the mark.
LEMMA RedactOK ==
  ASSUME NEW S, NEW lines \in Seq(S)
  PROVE  /\ Redact(lines) \in Seq({Hidden} \cup S)
         /\ \A i \in DOMAIN Redact(lines) : Redact(lines)[i] \notin {"begin", "token", "random"}
<1> DEFINE K == {k \in DOMAIN lines : ~InBlock(lines, k)}
           kept == Ascending(K)
           out == [i \in DOMAIN kept |-> RedactRandom(RedactLine(lines[kept[i]]))]
<1>1. DOMAIN lines = 1..Len(lines) /\ Len(lines) \in Nat
  OBVIOUS
<1>2. K \in SUBSET (1..Len(lines)) /\ K \in SUBSET Nat
  BY <1>1
<1>3. IsFiniteSet(K)
  <2> HIDE DEF K
  <2>1. IsFiniteSet(1..Len(lines))
    BY <1>1, FS_Interval
  <2>2. QED
    BY <1>2, <2>1, FS_Subset
<1>4. Redact(lines) = out
  BY DEF Redact
<1> DEFINE n == Cardinality(K)
<1>5. n \in Nat /\ kept \in [1..n -> K]
  <2> HIDE DEF K
  <2>1. QED
    BY <1>2, <1>3, AscendingOK
<1>6. \A i \in 1..n : lines[kept[i]] \in S
  <2> HIDE DEF K, kept, n
  <2>1. \A i \in 1..n : kept[i] \in K
    BY <1>5
  <2>2. \A i \in 1..n : kept[i] \in 1..Len(lines)
    BY <1>2, <2>1
  <2>3. \A k \in 1..Len(lines) : lines[k] \in S
    OBVIOUS
  <2>4. QED
    BY <2>2, <2>3
<1>7. \A line : /\ RedactRandom(RedactLine(line)) \in {Hidden, line}
                /\ RedactRandom(RedactLine(line)) \notin {"begin", "token", "random"}
  BY DEF RedactRandom, RedactLine, Hidden
<1> HIDE DEF K, kept, n
<1>8. out \in [1..n -> {Hidden} \cup S]
  BY <1>5, <1>6, <1>7
<1>9. \A i \in DOMAIN out : out[i] \notin {"begin", "token", "random"}
  BY <1>7
<1> HIDE DEF out
<1>10. QED
  BY <1>4, <1>5, <1>8, <1>9

\* Redaction takes a line away only from a private key block.
LEMMA RedactLength ==
  ASSUME NEW S, NEW lines \in Seq(S), \A i \in DOMAIN lines : lines[i] # "begin"
  PROVE  Len(Redact(lines)) = Len(lines)
<1>1. DOMAIN lines = 1..Len(lines) /\ Len(lines) \in Nat
  OBVIOUS
<1>2. \A k \in DOMAIN lines : ~InBlock(lines, k)
  <2>1. ASSUME NEW k \in DOMAIN lines, NEW j \in 1..(k - 1) PROVE lines[j] # "begin"
    BY <1>1
  <2>2. QED
    BY <2>1 DEF InBlock
<1>3. {k \in DOMAIN lines : ~InBlock(lines, k)} = 1..Len(lines)
  BY <1>1, <1>2
<1>4. Ascending(1..Len(lines)) = [i \in 1..Len(lines) |-> i]
  BY <1>1, AscendingUpTo
<1>5. Redact(lines) = [i \in 1..Len(lines) |-> RedactRandom(RedactLine(lines[i]))]
  BY <1>3, <1>4 DEF Redact
<1>6. QED
  BY <1>1, <1>5

\* What was redacted is not redacted further.
LEMMA RedactIdle ==
  ASSUME NEW S, NEW lines \in Seq(S),
         \A i \in DOMAIN lines : lines[i] \notin {"begin", "token", "random"}
  PROVE  Redact(lines) = lines
<1>1. DOMAIN lines = 1..Len(lines) /\ Len(lines) \in Nat
  OBVIOUS
<1>2. \A k \in DOMAIN lines : ~InBlock(lines, k)
  <2>1. ASSUME NEW k \in DOMAIN lines, NEW j \in 1..(k - 1) PROVE lines[j] # "begin"
    BY <1>1
  <2>2. QED
    BY <2>1 DEF InBlock
<1>3. {k \in DOMAIN lines : ~InBlock(lines, k)} = 1..Len(lines)
  BY <1>1, <1>2
<1>4. Ascending(1..Len(lines)) = [i \in 1..Len(lines) |-> i]
  BY <1>1, AscendingUpTo
<1>5. Redact(lines) = [i \in 1..Len(lines) |-> RedactRandom(RedactLine(lines[i]))]
  BY <1>3, <1>4 DEF Redact
<1>6. \A i \in 1..Len(lines) : RedactRandom(RedactLine(lines[i])) = lines[i]
  BY <1>1 DEF RedactRandom, RedactLine
<1>7. QED
  BY <1>1, <1>5, <1>6

\* The first lines of a sequence.
LEMMA TakeOK ==
  ASSUME NEW S, NEW seq \in Seq(S), NEW n \in Nat
  PROVE  /\ Take(seq, n) \in Seq(S)
         /\ \A i \in DOMAIN Take(seq, n) : i \in DOMAIN seq /\ Take(seq, n)[i] = seq[i]
BY DEF Take

\* A sequence that is not longer is taken whole.
LEMMA TakeLength ==
  ASSUME NEW S, NEW seq \in Seq(S), NEW n \in Nat
  PROVE  /\ Take(seq, n) \in Seq(S)
         /\ Len(Take(seq, n)) = IF Len(seq) <= n THEN Len(seq) ELSE n
         /\ Len(seq) <= n => Take(seq, n) = seq
         /\ \A i \in 1..n : i <= Len(seq) => i \in DOMAIN Take(seq, n) /\ Take(seq, n)[i] = seq[i]
BY DEF Take

\* An excerpt is redacted once: doing it again, as the tail of execute does, changes nothing.
LEMMA RedactSettles ==
  ASSUME NEW S, NEW lines \in Seq(S), NEW n \in Nat
  PROVE  /\ Redact(Take(Redact(lines), n)) = Take(Redact(lines), n)
         /\ Take(Redact(lines), n) \in Seq({Hidden} \cup S)
<1> DEFINE out == Redact(lines)
           cut == Take(out, n)
           T == {Hidden} \cup S
<1>1. /\ out \in Seq(T)
      /\ \A i \in DOMAIN out : out[i] \notin {"begin", "token", "random"}
  BY RedactOK
<1> HIDE DEF out, T
<1>2. cut \in Seq(T) /\ \A i \in DOMAIN cut : cut[i] \notin {"begin", "token", "random"}
  BY <1>1, TakeOK
<1> HIDE DEF cut
<1>3. Redact(cut) = cut
  BY <1>2, RedactIdle
<1>4. QED
  BY <1>2, <1>3 DEF cut, out, T

\* The ranks of the files shown are finitely many numbers.
LEMMA RanksOK ==
  LET ranks == {f.rank : f \in {g \in ToSet(Scanned) : ~Sensitive(g)}}
  IN ranks \in SUBSET Nat /\ IsFiniteSet(ranks)
<1> DEFINE rankset == {f.rank : f \in {g \in ToSet(Scanned) : ~Sensitive(g)}}
           rankOf == [k \in 1..Len(Scanned) |-> Scanned[k].rank]
           all == {Scanned[k].rank : k \in 1..Len(Scanned)}
<1>1. Scanned \in Seq(ToSet(Scanned)) /\ \A f \in ToSet(Scanned) : f.rank \in Nat
  BY ToolsAssumption
<1>2. ToSet(Scanned) = {Scanned[k] : k \in 1..Len(Scanned)}
  BY <1>1 DEF ToSet
<1>3. rankset \in SUBSET all /\ rankset \in SUBSET Nat
  BY <1>1, <1>2
<1>4. IsFiniteSet(all)
  <2>1. IsFiniteSet(1..Len(Scanned))
    BY <1>1, FS_Interval
  <2>2. rankOf \in Surjection(1..Len(Scanned), all)
    BY DEF Surjection
  <2> HIDE DEF rankOf, all
  <2>3. QED
    BY <2>1, <2>2, FS_Surjection
<1> HIDE DEF rankset, all
<1>5. IsFiniteSet(rankset)
  BY <1>3, <1>4, FS_Subset
<1>6. QED
  BY <1>3, <1>5 DEF rankset

\* The catalog lists files that may be shown.
LEMMA CatalogOK == Catalog \in Seq(Shown)
<1> DEFINE shown == {f \in ToSet(Scanned) : ~Sensitive(f)}
           rankset == {f.rank : f \in shown}
           ranks == Ascending(rankset)
           n == Cardinality(rankset)
<1>1. Scanned \in Seq(ToSet(Scanned)) /\ \A f \in ToSet(Scanned) : f.rank \in Nat
  BY ToolsAssumption
<1>3. shown \in SUBSET Shown /\ shown \in SUBSET ToSet(Scanned)
  BY DEF Shown, Files, Sensitive
<1>4. rankset \in SUBSET Nat /\ IsFiniteSet(rankset)
  BY RanksOK
<1>5. n \in Nat /\ ranks \in [1..n -> rankset]
  <2> HIDE DEF rankset
  <2>1. QED
    BY <1>4, AscendingOK
<1>6. Catalog = [k \in 1..n |-> CHOOSE f \in shown : f.rank = ranks[k]]
  <2>1. DOMAIN ranks = 1..n
    <3> HIDE DEF ranks, n
    <3>1. QED
      BY <1>5
  <2>2. Catalog = [k \in DOMAIN ranks |-> CHOOSE f \in shown : f.rank = ranks[k]]
    BY DEF Catalog
  <2> HIDE DEF ranks, n
  <2>3. QED
    BY <2>1, <2>2
<1>7. \A k \in 1..n : (CHOOSE f \in shown : f.rank = ranks[k]) \in Shown
  <2>1. \A k \in 1..n : ranks[k] \in rankset
    <3> HIDE DEF ranks, rankset, n
    <3>1. QED
      BY <1>5
  <2>2. \A k \in 1..n : \E f \in shown : f.rank = ranks[k]
    <3> HIDE DEF ranks, n, shown
    <3>1. QED
      BY <2>1
  <2> HIDE DEF ranks, n, shown
  <2>3. QED
    BY <1>3, <2>2
<1>8. QED
  <2> HIDE DEF ranks, n, shown
  <2>1. QED
    BY <1>5, <1>6, <1>7

\* The catalog lists a file once.
LEMMA CatalogOnce ==
  ASSUME NEW k \in DOMAIN Catalog, NEW m \in DOMAIN Catalog, Catalog[k] = Catalog[m]
  PROVE  k = m
<1> DEFINE shown == {f \in ToSet(Scanned) : ~Sensitive(f)}
           rankset == {f.rank : f \in shown}
           ranks == Ascending(rankset)
           n == Cardinality(rankset)
<1>1. rankset \in SUBSET Nat /\ IsFiniteSet(rankset)
  BY RanksOK
<1>2. /\ n \in Nat /\ ranks \in [1..n -> rankset]
      /\ \A i \in 1..n : Cardinality({x \in rankset : x <= ranks[i]}) = i
  <2> HIDE DEF rankset
  <2>1. QED
    BY <1>1, AscendingOK
<1>3. DOMAIN Catalog = 1..n /\ \A i \in 1..n : Catalog[i] = CHOOSE f \in shown : f.rank = ranks[i]
  <2>1. Catalog = [i \in DOMAIN ranks |-> CHOOSE f \in shown : f.rank = ranks[i]]
    BY DEF Catalog
  <2> HIDE DEF ranks, n, shown
  <2>2. QED
    BY <1>2, <2>1
<1>4. \A i \in 1..n : Catalog[i].rank = ranks[i]
  <2>1. \A i \in 1..n : ranks[i] \in rankset
    <3> HIDE DEF ranks, rankset, n
    <3>1. QED
      BY <1>2
  <2>2. \A i \in 1..n : \E f \in shown : f.rank = ranks[i]
    <3> HIDE DEF ranks, n, shown
    <3>1. QED
      BY <2>1
  <2> HIDE DEF ranks, n, shown
  <2>3. QED
    BY <1>3, <2>2
<1> HIDE DEF ranks, n, shown, rankset
<1>5. ranks[k] = ranks[m] /\ k \in 1..n /\ m \in 1..n
  BY <1>3, <1>4
<1>6. Cardinality({x \in rankset : x <= ranks[k]}) = k /\ Cardinality({x \in rankset : x <= ranks[m]}) = m
  BY <1>2, <1>5
<1>7. QED
  BY <1>5, <1>6

\* Some files of the catalog: each of them once.
LEMMA AmongOK ==
  ASSUME NEW F \in SUBSET ToSet(Catalog)
  PROVE  /\ Among(F) \in Seq(Shown) /\ IsFiniteSet(F)
         /\ Len(Among(F)) = Cardinality(F)
<1> DEFINE K == {k \in DOMAIN Catalog : Catalog[k] \in F}
           at == Ascending(K)
           n == Cardinality(K)
           pick == [k \in K |-> Catalog[k]]
<1>1. Catalog \in Seq(Shown) /\ DOMAIN Catalog = 1..Len(Catalog) /\ Len(Catalog) \in Nat
  BY CatalogOK
<1>2. K \in SUBSET (1..Len(Catalog)) /\ K \in SUBSET Nat
  BY <1>1
<1>3. IsFiniteSet(K)
  <2> HIDE DEF K
  <2>1. IsFiniteSet(1..Len(Catalog))
    BY <1>1, FS_Interval
  <2>2. QED
    BY <1>2, <2>1, FS_Subset
<1>4. n \in Nat /\ at \in [1..n -> K]
  <2> HIDE DEF K
  <2>1. QED
    BY <1>2, <1>3, AscendingOK
<1>5. pick \in Surjection(K, F)
  <2>1. \A f \in F : \E k \in K : Catalog[k] = f
    BY DEF ToSet
  <2>2. \A k \in K : Catalog[k] \in F
    OBVIOUS
  <2> HIDE DEF K
  <2>3. QED
    BY <2>1, <2>2 DEF Surjection
<1>6. pick \in Injection(K, F)
  <2>1. \A k, m \in K : Catalog[k] = Catalog[m] => k = m
    BY CatalogOnce
  <2>2. \A k \in K : Catalog[k] \in F
    OBVIOUS
  <2> HIDE DEF K
  <2>3. QED
    BY <2>1, <2>2 DEF Injection, IsInjective
<1>7. IsFiniteSet(F) /\ Cardinality(F) = n
  <2> HIDE DEF pick, K
  <2>1. QED
    BY <1>3, <1>5, <1>6, FS_Surjection
<1>8. Among(F) = [i \in DOMAIN at |-> Catalog[at[i]]]
  BY DEF Among
<1>9. \A k \in K : Catalog[k] \in Shown
  BY <1>1
<1> HIDE DEF K, at, n
<1>10. Among(F) = [i \in 1..n |-> Catalog[at[i]]] /\ \A i \in 1..n : Catalog[at[i]] \in Shown
  BY <1>4, <1>8, <1>9
<1>11. Among(F) \in [1..n -> Shown] /\ n \in Nat
  BY <1>4, <1>10
<1> HIDE DEF Among
<1>12. Among(F) \in Seq(Shown) /\ Len(Among(F)) = n
  BY <1>11
<1>13. QED
  BY <1>7, <1>12

\* A name is the name of one file.
LEMMA OneFile == ASSUME NEW f \in Files PROVE FileOf(f.name) = f
BY ToolsAssumption DEF FileOf, Files

\* A reference to lines of a file as it was scanned.
LEMMA SourceRefOK ==
  ASSUME NEW f \in Shown, f.text, NEW id \in Nat, NEW from \in Nat, NEW to \in Nat,
         1 <= from, from <= to, to <= Len(f.lines)
  PROVE  SourceRef(id, f, from, to, SubSeq(f.lines, from, to)) \in References
<1> DEFINE lines == SubSeq(f.lines, from, to)
           ref == SourceRef(id, f, from, to, lines)
           chars == {Hidden} \cup UNION {ToSet(g.lines) : g \in Files}
<1>1. f \in Files /\ ~f.sensitive /\ f.lines \in Seq(ToSet(f.lines)) /\ MaxExcerpt \in Nat
  BY ToolsAssumption DEF Shown, Files
<1>2. lines \in Seq(ToSet(f.lines))
  <2>1. \A S : \A s \in Seq(S) : from >= 1 /\ to <= Len(s) => SubSeq(s, from, to) \in Seq(S)
    OBVIOUS
  <2>2. QED
    BY <1>1, <2>1
<1>3. Take(Redact(lines), MaxExcerpt) \in Seq({Hidden} \cup ToSet(f.lines))
  <2> HIDE DEF lines
  <2>1. QED
    BY <1>1, <1>2, RedactSettles
<1>4. Take(Redact(lines), MaxExcerpt) \in Seq(chars)
  <2>1. ({Hidden} \cup ToSet(f.lines)) \in SUBSET chars
    BY <1>1
  <2> HIDE DEF chars, lines
  <2>2. QED
    BY <1>3, <2>1
<1>5. ref = [id |-> id, file |-> f.name, first |-> from, last |-> to,
             excerpt |-> Take(Redact(lines), MaxExcerpt)]
  BY DEF SourceRef
<1>6. FileOf(f.name) = f
  BY <1>1, OneFile
<1>7. Original(ref)
  <2> HIDE DEF lines
  <2>1. /\ ref.file = f.name /\ ref.first = from /\ ref.last = to
        /\ ref.excerpt = Take(Redact(lines), MaxExcerpt)
    BY <1>5
  <2> HIDE DEF ref
  <2>2. QED
    BY <1>1, <1>6, <2>1 DEF Original, lines
<1>8. QED
  <2> HIDE DEF lines, chars
  <2>1. ref \in [id : Nat, file : {g.name : g \in Files}, first : Nat, last : Nat,
                 excerpt : Seq(chars)]
    BY <1>1, <1>4, <1>5
  <2> HIDE DEF ref
  <2>2. QED
    BY <1>7, <2>1 DEF References, chars, ref, lines

\* One line of a sequence of lines.
LEMMA OneLine ==
  ASSUME NEW S, NEW lines \in Seq(S), NEW k \in 1..Len(lines)
  PROVE  SubSeq(lines, k, k) = <<lines[k]>>
<1> DEFINE one == SubSeq(lines, k, k)
<1>1. k \in Nat /\ 1 <= k /\ k <= Len(lines) /\ Len(lines) \in Nat
  OBVIOUS
<1>2. one \in Seq(S)
  BY <1>1
<1>3. Len(one) = 1
  BY <1>1
<1>4. one[1] = lines[k]
  BY <1>1
<1> HIDE DEF one
<1>5. one = <<one[1]>>
  BY <1>2, <1>3
<1>6. QED
  BY <1>4, <1>5 DEF one

\* The references of a file that search_text found.
LEMMA HitsOK ==
  ASSUME NEW f \in Shown, f.text, NEW query, NEW next \in Nat
  PROVE  Hits(f, f.lines, query, next) \in Seq(References)
<1> DEFINE K == {k \in DOMAIN f.lines : LineContains(f.lines[k], query)}
           at == Ascending(K)
           n == Cardinality(K)
<1>1. f.lines \in Seq(ToSet(f.lines))
  BY ToolsAssumption DEF Shown, Files
<1>2. K \in SUBSET (1..Len(f.lines)) /\ IsFiniteSet(1..Len(f.lines)) /\ Len(f.lines) \in Nat
  <2>1. Len(f.lines) \in Nat /\ DOMAIN f.lines = 1..Len(f.lines)
    BY <1>1
  <2>2. K \in SUBSET (1..Len(f.lines))
    BY <2>1
  <2>3. QED
    BY <2>1, <2>2, FS_Interval
<1>3. n \in Nat /\ at \in [1..n -> K]
  <2> HIDE DEF K
  <2>1. IsFiniteSet(K)
    BY <1>2, FS_Subset
  <2>2. K \in SUBSET Nat
    BY <1>2
  <2>3. QED
    BY <2>1, <2>2, AscendingOK
<1>4. \A i \in 1..n : at[i] \in 1..Len(f.lines)
  <2> HIDE DEF K, n, at
  <2>1. \A i \in 1..n : at[i] \in K
    BY <1>3
  <2>2. QED
    BY <1>2, <2>1
<1>5. \A k \in 1..Len(f.lines) : SubSeq(f.lines, k, k) = <<f.lines[k]>>
  <2>1. ASSUME NEW k \in 1..Len(f.lines) PROVE SubSeq(f.lines, k, k) = <<f.lines[k]>>
    BY <1>1, OneLine
  <2>2. QED
    BY <2>1
<1>6. \A i \in 1..n : SourceRef(next + i, f, at[i], at[i], <<f.lines[at[i]]>>) \in References
  <2> HIDE DEF K, n, at
  <2>1. ASSUME NEW i \in 1..n
        PROVE  SourceRef(next + i, f, at[i], at[i], <<f.lines[at[i]]>>) \in References
    <3>1. PICK k \in 1..Len(f.lines) : at[i] = k
      BY <1>4
    <3>2. next + i \in Nat /\ k \in Nat /\ 1 <= k /\ k <= k /\ k <= Len(f.lines)
      BY <1>2, <1>3, <3>1
    <3>3. SourceRef(next + i, f, k, k, SubSeq(f.lines, k, k)) \in References
      BY <3>2, SourceRefOK
    <3>4. QED
      BY <1>5, <3>1, <3>3
  <2>2. QED
    BY <2>1
<1>7. DOMAIN at = 1..n
  <2> HIDE DEF K, n, at
  <2>1. QED
    BY <1>3
<1>8. Hits(f, f.lines, query, next)
        = [i \in DOMAIN at |-> SourceRef(next + i, f, at[i], at[i], <<f.lines[at[i]]>>)]
  BY DEF Hits
<1>9. QED
  <2> HIDE DEF K, n, at
  <2>1. QED
    BY <1>3, <1>6, <1>7, <1>8

-----------------------------------------------------------------------------
(* The answers of the tools.                                                *)

\* A reference is redacted once.
LEMMA ReferencesSettle == \A r \in References : [r EXCEPT !.excerpt = Redact(@)] = r
<1>1. ASSUME NEW r \in References PROVE Redact(r.excerpt) = r.excerpt
  <2>1. Original(r) /\ r.first \in Nat /\ r.last \in Nat
    BY DEF References
  <2>2. PICK f \in Files : r.file = f.name
    BY DEF References
  <2>3. FileOf(r.file) = f /\ f.lines \in Seq(ToSet(f.lines)) /\ MaxExcerpt \in Nat
    BY <2>2, OneFile, ToolsAssumption DEF Files
  <2> DEFINE lines == SubSeq(f.lines, r.first, r.last)
  <2>4. /\ 1 <= r.first /\ r.first <= r.last /\ r.last <= Len(f.lines)
        /\ r.excerpt = Take(Redact(lines), MaxExcerpt)
    BY <2>1, <2>3 DEF Original
  <2>5. lines \in Seq(ToSet(f.lines))
    BY <2>1, <2>3, <2>4
  <2> HIDE DEF lines
  <2>6. QED
    BY <2>3, <2>4, <2>5, RedactSettles
<1>2. QED
  BY <1>1 DEF References

\* The tail of execute leaves the references as they are, and what it lets through fits.
LEMMA SealedOK ==
  ASSUME NEW a, a.refs \in Seq(References)
  PROVE  Sealed(a).code = None => Sealed(a).refs \in Seq(References) /\ Fits(Sealed(a))
<1> DEFINE once == Bound(a.content, a.omitted)
           twice == Bound(Redact(once.content), once.omitted)
           again == [k \in DOMAIN a.refs |-> [a.refs[k] EXCEPT !.excerpt = Redact(@)]]
           omitted == Take(twice.omitted, MaxOmissions)
<1>2. again = a.refs
  <2>1. \A k \in DOMAIN a.refs : a.refs[k] \in References
    OBVIOUS
  <2>2. again = [k \in DOMAIN a.refs |-> a.refs[k]]
    BY <2>1, ReferencesSettle
  <2> HIDE DEF again
  <2>3. a.refs = [k \in DOMAIN a.refs |-> a.refs[k]]
    OBVIOUS
  <2>4. QED
    BY <2>2, <2>3
<1>3. Sealed(a) = IF a.code # None THEN a
                  ELSE IF 1 + Len(twice.content) + Len(again) + Len(omitted) <= MaxResult
                    THEN Found(twice.content, again, omitted)
                  ELSE Refused("TOOL_RESULT_LIMIT_REACHED")
  BY DEF Sealed
<1> HIDE DEF once, twice, again, omitted
<1>4. CASE a.code # None
  BY <1>3, <1>4
<1>5. CASE a.code = None /\ 1 + Len(twice.content) + Len(again) + Len(omitted) <= MaxResult
  <2> DEFINE found == Found(twice.content, again, omitted)
  <2>1. Sealed(a) = found
    BY <1>3, <1>5
  <2>2. found.refs = again /\ found.content = twice.content /\ found.omitted = omitted
    BY DEF Found
  <2> HIDE DEF found
  <2>3. Fits(found)
    BY <1>5, <2>2 DEF Fits
  <2>4. QED
    BY <1>2, <2>1, <2>2, <2>3
<1>6. CASE a.code = None /\ ~(1 + Len(twice.content) + Len(again) + Len(omitted) <= MaxResult)
  <2>1. Sealed(a) = Refused("TOOL_RESULT_LIMIT_REACHED")
    BY <1>3, <1>6
  <2>2. /\ Refused("TOOL_RESULT_LIMIT_REACHED").refs = <<>>
        /\ Refused("TOOL_RESULT_LIMIT_REACHED").content = <<>>
        /\ Refused("TOOL_RESULT_LIMIT_REACHED").omitted = <<>>
    BY DEF Refused, Found
  <2>3. MaxResult \in Nat /\ MaxResult # 0
    BY ToolsAssumption
  <2>4. Sealed(a).refs \in Seq(References)
    <3>1. <<>> \in Seq(References)
      OBVIOUS
    <3>2. QED
      BY <2>1, <2>2, <3>1
  <2>5. /\ Len(Sealed(a).refs) = 0 /\ Len(Sealed(a).content) = 0
        /\ Len(Sealed(a).omitted) = 0
    BY <2>1, <2>2
  <2>6. QED
    BY <2>3, <2>4, <2>5 DEF Fits
<1>7. QED
  BY <1>4, <1>5, <1>6

\* A refusal carries its code and nothing else.
LEMMA RefusedOK == ASSUME NEW code PROVE Refused(code).code = code /\ Refused(code).refs = <<>>
BY DEF Refused, Found

\* read_file_lines answers with the lines as scanned, or not at all.
LEMMA LinesOK ==
  ASSUME NEW call \in Asked, WellFormed(call), call.name = "read_file_lines",
         NEW d, NEW id \in Nat
  PROVE  Lines(call, d, id).refs \in Seq(References)
<1> DEFINE file == CHOOSE f \in Records(call.path) : TRUE
           to == IF call.last < Len(file.lines) THEN call.last ELSE Len(file.lines)
           selected == SubSeq(Body(d, file), call.first, to)
           answers == Relative(call.path) /\ RangeOk(call) /\ Records(call.path) # {}
                        /\ file.text /\ Readable(d, file) /\ HashMatches(d, file)
                        /\ ~(call.first > Len(file.lines))
<1>1. Lines(call, d, id).refs = <<>> \/
      (answers /\ Lines(call, d, id).refs = <<SourceRef(id, file, call.first, to, selected)>>)
  BY DEF Lines, Refused, Found
<1>2. ASSUME answers PROVE SourceRef(id, file, call.first, to, selected) \in References
  <2>1. file \in Records(call.path)
    BY <1>2
  <2>2. Records(call.path) \in SUBSET Shown
    <3>1. ToSet(Catalog) \in SUBSET Shown
      BY CatalogOK DEF ToSet
    <3>2. QED
      BY <3>1 DEF Records
  <2> HIDE DEF file
  <2>3. file \in Shown /\ file.lines \in Seq(ToSet(file.lines)) /\ Len(file.lines) \in Nat
    BY <2>1, <2>2, ToolsAssumption DEF Shown, Files
  <2>4. call.first \in Nat /\ call.last \in Nat /\ 1 <= call.first /\ call.first <= call.last
    BY <1>2, AnswerAssumption DEF RangeOk, WellFormed
  <2>5. to \in Nat /\ call.first <= to /\ to <= Len(file.lines)
    BY <1>2, <2>3, <2>4
  <2>6. selected = SubSeq(file.lines, call.first, to)
    BY <1>2 DEF HashMatches, Body
  <2> HIDE DEF to, selected
  <2>7. file.text
    BY <1>2
  <2>8. QED
    BY <2>3, <2>4, <2>5, <2>6, <2>7, SourceRefOK
<1> HIDE DEF file, to, selected, answers
<1>3. CASE Lines(call, d, id).refs = <<>>
  BY <1>3
<1>4. CASE answers /\ Lines(call, d, id).refs = <<SourceRef(id, file, call.first, to, selected)>>
  <2>1. SourceRef(id, file, call.first, to, selected) \in References
    BY <1>2, <1>4
  <2>2. \A r \in References : <<r>> \in Seq(References)
    OBVIOUS
  <2>3. QED
    BY <1>4, <2>1, <2>2
<1>5. QED
  BY <1>1, <1>3, <1>4

\* Whatever a tool answers, its references are to lines as scanned.
LEMMA ExecutedOK ==
  ASSUME Typed, Traced, NEW call \in Asked, WellFormed(call), call.name # "search_text"
  PROVE  Executed(call).refs \in Seq(References)
<1>1. FirstId \in Nat
  BY AnswerAssumption DEF FirstId, Typed, Traced
<1>2. call.name \in {"repo_status", "list_tree", "search_paths", "read_file_lines", "file_metadata"}
  BY AnswerAssumption
<1>3. CASE call.name = "read_file_lines"
  <2>1. Executed(call) = Lines(call, disk, FirstId + 1)
    BY <1>3 DEF Executed
  <2>2. QED
    BY <1>1, <1>3, <2>1, LinesOK
<1>4. CASE call.name # "read_file_lines"
  <2>1. Executed(call).refs = <<>>
    <3>1. Tree(call).refs = <<>> /\ Paths(call).refs = <<>> /\ Metadata(call).refs = <<>>
      BY RefusedOK DEF Tree, Paths, Metadata, Found
    <3>2. CASE call.name = "repo_status"
      BY <3>2 DEF Executed, Found
    <3>3. CASE call.name \in {"list_tree", "search_paths", "file_metadata"}
      BY <3>1, <3>3 DEF Executed
    <3>4. QED
      BY <1>2, <1>4, <3>2, <3>3
  <2>2. QED
    BY <2>1
<1>5. QED
  BY <1>3, <1>4

\* A search starts with nothing found.
LEMMA SearchStarts ==
  ASSUME NEW call
  PROVE  SearchStart(call) \in Searches /\ SearchStart(call).omitted = <<>>
<1>1. Catalog \in Seq(Shown) /\ <<>> \in Seq(Shown)
  BY CatalogOK
<1> DEFINE start == SearchStart(call)
<1>2. /\ start = [rest |-> start.rest, refs |-> <<>>, omitted |-> <<>>, code |-> start.code]
      /\ start.rest = Catalog \/ start.rest = <<>>
      /\ start.code \in {None, "TOOL_QUERY_INVALID", "EXTERNAL_PATH_BLOCKED"}
  BY DEF SearchStart
<1>3. {None, "TOOL_QUERY_INVALID", "EXTERNAL_PATH_BLOCKED"} \in SUBSET Codes
  BY DEF Codes
<1> HIDE DEF start
<1>4. start.rest \in Seq(Shown) /\ start.code \in Codes
  BY <1>1, <1>2, <1>3
<1>5. start \in Searches
  <2>1. <<>> \in Seq(References) /\ <<>> \in Seq(Omissions)
    OBVIOUS
  <2>2. \A rest \in Seq(Shown), code \in Codes :
          [rest |-> rest, refs |-> <<>>, omitted |-> <<>>, code |-> code] \in Searches
    BY <2>1 DEF Searches
  <2>3. QED
    BY <1>2, <1>4, <2>2
<1>6. start.omitted = <<>>
  BY <1>2
<1>7. QED
  BY <1>5, <1>6 DEF start

\* A search goes on with the next file, or ends.
LEMMA SearchSteps ==
  ASSUME NEW acc \in Searches, acc.rest # <<>>, Len(acc.omitted) < MaxOmissions,
         NEW call \in Asked, NEW d, NEW next \in Nat
  PROVE  LET new == SearchStep(acc, call, d, next)
         IN  /\ new \in Searches /\ Len(new.omitted) <= MaxOmissions
             /\ new.rest # <<>> => Len(new.omitted) < MaxOmissions
<1> DEFINE file == Head(acc.rest)
           all == acc.refs \o Hits(file, Body(d, file), call.query, next + Len(acc.refs))
           new == SearchStep(acc, call, d, next)
<1>1. /\ acc.rest \in Seq(Shown) /\ acc.refs \in Seq(References)
      /\ acc.omitted \in Seq(Omissions) /\ acc.code \in Codes
      /\ acc = [rest |-> acc.rest, refs |-> acc.refs, omitted |-> acc.omitted, code |-> acc.code]
  BY DEF Searches
<1>2. file \in Shown /\ Tail(acc.rest) \in Seq(Shown) /\ Len(acc.rest) \in Nat
  BY <1>1
<1>3. file.name \in {f.name : f \in Files} /\ MaxOmissions \in Nat /\ call.limit \in Nat
  BY <1>2, ToolsAssumption, AnswerAssumption DEF Shown
<1>4. /\ Len(acc.omitted) \in Nat
      /\ \A o \in Omissions : /\ Append(acc.omitted, o) \in Seq(Omissions)
                              /\ Len(Append(acc.omitted, o)) = Len(acc.omitted) + 1
  BY <1>1
<1>5. /\ \A code \in {"SEARCH_FILE_TOO_LARGE", "SEARCH_READ_FAILED"} :
           Omission(code, file.name, 1) \in Omissions
      /\ Omission("OMISSION_LIMIT", None, Len(acc.rest)) \in Omissions
  <2> HIDE DEF file
  <2>1. \A code \in Codes, name \in {None} \cup {f.name : f \in Files}, n \in Nat :
          Omission(code, name, n) \in Omissions
    BY DEF Omission, Omissions
  <2>2. {"SEARCH_FILE_TOO_LARGE", "SEARCH_READ_FAILED", "OMISSION_LIMIT"} \in SUBSET Codes
    BY DEF Codes
  <2>3. QED
    BY <1>2, <1>3, <2>1, <2>2
<1> HIDE DEF file
<1>6. CASE Len(acc.omitted) >= MaxOmissions - 1
  <2>1. new = [rest |-> <<>>, refs |-> acc.refs, code |-> acc.code,
               omitted |-> Append(acc.omitted, Omission("OMISSION_LIMIT", None, Len(acc.rest)))]
    BY <1>1, <1>6 DEF SearchStep
  <2>2. QED
    BY <1>1, <1>3, <1>4, <1>5, <2>1 DEF Searches
<1>7. CASE ~(Len(acc.omitted) >= MaxOmissions - 1) /\ (~file.text \/ ~InFilter(file, call.path))
  <2>1. new = [acc EXCEPT !.rest = Tail(@)]
    BY <1>7 DEF SearchStep, file
  <2>2. new = [rest |-> Tail(acc.rest), refs |-> acc.refs, code |-> acc.code, omitted |-> acc.omitted]
    BY <1>1, <2>1
  <2>3. QED
    BY <1>1, <1>2, <1>3, <1>4, <2>2 DEF Searches
<1> DEFINE looked == ~(Len(acc.omitted) >= MaxOmissions - 1) /\ file.text /\ InFilter(file, call.path)
<1>8. CASE looked /\ (file.big \/ ~Readable(d, file))
  <2>1. PICK code \in {"SEARCH_FILE_TOO_LARGE", "SEARCH_READ_FAILED"} : new = Left(acc, file, code)
    <3>1. new = Left(acc, file, "SEARCH_FILE_TOO_LARGE") \/ new = Left(acc, file, "SEARCH_READ_FAILED")
      BY <1>8 DEF SearchStep, file
    <3>2. QED
      BY <3>1
  <2>2. new = [rest |-> Tail(acc.rest), refs |-> acc.refs, code |-> acc.code,
               omitted |-> Append(acc.omitted, Omission(code, file.name, 1))]
    BY <1>1, <2>1 DEF Left
  <2>3. QED
    BY <1>1, <1>2, <1>3, <1>4, <1>5, <1>8, <2>2 DEF Searches
<1>9. CASE looked /\ ~file.big /\ Readable(d, file) /\ ~HashMatches(d, file)
  <2>1. new = [acc EXCEPT !.rest = <<>>, !.code = "SOURCE_LIVE_HASH_MISMATCH"]
    BY <1>9 DEF SearchStep, file
  <2>2. new = [rest |-> <<>>, refs |-> acc.refs, code |-> "SOURCE_LIVE_HASH_MISMATCH",
               omitted |-> acc.omitted]
    BY <1>1, <2>1
  <2>3. "SOURCE_LIVE_HASH_MISMATCH" \in Codes
    BY DEF Codes
  <2>4. <<>> \in Seq(Shown)
    OBVIOUS
  <2>5. QED
    BY <1>1, <1>3, <1>4, <1>9, <2>2, <2>3, <2>4 DEF Searches
<1>10. CASE looked /\ ~file.big /\ Readable(d, file) /\ HashMatches(d, file)
  <2>1. Body(d, file) = file.lines
    BY <1>10 DEF HashMatches, Body
  <2>2. Hits(file, Body(d, file), call.query, next + Len(acc.refs)) \in Seq(References)
    <3>1. next + Len(acc.refs) \in Nat
      BY <1>1
    <3>2. QED
      BY <1>2, <1>10, <2>1, <3>1, HitsOK
  <2>3. all \in Seq(References)
    BY <1>1, <2>2
  <2> HIDE DEF all
  <2>4. Take(all, call.limit) \in Seq(References)
    BY <1>3, <2>3, TakeOK
  <2>5. new = [acc EXCEPT !.refs = Take(all, call.limit),
                          !.rest = IF Len(all) >= call.limit THEN <<>> ELSE Tail(@)]
    BY <1>10 DEF SearchStep, file, all
  <2>6. new = [rest |-> IF Len(all) >= call.limit THEN <<>> ELSE Tail(acc.rest),
               refs |-> Take(all, call.limit), code |-> acc.code, omitted |-> acc.omitted]
    BY <1>1, <2>5
  <2>7. (IF Len(all) >= call.limit THEN <<>> ELSE Tail(acc.rest)) \in Seq(Shown)
    BY <1>2
  <2>8. QED
    BY <1>1, <1>3, <1>4, <1>10, <2>4, <2>6, <2>7 DEF Searches
<1>11. QED
  BY <1>6, <1>7, <1>8, <1>9, <1>10

\* A finished search answers with what it found.
LEMMA SearchedOK ==
  ASSUME NEW acc \in Searches
  PROVE  Searched(acc).refs \in Seq(References)
<1>1. acc.refs \in Seq(References) /\ <<>> \in Seq(References)
  BY DEF Searches
<1>2. QED
  BY <1>1, RefusedOK DEF Searched, Found

\* The elements of two sequences, one after the other.
LEMMA ConcatSet ==
  ASSUME NEW S, NEW s \in Seq(S), NEW t \in Seq(S)
  PROVE  ToSet(s \o t) = ToSet(s) \cup ToSet(t)
<1>1. /\ DOMAIN s = 1..Len(s) /\ DOMAIN t = 1..Len(t) /\ Len(s) \in Nat /\ Len(t) \in Nat
      /\ DOMAIN (s \o t) = 1..(Len(s) + Len(t))
  OBVIOUS
<1>2. \A i \in 1..(Len(s) + Len(t)) : (s \o t)[i] = IF i <= Len(s) THEN s[i] ELSE t[i - Len(s)]
  OBVIOUS
<1>3. \A i \in 1..Len(s) : (s \o t)[i] = s[i] /\ i \in DOMAIN (s \o t)
  BY <1>1, <1>2
<1>4. \A i \in 1..Len(t) : (s \o t)[i + Len(s)] = t[i] /\ i + Len(s) \in DOMAIN (s \o t)
  BY <1>1, <1>2
<1>5. \A i \in DOMAIN (s \o t) : \/ i \in DOMAIN s /\ (s \o t)[i] = s[i]
                                 \/ i - Len(s) \in DOMAIN t /\ (s \o t)[i] = t[i - Len(s)]
  BY <1>1, <1>2
<1>6. ToSet(s \o t) \subseteq ToSet(s) \cup ToSet(t)
  BY <1>5 DEF ToSet
<1>7. ToSet(s) \subseteq ToSet(s \o t) /\ ToSet(t) \subseteq ToSet(s \o t)
  BY <1>1, <1>3, <1>4 DEF ToSet
<1>8. QED
  BY <1>6, <1>7

-----------------------------------------------------------------------------
(* The steps.                                                               *)

\* An answer reaches the trace, or the turn stops.
LEMMA AnsweredSteps ==
  ASSUME phase \in {"round", "search"}, NEW call, NEW id, NEW result,
         result.code = None => result.refs \in Seq(References) /\ Fits(result),
         Answered(call, id, result)
  PROVE  Grows \/ Stops
<1>1. CASE result.code = None
  BY <1>1 DEF Grows
<1>2. CASE result.code # None
  BY <1>2 DEF Answered, Stops
<1>3. QED
  BY <1>1, <1>2

\* A call answers, or stops its turn.
LEMMA CallToolKind ==
  ASSUME IInv, NEW call \in Asked, NEW native, CallTool(call, native)
  PROVE  Grows \/ Stops
<1> DEFINE result == IF Gate(call) # None THEN Refused(Gate(call)) ELSE Sealed(Executed(call))
<1>1. /\ phase = "round" /\ WellFormed(call) /\ (call.name # "search_text" \/ Gate(call) # None)
      /\ Answered(call, CallId(native), result)
  BY DEF CallTool, Requested
<1>2. result.code = None => result.refs \in Seq(References) /\ Fits(result)
  <2>1. CASE Gate(call) # None
    BY <2>1, RefusedOK
  <2>2. CASE Gate(call) = None
    <3>1. Executed(call).refs \in Seq(References)
      BY <1>1, <2>2, ExecutedOK DEF IInv
    <3>2. QED
      BY <2>2, <3>1, SealedOK
  <2>3. QED
    BY <2>1, <2>2
<1> HIDE DEF result
<1>3. QED
  BY <1>1, <1>2, AnsweredSteps

\* A search begins with a call that is well formed.
LEMMA BeginSearchKind ==
  ASSUME NEW call \in Asked, NEW native, BeginSearch(call, native)
  PROVE  Seeks
<1>1. /\ phase = "round" /\ phase' = "search"
      /\ search' = [call |-> call, id |-> CallId(native), acc |-> SearchStart(call)]
      /\ WellFormed(call) /\ call.name = "search_text"
      /\ UNCHANGED <<now, grounded, trace, last, answer, database, screen>>
  BY DEF BeginSearch, Requested
<1>2. SearchStart(call) \in Searches /\ SearchStart(call).omitted = <<>>
  BY SearchStarts
<1>3. Len(SearchStart(call).omitted) = 0 /\ MaxOmissions \in Nat /\ MaxOmissions # 0
  BY <1>2, ToolsAssumption
<1>4. search'.call = call /\ search'.acc = SearchStart(call) /\ search'.id = CallId(native)
  BY <1>1
<1>5. Searching'
  BY <1>1, <1>2, <1>3, <1>4 DEF Searching
<1>6. QED
  BY <1>1, <1>5 DEF Seeks

\* A search reads its next file, or the token stops it.
LEMMA SearchFileKind ==
  ASSUME IInv, SearchFile
  PROVE  Seeks \/ Stops
<1>1. phase = "search" /\ search.acc.rest # <<>>
  BY DEF SearchFile
<1>2. CASE Stopped("failed")
  BY <1>1, <1>2 DEF Stops
<1>3. CASE /\ search' = [search EXCEPT !.acc = SearchStep(@, search.call, disk, FirstId)]
           /\ UNCHANGED <<cancelled, phase, now, grounded, trace, last, answer, database, screen>>
  <2> DEFINE new == SearchStep(search.acc, search.call, disk, FirstId)
  <2>1. /\ search.call \in Asked /\ search.acc \in Searches /\ Len(search.acc.omitted) < MaxOmissions
        /\ search = [call |-> search.call, id |-> search.id, acc |-> search.acc]
        /\ WellFormed(search.call) /\ search.call.name = "search_text"
    BY <1>1 DEF IInv, Searching
  <2>2. FirstId \in Nat
    BY AnswerAssumption DEF FirstId, IInv, Typed, Traced
  <2>3. /\ new \in Searches /\ Len(new.omitted) <= MaxOmissions
        /\ new.rest # <<>> => Len(new.omitted) < MaxOmissions
    BY <1>1, <2>1, <2>2, SearchSteps
  <2>4. search' = [call |-> search.call, id |-> search.id, acc |-> new]
    BY <1>3, <2>1
  <2> HIDE DEF new
  <2>5. search'.call = search.call /\ search'.id = search.id /\ search'.acc = new
    BY <2>4
  <2>6. Searching'
    BY <2>1, <2>3, <2>4, <2>5 DEF Searching
  <2>7. QED
    BY <1>1, <1>3, <2>6 DEF Seeks
<1>4. QED
  BY <1>2, <1>3 DEF SearchFile

\* A search that ends answers its call.
LEMMA EndSearchKind ==
  ASSUME IInv, EndSearch
  PROVE  Grows \/ Stops
<1>1. phase = "search" /\ Answered(search.call, search.id, Sealed(Searched(search.acc)))
  BY DEF EndSearch
<1>2. search.acc \in Searches
  BY <1>1 DEF IInv, Searching
<1>3. Sealed(Searched(search.acc)).code = None =>
        /\ Sealed(Searched(search.acc)).refs \in Seq(References)
        /\ Fits(Sealed(Searched(search.acc)))
  BY <1>2, SearchedOK, SealedOK
<1>4. QED
  BY <1>1, <1>3, AnsweredSteps

\* A bundle that is valid rests on the trace; what it shows has evidence.
LEMMA ValidIsBacked ==
  ASSUME NEW bundle, Valid(bundle)
  PROVE  Backed(Validated(bundle), trace.refs)
<1>1. /\ Validated(bundle).raw = FALSE /\ Validated(bundle).text = VerifiedAnswer(bundle.claims)
      /\ Validated(bundle).claims = bundle.claims /\ Validated(bundle).evidence = bundle.evidence
  BY DEF Validated
<1>2. ToSet(bundle.evidence) \subseteq ToSet(trace.refs)
  BY DEF Valid, Canonical
<1>3. \A c \in ToSet(bundle.claims) :
        (c.class # "Unknown" => c.ids # <<>>) /\ ToSet(c.ids) \subseteq EvidenceIds(bundle)
  BY DEF Valid, ClaimsHold
<1>4. \A c \in ToSet(VerifiedAnswer(bundle.claims)) :
        c \in ToSet(bundle.claims) /\ c.class # "Unknown"
  BY DEF VerifiedAnswer, Restrict, ToSet
<1>5. QED
  BY <1>1, <1>2, <1>3, <1>4 DEF Backed, EvidenceIds

\* Every step is of one kind.
LEMMA StepKinds ==
  ASSUME IInv, [Next]_vars
  PROVE  Begins \/ Grows \/ Seeks \/ Completes \/ Stops \/ Finish \/ Restart \/ Rests
<1>1. CASE UNCHANGED vars
  BY <1>1 DEF vars, memory, database, Rests
<1>2. CASE Begins
  BY <1>2
<1>3. ASSUME NEW call \in Asked, NEW native \in Natives(call),
             CallTool(call, native) \/ BeginSearch(call, native)
      PROVE  Grows \/ Seeks \/ Stops
  BY <1>3, CallToolKind, BeginSearchKind
<1>4. CASE SearchFile
  BY <1>4, SearchFileKind
<1>5. CASE EndSearch
  BY <1>5, EndSearchKind
<1>6. CASE CompleteMarkdown
  <2>1. rows[now].contract = "advisor" /\ answer' = {}
    BY <1>6 DEF CompleteMarkdown
  <2>2. QED
    BY <1>6, <2>1 DEF CompleteMarkdown, Completes
<1>7. ASSUME NEW bundle \in Bundles, CompleteAudit(bundle) PROVE Completes
  <2>1. Valid(bundle) /\ answer' = {Validated(bundle)} /\ rows[now].contract = "audit"
    BY <1>7 DEF CompleteAudit
  <2>2. Backed(Validated(bundle), trace.refs)
    BY <2>1, ValidIsBacked
  <2>3. QED
    BY <1>7, <2>1, <2>2 DEF CompleteAudit, Completes
<1>8. CASE RoundFails \/ StopAtRound \/ FinishFails
  BY <1>8 DEF RoundFails, StopAtRound, FinishFails, Stops
<1>9. CASE (\E file \in Touched, state \in {"changed", "gone"} : Touch(file, state)) \/ Notice \/ Cancel
  BY <1>9 DEF Touch, Notice, Cancel, Rests, memory, database
<1>10. CASE Finish \/ Restart
  BY <1>10
<1>11. QED
  BY <1>1, <1>2, <1>3, <1>4, <1>5, <1>6, <1>7, <1>8, <1>9, <1>10 DEF Next, Begins

\* The disk, the process and the bounds stay what they are.
LEMMA TypedStep ==
  ASSUME IInv, [Next]_vars
  PROVE  Typed'
<1>0. /\ disk \in [DOMAIN disk -> {"same", "changed", "gone"}]
      /\ gateway \in {"fresh", "stale", "none"} /\ cancelled \in BOOLEAN
      /\ phase \in {"idle", "round", "search", "answered"}
      /\ now \in 0..MaxTurns /\ grounded \in BOOLEAN
      /\ asked \in 0..MaxCalls /\ faults \in 0..MaxFaults
      /\ MaxTurns \in Nat /\ MaxCalls \in Nat /\ MaxFaults \in Nat
  BY AnswerAssumption DEF IInv, Typed
<1>1. disk' \in [DOMAIN disk' -> {"same", "changed", "gone"}] /\ gateway' \in {"fresh", "stale", "none"}
  <2>1. CASE UNCHANGED <<disk, gateway>>
    BY <1>0, <2>1
  <2>2. ASSUME NEW file \in Touched, NEW state \in {"changed", "gone"}, Touch(file, state)
        PROVE  disk' \in [DOMAIN disk' -> {"same", "changed", "gone"}] /\ UNCHANGED gateway
    BY <1>0, <2>2 DEF Touch
  <2>3. CASE Notice \/ Restart
    BY <1>0, <2>3 DEF Notice, Restart
  <2>4. QED
    BY <1>0, <2>1, <2>2, <2>3
       DEF Next, vars, Begin, CallTool, BeginSearch, SearchFile, EndSearch, CompleteMarkdown,
           CompleteAudit, RoundFails, StopAtRound, Finish, FinishFails, Cancel
<1>2. asked' \in 0..MaxCalls
  <2>1. CASE UNCHANGED asked
    BY <1>0, <2>1
  <2>2. CASE asked < MaxCalls /\ asked' = asked + 1
    BY <1>0, <2>2
  <2>3. QED
    BY <2>1, <2>2
       DEF Next, vars, bounds, Begin, CallTool, BeginSearch, Requested, SearchFile, EndSearch,
           CompleteMarkdown, CompleteAudit, RoundFails, StopAtRound, Finish, FinishFails, Touch,
           Notice, Cancel, Restart
<1>3. faults' \in 0..MaxFaults
  <2>1. CASE UNCHANGED faults
    BY <1>0, <2>1
  <2>2. CASE faults < MaxFaults /\ faults' = faults + 1
    BY <1>0, <2>2
  <2>3. QED
    BY <2>1, <2>2
       DEF Next, vars, bounds, Begin, CallTool, BeginSearch, SearchFile, EndSearch,
           CompleteMarkdown, CompleteAudit, RoundFails, StopAtRound, Finish, FinishFails, Touch,
           Notice, Cancel, Restart
<1>4. phase' \in {"idle", "round", "search", "answered"} /\ now' \in 0..MaxTurns
  <2>1. CASE Begins
    BY <1>0, <2>1 DEF Begins, Begin
  <2>2. CASE Grows
    BY <1>0, <2>2 DEF Grows, Answered
  <2>3. CASE Seeks \/ Completes \/ Rests
    BY <1>0, <2>3 DEF Seeks, Completes, Rests
  <2>4. CASE Stops \/ Finish \/ Restart
    BY <1>0, <2>4 DEF Stops, Stopped, Finish, Restart, Idle
  <2>5. QED
    BY <2>1, <2>2, <2>3, <2>4, StepKinds
<1>5. grounded' \in BOOLEAN
  <2>1. CASE UNCHANGED grounded
    BY <1>0, <2>1
  <2>2. CASE Begins
    BY <2>2 DEF Begins, Begin
  <2>3. CASE Stops \/ Finish \/ Restart
    BY <2>3 DEF Stops, Stopped, Finish, Restart, Idle
  <2>4. CASE Grows
    BY <2>1, <2>4 DEF Grows, Answered
  <2>5. CASE Seeks \/ Completes \/ Rests
    BY <2>1, <2>5 DEF Seeks, Completes, Rests
  <2>6. QED
    BY <2>2, <2>3, <2>4, <2>5, StepKinds
<1>6. cancelled' \in BOOLEAN
  <2>1. CASE UNCHANGED cancelled
    BY <1>0, <2>1
  <2>2. CASE cancelled' = FALSE \/ cancelled' = TRUE
    BY <2>2
  <2>3. CASE UNCHANGED vars
    BY <2>1, <2>3 DEF vars, memory
  <2>4. CASE Begins \/ Finish \/ Restart \/ RoundFails \/ StopAtRound \/ FinishFails
    BY <2>2, <2>4 DEF Begins, Begin, Finish, Restart, RoundFails, StopAtRound, FinishFails, Stopped, Idle
  <2>5. ASSUME NEW call \in Asked, NEW native, CallTool(call, native) \/ BeginSearch(call, native)
        PROVE  UNCHANGED cancelled \/ cancelled' = FALSE
    BY <2>5 DEF CallTool, BeginSearch, Answered, Stopped, Idle
  <2>6. CASE SearchFile \/ EndSearch
    BY <2>1, <2>2, <2>6 DEF SearchFile, EndSearch, Answered, Stopped, Idle
  <2>7. CASE CompleteMarkdown \/ (\E bundle \in Bundles : CompleteAudit(bundle)) \/ Cancel
    BY <2>2, <2>7 DEF CompleteMarkdown, CompleteAudit, Cancel
  <2>8. CASE (\E file \in Touched, state \in {"changed", "gone"} : Touch(file, state)) \/ Notice
    BY <2>1, <2>8 DEF Touch, Notice, memory
  <2>9. QED
    BY <2>1, <2>2, <2>3, <2>4, <2>5, <2>6, <2>7, <2>8 DEF Next, Begins
<1>7. QED
  BY <1>1, <1>2, <1>3, <1>4, <1>5, <1>6 DEF Typed

\* An empty trace, and one that a result was added to.
LEMMA TracedStep ==
  ASSUME IInv, [Next]_vars
  PROVE  Traced'
<1>1. CASE trace' = EmptyTrace
  <2>1. trace' = [calls |-> {}, refs |-> <<>>] /\ trace'.calls = {} /\ trace'.refs = <<>>
    BY <1>1 DEF EmptyTrace
  <2>2. trace'.refs \in Seq(References) /\ ToSet(trace'.refs) = {}
    BY <2>1 DEF ToSet
  <2>3. QED
    BY <2>1, <2>2 DEF Traced
<1>2. CASE UNCHANGED trace
  BY <1>2 DEF IInv, Traced
<1>3. CASE Grows
  <2>1. PICK call, id, result : /\ result.code = None /\ result.refs \in Seq(References)
                                /\ Answered(call, id, result)
    BY <1>3 DEF Grows
  <2> DEFINE new == [id |-> id, round |-> Round, name |-> call.name,
                     refs |-> {r.id : r \in ToSet(result.refs)}]
  <2>2. trace' = [calls |-> trace.calls \cup {new}, refs |-> trace.refs \o result.refs]
    BY <2>1 DEF Answered
  <2>3. trace'.calls = trace.calls \cup {new} /\ trace'.refs = trace.refs \o result.refs
    BY <2>2
  <2>4. /\ trace.refs \in Seq(References) /\ \A c \in trace.calls : CallShape(c)
        /\ \A r \in ToSet(trace.refs) : \E c \in trace.calls : r.id \in c.refs
    BY DEF IInv, Traced
  <2>5. CallShape(new) /\ new.refs = {r.id : r \in ToSet(result.refs)}
    BY DEF CallShape
  <2> HIDE DEF new
  <2>6. trace'.refs \in Seq(References)
    BY <2>1, <2>3, <2>4
  <2>7. \A r \in ToSet(trace'.refs) : r \in ToSet(trace.refs) \/ r \in ToSet(result.refs)
    BY <2>1, <2>3, <2>4, ConcatSet
  <2>8. \A r \in ToSet(trace'.refs) : \E c \in trace'.calls : r.id \in c.refs
    BY <2>3, <2>4, <2>5, <2>7
  <2>9. \A c \in trace'.calls : CallShape(c)
    BY <2>3, <2>4, <2>5
  <2>10. trace' = [calls |-> trace'.calls, refs |-> trace'.refs]
    BY <2>2
  <2>11. QED
    BY <2>6, <2>8, <2>9, <2>10 DEF Traced
<1>4. CASE Begins \/ Stops \/ Finish \/ Restart
  BY <1>1, <1>4 DEF Begins, Begin, Stops, Stopped, Finish, Restart, Idle
<1>5. CASE Seeks \/ Completes \/ Rests
  BY <1>2, <1>5 DEF Seeks, Completes, Rests
<1>6. QED
  BY <1>3, <1>4, <1>5, StepKinds

\* A search is under way only while the phase says so.
LEMMA SearchingStep ==
  ASSUME IInv, [Next]_vars
  PROVE  Searching'
<1>1. CASE phase' # "search"
  BY <1>1 DEF Searching
<1>2. CASE Rests
  BY <1>2 DEF IInv, Searching, Rests
<1>3. CASE Seeks
  BY <1>3 DEF Seeks
<1>4. CASE Begins \/ Grows
  BY <1>1, <1>4 DEF Begins, Begin, Grows, Answered
<1>5. CASE Completes \/ Stops \/ Finish \/ Restart
  BY <1>1, <1>5 DEF Completes, Stops, Stopped, Finish, Restart, Idle
<1>6. QED
  BY <1>2, <1>3, <1>4, <1>5, StepKinds

\* What is answered fits.
LEMMA AnswersStep ==
  ASSUME IInv, [Next]_vars
  PROVE  Answers'
<1>1. CASE last' = NoLast
  BY <1>1 DEF Answers
<1>2. CASE UNCHANGED last
  BY <1>2 DEF IInv, Answers
<1>3. CASE Grows
  <2>1. PICK call, id, result : result.code = None /\ Fits(result) /\ Answered(call, id, result)
    BY <1>3 DEF Grows
  <2>2. last'.result = result
    BY <2>1 DEF Answered
  <2>3. QED
    BY <2>1, <2>2 DEF Answers
<1>4. CASE Begins \/ Stops \/ Finish \/ Restart
  BY <1>1, <1>4 DEF Begins, Begin, Stops, Stopped, Finish, Restart, Idle
<1>5. CASE Seeks \/ Completes \/ Rests
  BY <1>2, <1>5 DEF Seeks, Completes, Rests
<1>6. QED
  BY <1>3, <1>4, <1>5, StepKinds

\* A turn that runs is pending until it stops or is finished.
LEMMA RunningStep ==
  ASSUME IInv, [Next]_vars
  PROVE  Running'
<1> DEFINE Statuses == {"none", "pending", "completed", "failed", "cancelled"}
           Rows == [status : Statuses, contract : Contracts, traced : BOOLEAN]
<1>1. /\ rows \in [Turn -> Rows]
      /\ phase # "idle" => now \in Turn /\ rows[now].status = "pending"
      /\ \A t \in Turn : t > now => rows[t].status = "none"
      /\ phase = "answered" =>
           /\ (answer # {}) <=> (rows[now].contract = "audit")
           /\ \A bundle \in answer : Backed(bundle, trace.refs)
      /\ now \in 0..MaxTurns /\ MaxTurns \in Nat /\ grounded \in BOOLEAN
      /\ phase \in {"idle", "round", "search", "answered"}
  BY AnswerAssumption DEF IInv, Running, Typed
<1>2. CASE Begins
  <2>1. PICK contract \in Contracts : /\ now' = now + 1 /\ now < MaxTurns /\ phase' = "round"
                                      /\ rows' = [rows EXCEPT ![now'] = [status |-> "pending",
                                                    contract |-> contract, traced |-> FALSE]]
    BY <1>2 DEF Begins, Begin
  <2> DEFINE row == [status |-> "pending", contract |-> contract, traced |-> FALSE]
             turn == now + 1
  <2>2. row \in Rows /\ row.status = "pending" /\ turn \in Turn
    BY <1>1, <2>1 DEF Turn
  <2>3. now' = turn /\ rows' = [rows EXCEPT ![turn] = row]
    BY <2>1
  <2> HIDE DEF row, Rows
  <2>4. rows' \in [Turn -> Rows] /\ rows'[turn].status = "pending"
    BY <1>1, <2>2, <2>3
  <2>5. \A t \in Turn : t > turn => rows'[t].status = "none"
    BY <1>1, <2>3 DEF Turn
  <2>6. QED
    BY <2>1, <2>2, <2>3, <2>4, <2>5 DEF Running, Rows
<1>3. CASE Grows
  <2>1. UNCHANGED <<rows, now>> /\ phase' = "round" /\ phase # "idle"
    BY <1>3 DEF Grows, Answered, database
  <2>2. QED
    BY <1>1, <2>1 DEF Running
<1>4. CASE Seeks
  <2>1. UNCHANGED <<rows, now>> /\ phase' = "search" /\ phase # "idle"
    BY <1>4 DEF Seeks, database
  <2>2. QED
    BY <1>1, <2>1 DEF Running
<1>5. CASE Completes
  <2>1. /\ UNCHANGED <<rows, now, trace>> /\ phase' = "answered" /\ phase # "idle"
        /\ (answer' # {}) <=> (rows[now].contract = "audit")
        /\ \A bundle \in answer' : Backed(bundle, trace.refs)
    BY <1>5 DEF Completes, database
  <2>2. \A bundle \in answer' : Backed(bundle, trace.refs)'
    BY <2>1 DEF Backed, EvidenceIds
  <2>3. QED
    BY <1>1, <2>1, <2>2 DEF Running
<1>6. CASE Rests
  <2>1. UNCHANGED <<rows, now, trace, phase, answer>>
    BY <1>6 DEF Rests, database
  <2>2. QED
    BY <2>1 DEF IInv, Running, Backed, EvidenceIds
<1>7. CASE Stops
  <2>1. PICK status \in {"failed", "cancelled"} : Stopped(status)
    BY <1>7 DEF Stops
  <2>2. /\ phase' = "idle" /\ now' = now /\ now \in Turn
        /\ rows' = [rows EXCEPT ![now].status = status]
    BY <1>1, <1>7, <2>1 DEF Stops, Stopped, Idle
  <2>3. rows' \in [Turn -> Rows]
    BY <1>1, <2>2
  <2>4. \A t \in Turn : t > now => rows'[t].status = "none"
    BY <1>1, <2>2 DEF Turn
  <2>5. QED
    BY <2>2, <2>3, <2>4 DEF Running
<1>8. CASE Finish
  <2>1. /\ phase' = "idle" /\ now' = now /\ now \in Turn
        /\ rows' = [rows EXCEPT ![now].status = "completed", ![now].traced = grounded]
    BY <1>1, <1>8 DEF Finish, Store, Idle
  <2>2. rows' \in [Turn -> Rows]
    BY <1>1, <2>1
  <2>3. \A t \in Turn : t > now => rows'[t].status = "none"
    BY <1>1, <2>1 DEF Turn
  <2>4. QED
    BY <2>1, <2>2, <2>3 DEF Running
<1>9. CASE Restart
  <2>1. /\ phase' = "idle" /\ now' = now
        /\ rows' = [t \in Turn |-> IF rows[t].status = "pending"
                                     THEN [rows[t] EXCEPT !.status = "failed"] ELSE rows[t]]
    BY <1>9 DEF Restart, Idle
  <2>2. rows' \in [Turn -> Rows]
    BY <1>1, <2>1
  <2>3. \A t \in Turn : t > now => rows'[t].status = "none"
    BY <1>1, <2>1
  <2>4. QED
    BY <2>1, <2>2, <2>3 DEF Running
<1>10. QED
  BY <1>2, <1>3, <1>4, <1>5, <1>6, <1>7, <1>8, <1>9, StepKinds

\* What is said of a turn stays true while its rows stay.
LEMMA HeldKept ==
  ASSUME NEW t \in Turn, HeldAt(t), rows'[t] = rows[t], audits'[t] = audits[t],
         refs'[t] = refs[t], RecordsOf(t)' = RecordsOf(t), screen'[t] = screen[t]
  PROVE  HeldAt(t)'
<1>1. Restored(t)' = Restored(t)
  BY DEF Restored, LoadTrace, RecordsOf
<1>2. \A bundle \in audits[t] : Grounded(t, bundle)'
  <2>1. ASSUME NEW bundle \in audits[t] PROVE Grounded(t, bundle)'
    <3>1. Grounded(t, bundle)
      BY DEF HeldAt
    <3>2. QED
      BY <3>1 DEF Grounded, EvidenceIds, RecordsOf
  <2>2. QED
    BY <2>1
<1>3. QED
  BY <1>1, <1>2 DEF HeldAt

\* The transaction: the trace that is stored is the one that was in memory.
LEMMA FinishHolds ==
  ASSUME IInv, Finish, NEW t \in Turn, t = now
  PROVE  HeldAt(t)'
<1>1. /\ phase = "answered" /\ now \in Turn /\ rows[now].status = "pending"
      /\ rows \in [Turn -> [status : {"none", "pending", "completed", "failed", "cancelled"},
                            contract : Contracts, traced : BOOLEAN]]
      /\ (answer # {}) <=> (rows[now].contract = "audit")
      /\ \A bundle \in answer : Backed(bundle, trace.refs)
  BY DEF IInv, Running, Finish
<1>2. /\ refs \in [Turn -> Seq(References)] /\ audits = [u \in Turn |-> audits[u]]
      /\ screen = [u \in Turn |-> screen[u]]
      /\ trace = [calls |-> trace.calls, refs |-> trace.refs] /\ \A c \in trace.calls : CallShape(c)
      /\ \A r \in ToSet(trace.refs) : \E c \in trace.calls : r.id \in c.refs
  BY DEF IInv, Stored, Traced
<1>3. /\ grounded \in BOOLEAN
      /\ rows'[t].status = "completed" /\ rows'[t].contract = rows[now].contract
      /\ rows'[t].traced = grounded
      /\ refs'[t] = trace.refs /\ audits'[t] = answer
      /\ records' = Others \cup {Row(c) : c \in trace.calls}
      /\ screen'[t] = [status |-> "completed", trace |-> IF grounded THEN trace ELSE None,
                       audit |-> answer]
  BY <1>1, <1>2 DEF Finish, Store, IInv, Typed
<1>4. {x \in records' : x.turn = t} = {Row(c) : c \in trace.calls}
  <2>1. \A c : Row(c).turn = t
    BY DEF Row
  <2>2. QED
    BY <1>3, <2>1 DEF Others
<1>5. \A c \in trace.calls : /\ Row(c).refs = c.refs
                             /\ [id |-> Row(c).id, round |-> Row(c).round, name |-> Row(c).name,
                                 refs |-> Row(c).refs] = c
  BY <1>2 DEF Row, CallShape
<1>6. LoadTrace(t)' = trace
  <2>1. {[id |-> r.id, round |-> r.round, name |-> r.name, refs |-> r.refs] :
           r \in {x \in records' : x.turn = t}} = trace.calls
    BY <1>4, <1>5
  <2>2. QED
    BY <1>2, <1>3, <2>1 DEF LoadTrace
<1>7. Restored(t)' = screen'[t]
  <2>1. Restored(t)' = [status |-> rows'[t].status,
                        trace |-> IF rows'[t].traced THEN LoadTrace(t)' ELSE None,
                        audit |-> audits'[t]]
    BY DEF Restored
  <2>2. QED
    BY <1>3, <1>6, <2>1
<1>8. \A bundle \in audits'[t] : Grounded(t, bundle)'
  <2>1. ASSUME NEW bundle \in answer PROVE Grounded(t, bundle)'
    <3>1. /\ ~bundle.raw /\ \A c \in ToSet(bundle.text) : c.ids # <<>>
          /\ \A c \in ToSet(bundle.claims) : ToSet(c.ids) \subseteq EvidenceIds(bundle)
          /\ ToSet(bundle.evidence) \subseteq ToSet(trace.refs)
      BY <1>1 DEF Backed
    <3>2. \A e \in ToSet(bundle.evidence) : \E c \in trace.calls : e.id \in Row(c).refs
      BY <1>2, <1>5, <3>1
    <3>3. EvidenceIds(bundle) \subseteq UNION {r.refs : r \in {x \in records' : x.turn = t}}
      BY <1>4, <3>2 DEF EvidenceIds
    <3>4. QED
      BY <1>3, <3>1, <3>3 DEF Grounded, EvidenceIds
  <2>2. QED
    BY <1>3, <2>1
<1>9. (audits'[t] # {}) <=> (rows'[t].status = "completed" /\ rows'[t].contract = "audit")
  BY <1>1, <1>3
<1>10. QED
  BY <1>7, <1>8, <1>9 DEF HeldAt

\* A turn without an answer says nothing.
LEMMA NothingHeld ==
  ASSUME NEW t \in Turn, rows'[t].status # "completed", screen'[t].status # "completed",
         audits'[t] = {}
  PROVE  HeldAt(t)'
BY DEF HeldAt

\* What is stored with an answer stays, and what is said of each turn holds.
LEMMA StoredStep ==
  ASSUME IInv, [Next]_vars
  PROVE  Stored'
<1>1. /\ refs \in [Turn -> Seq(References)] /\ audits = [t \in Turn |-> audits[t]]
      /\ screen = [t \in Turn |-> screen[t]] /\ \A t \in Turn : MessageShape(screen[t])
      /\ \A t \in Turn : HeldAt(t)
      /\ trace.refs \in Seq(References)
      /\ rows \in [Turn -> [status : {"none", "pending", "completed", "failed", "cancelled"},
                            contract : Contracts, traced : BOOLEAN]]
      /\ phase # "idle" => now \in Turn /\ rows[now].status = "pending"
      /\ \A t \in Turn : t > now => rows[t].status = "none"
      /\ now \in 0..MaxTurns /\ MaxTurns \in Nat
  BY AnswerAssumption DEF IInv, Stored, Traced, Running, Typed
<1>2. \A t \in Turn : rows[t].status # "completed" => audits[t] = {}
  BY <1>1 DEF HeldAt
<1> DEFINE Shapes == /\ refs' \in [Turn -> Seq(References)]
                     /\ audits' = [t \in Turn |-> audits'[t]]
                     /\ screen' = [t \in Turn |-> screen'[t]]
                     /\ \A t \in Turn : MessageShape(screen[t])'
<1>3. CASE UNCHANGED <<database, screen>>
  <2>1. UNCHANGED <<rows, records, refs, audits, screen>>
    BY <1>3 DEF database
  <2>2. Shapes
    BY <1>1, <2>1 DEF MessageShape
  <2>3. \A t \in Turn : HeldAt(t)'
    BY <1>1, <2>1, HeldKept DEF RecordsOf
  <2>4. QED
    BY <2>2, <2>3 DEF Stored
<1>4. CASE Begins
  <2>1. PICK contract \in Contracts :
          /\ now < MaxTurns /\ now' = now + 1 /\ UNCHANGED <<refs, audits, records>>
          /\ rows' = [rows EXCEPT ![now'] = [status |-> "pending", contract |-> contract,
                                            traced |-> FALSE]]
          /\ screen' = [screen EXCEPT ![now'].status = "pending"]
    BY <1>4 DEF Begins, Begin
  <2>2. PICK turn \in Turn : turn = now + 1
    BY <1>1, <2>1 DEF Turn
  <2>3. rows[turn].status = "none"
    BY <1>1, <2>2
  <2>4. Shapes
    BY <1>1, <2>1, <2>2 DEF MessageShape
  <2>5. HeldAt(turn)'
    <3>1. rows'[turn].status = "pending" /\ screen'[turn].status = "pending"
      BY <1>1, <2>1, <2>2 DEF MessageShape
    <3>2. audits'[turn] = {}
      BY <1>2, <2>1, <2>3
    <3>3. QED
      BY <3>1, <3>2, NothingHeld
  <2>6. \A t \in Turn : t # turn => HeldAt(t)'
    <3>1. \A t \in Turn : t # turn => rows'[t] = rows[t] /\ screen'[t] = screen[t]
      BY <1>1, <2>1, <2>2
    <3>2. QED
      BY <1>1, <2>1, <3>1, HeldKept DEF RecordsOf
  <2>7. QED
    BY <2>4, <2>5, <2>6 DEF Stored
<1>5. CASE Stops
  <2>1. PICK status \in {"failed", "cancelled"} : Stopped(status)
    BY <1>5 DEF Stops
  <2>2. PICK turn \in Turn : turn = now
    BY <1>1, <1>5 DEF Stops
  <2>3. /\ UNCHANGED <<refs, audits, records>> /\ rows[turn].status = "pending"
        /\ rows' = [rows EXCEPT ![turn].status = status]
        /\ screen' = [screen EXCEPT ![turn].status = status]
    BY <1>1, <1>5, <2>1, <2>2 DEF Stops, Stopped
  <2>4. Shapes
    BY <1>1, <2>3 DEF MessageShape
  <2>5. HeldAt(turn)'
    <3>1. rows'[turn].status = status /\ screen'[turn].status = status
      BY <1>1, <2>3 DEF MessageShape
    <3>2. audits'[turn] = {}
      BY <1>2, <2>3
    <3>3. QED
      BY <3>1, <3>2, NothingHeld
  <2>6. \A t \in Turn : t # turn => HeldAt(t)'
    <3>1. \A t \in Turn : t # turn => rows'[t] = rows[t] /\ screen'[t] = screen[t]
      BY <1>1, <2>3
    <3>2. QED
      BY <1>1, <2>3, <3>1, HeldKept DEF RecordsOf
  <2>7. QED
    BY <2>4, <2>5, <2>6 DEF Stored
<1>6. CASE Finish
  <2>1. PICK turn \in Turn : turn = now
    BY <1>1, <1>6 DEF Finish
  <2>2. /\ records' = Others \cup {Row(c) : c \in trace.calls}
        /\ refs' = [refs EXCEPT ![turn] = trace.refs]
        /\ audits' = [audits EXCEPT ![turn] = answer]
        /\ rows' = [rows EXCEPT ![turn].status = "completed", ![turn].traced = grounded]
        /\ screen' = [screen EXCEPT ![turn] = [status |-> "completed",
                         trace |-> IF grounded THEN trace ELSE None, audit |-> answer]]
    BY <1>6, <2>1 DEF Finish, Store
  <2>3. Shapes
    BY <1>1, <2>2 DEF MessageShape
  <2>4. HeldAt(turn)'
    BY <1>6, <2>1, FinishHolds
  <2>5. \A t \in Turn : t # turn => HeldAt(t)'
    <3>1. \A t \in Turn : t # turn => /\ rows'[t] = rows[t] /\ screen'[t] = screen[t]
                                    /\ audits'[t] = audits[t] /\ refs'[t] = refs[t]
      BY <1>1, <2>2
    <3>2. \A t \in Turn : t # turn => RecordsOf(t)' = RecordsOf(t)
      BY <2>1, <2>2 DEF RecordsOf, Others, Row
    <3>3. QED
      BY <1>1, <3>1, <3>2, HeldKept
  <2>6. QED
    BY <2>3, <2>4, <2>5 DEF Stored
<1>7. CASE Restart
  <2>1. /\ UNCHANGED <<refs, audits, records>>
        /\ rows' = [t \in Turn |-> IF rows[t].status = "pending"
                                     THEN [rows[t] EXCEPT !.status = "failed"] ELSE rows[t]]
        /\ screen' = [t \in Turn |-> [Restored(t) EXCEPT !.status = rows'[t].status]]
    BY <1>7 DEF Restart
  <2>2. ASSUME NEW t \in Turn
        PROVE  /\ MessageShape(screen'[t]) /\ screen'[t].status = rows'[t].status
               /\ rows'[t].status = rows[t].status => screen'[t] = Restored(t)
    <3> DEFINE old == Restored(t)
    <3>1. old = [status |-> rows[t].status, trace |-> old.trace, audit |-> old.audit]
      BY DEF Restored
    <3>2. screen'[t] = [old EXCEPT !.status = rows'[t].status]
      BY <2>1
    <3>3. old.status = rows[t].status
      BY <3>1
    <3> HIDE DEF old
    <3>4. screen'[t] = [status |-> rows'[t].status, trace |-> old.trace, audit |-> old.audit]
      BY <3>1, <3>2
    <3>5. screen'[t].status = rows'[t].status /\ MessageShape(screen'[t])
      BY <3>4 DEF MessageShape
    <3>6. rows'[t].status = rows[t].status => screen'[t] = old
      BY <3>1, <3>4
    <3>7. QED
      BY <3>5, <3>6 DEF old
  <2>3. Shapes
    <3>1. \A t \in Turn : MessageShape(screen[t])'
      BY <2>2 DEF MessageShape
    <3>2. QED
      BY <1>1, <2>1, <3>1
  <2>4. ASSUME NEW t \in Turn PROVE HeldAt(t)'
    <3>1. CASE rows[t].status # "completed"
      <4>1. rows'[t].status # "completed"
        BY <1>1, <2>1, <3>1
      <4>2. screen'[t].status = rows'[t].status
        BY <2>2
      <4>3. audits'[t] = {}
        BY <1>2, <2>1, <3>1
      <4>4. QED
        BY <4>1, <4>2, <4>3, NothingHeld
    <3>2. CASE rows[t].status = "completed"
      <4>1. rows'[t] = rows[t]
        BY <2>1, <3>2
      <4>2. Restored(t)' = Restored(t) /\ Restored(t) = screen'[t]
        BY <2>1, <2>2, <4>1 DEF Restored, LoadTrace
      <4>3. HeldAt(t)
        BY <1>1
      <4>4. \A bundle \in audits[t] : Grounded(t, bundle)'
        BY <2>1, <4>3 DEF HeldAt, Grounded, EvidenceIds
      <4>5. QED
        BY <2>1, <4>1, <4>2, <4>3, <4>4 DEF HeldAt
    <3>3. QED
      BY <3>1, <3>2
  <2>5. QED
    BY <2>3, <2>4 DEF Stored
<1>8. CASE Grows \/ Seeks \/ Completes \/ Rests
  <2>1. UNCHANGED <<database, screen>>
    BY <1>8 DEF Grows, Answered, Seeks, Completes, Rests
  <2>2. QED
    BY <1>3, <2>1
<1>9. QED
  BY <1>4, <1>5, <1>6, <1>7, <1>8, StepKinds

\* Before the first turn.
LEMMA Initially == Init => IInv
<1> SUFFICES ASSUME Init PROVE IInv
  OBVIOUS
<1>1. Typed
  <2>1. disk \in [DOMAIN disk -> {"same", "changed", "gone"}]
    BY DEF Init
  <2>2. /\ now = 0 /\ asked = 0 /\ faults = 0 /\ phase = "idle" /\ gateway = "fresh"
        /\ cancelled = FALSE /\ grounded = FALSE
    BY DEF Init
  <2>3. 0 \in 0..MaxTurns /\ 0 \in 0..MaxCalls /\ 0 \in 0..MaxFaults
    BY AnswerAssumption
  <2>4. cancelled \in BOOLEAN /\ grounded \in BOOLEAN
    BY <2>2
  <2>5. QED
    BY <2>1, <2>2, <2>3, <2>4 DEF Typed
<1>2. trace.refs = <<>> /\ trace.calls = {} /\ trace = [calls |-> trace.calls, refs |-> trace.refs]
  BY DEF Init, EmptyTrace
<1>3. Traced
  <2>1. trace.refs \in Seq(References) /\ ToSet(trace.refs) = {}
    BY <1>2 DEF ToSet
  <2>2. QED
    BY <1>2, <2>1 DEF Traced
<1>4. Searching /\ Answers
  BY DEF Init, Searching, Answers
<1>5. Running
  <2>1. rows = [t \in Turn |-> [status |-> "none", contract |-> "advisor", traced |-> FALSE]]
        /\ phase = "idle"
    BY DEF Init
  <2>2. QED
    BY <2>1 DEF Running, Contracts
<1>6. Stored
  <2>1. /\ rows = [t \in Turn |-> [status |-> "none", contract |-> "advisor", traced |-> FALSE]]
        /\ refs = [t \in Turn |-> <<>>] /\ audits = [t \in Turn |-> {}]
        /\ screen = [t \in Turn |-> Unseen]
    BY DEF Init
  <2>2. refs \in [Turn -> Seq(References)]
    BY <2>1
  <2>3. \A t \in Turn : HeldAt(t) /\ MessageShape(screen[t])
    BY <2>1 DEF HeldAt, MessageShape, Unseen
  <2>4. QED
    BY <2>1, <2>2, <2>3 DEF Stored
<1>7. QED
  BY <1>1, <1>3, <1>4, <1>5, <1>6 DEF IInv

\* The inductive invariant: an initial state has it and every step keeps it.
THEOREM Invariance == Spec => []IInv
<1>1. IInv /\ [Next]_vars => IInv'
  BY TypedStep, TracedStep, SearchingStep, AnswersStep, RunningStep, StoredStep DEF IInv
<1>2. QED
  BY <1>1, Initially, PTL DEF Spec

-----------------------------------------------------------------------------
(* What a result leaves out.                                                *)

\* What execute lets through: content and omissions cut to size, the references as they are.
LEMMA SealedForm ==
  ASSUME NEW a, a.refs \in Seq(References), Sealed(a).code = None
  PROVE  LET once == Bound(a.content, a.omitted)
             twice == Bound(Redact(once.content), once.omitted)
             omitted == Take(twice.omitted, MaxOmissions)
         IN  /\ a.code = None
             /\ 1 + Len(twice.content) + Len(a.refs) + Len(omitted) <= MaxResult
             /\ Sealed(a).content = twice.content /\ Sealed(a).refs = a.refs
             /\ Sealed(a).omitted = omitted
<1> DEFINE once == Bound(a.content, a.omitted)
           twice == Bound(Redact(once.content), once.omitted)
           again == [k \in DOMAIN a.refs |-> [a.refs[k] EXCEPT !.excerpt = Redact(@)]]
           omitted == Take(twice.omitted, MaxOmissions)
<1>1. Sealed(a) = IF a.code # None THEN a
                  ELSE IF 1 + Len(twice.content) + Len(again) + Len(omitted) <= MaxResult
                    THEN Found(twice.content, again, omitted)
                  ELSE Refused("TOOL_RESULT_LIMIT_REACHED")
  BY DEF Sealed
<1>2. again = a.refs
  <2>1. \A k \in DOMAIN a.refs : a.refs[k] \in References
    OBVIOUS
  <2>2. again = [k \in DOMAIN a.refs |-> a.refs[k]]
    BY <2>1, ReferencesSettle
  <2> HIDE DEF again
  <2>3. a.refs = [k \in DOMAIN a.refs |-> a.refs[k]]
    OBVIOUS
  <2>4. QED
    BY <2>2, <2>3
<1> HIDE DEF twice, again, omitted
<1>3. a.code = None
  BY <1>1
<1>4. Refused("TOOL_RESULT_LIMIT_REACHED").code # None
  BY RefusedOK, NoneAssumption
<1>5. /\ 1 + Len(twice.content) + Len(again) + Len(omitted) <= MaxResult
      /\ Sealed(a) = Found(twice.content, again, omitted)
  BY <1>1, <1>3, <1>4
<1>6. /\ Found(twice.content, again, omitted).content = twice.content
      /\ Found(twice.content, again, omitted).refs = again
      /\ Found(twice.content, again, omitted).omitted = omitted
  BY DEF Found
<1>7. /\ a.code = None /\ 1 + Len(twice.content) + Len(a.refs) + Len(omitted) <= MaxResult
      /\ Sealed(a).content = twice.content /\ Sealed(a).refs = a.refs /\ Sealed(a).omitted = omitted
  BY <1>2, <1>3, <1>5, <1>6
<1>8. QED
  BY <1>7 DEF twice, omitted

\* An omission that an answer had is not lost, and only one of its size can come to it.
LEMMA SealedKeeps ==
  ASSUME NEW a, NEW T, a.omitted \in Seq(T), a.refs \in Seq(References),
         Len(a.omitted) <= MaxOmissions, Sealed(a).code = None
  PROVE  /\ ToSet(a.omitted) \subseteq ToSet(Sealed(a).omitted)
         /\ \A o \in ToSet(Sealed(a).omitted) : o \in ToSet(a.omitted) \/ o.code = "TOOL_RESULT_BYTE_LIMIT"
<1> DEFINE limit == Omission("TOOL_RESULT_BYTE_LIMIT", None, 0)
           once == Bound(a.content, a.omitted)
           twice == Bound(Redact(once.content), once.omitted)
           omitted == Take(twice.omitted, MaxOmissions)
           U == T \cup {limit}
<1>1. Sealed(a).omitted = omitted
  BY SealedForm
<1>2. MaxOmissions \in Nat /\ MaxOmissions # 0
  BY ToolsAssumption
<1>5. /\ once.omitted = a.omitted \/ once.omitted = Append(a.omitted, limit)
      /\ twice.omitted = once.omitted \/ twice.omitted = Append(once.omitted, limit)
  <2>1. \A c, o : Bound(c, o).omitted = o \/ Bound(c, o).omitted = Append(o, limit)
    BY DEF Bound
  <2> HIDE DEF limit
  <2>2. QED
    BY <2>1
<1>6. a.omitted \in Seq(U)
  <2> HIDE DEF limit
  <2>1. T \subseteq U
    OBVIOUS
  <2>2. QED
    BY <2>1
<1>7. /\ twice.omitted \in Seq(U) /\ Len(a.omitted) <= Len(twice.omitted)
      /\ \A i \in 1..Len(a.omitted) : twice.omitted[i] = a.omitted[i]
      /\ \A i \in 1..Len(twice.omitted) : i <= Len(a.omitted) \/ twice.omitted[i] = limit
  <2>1. limit \in U
    OBVIOUS
  <2> HIDE DEF once, twice, limit, U
  <2>2. \A s \in Seq(U) : /\ Append(s, limit) \in Seq(U) /\ Len(Append(s, limit)) = Len(s) + 1
                          /\ \A i \in 1..Len(s) : Append(s, limit)[i] = s[i]
                          /\ Append(s, limit)[Len(s) + 1] = limit /\ Len(s) \in Nat
    BY <2>1
  <2>3. /\ once.omitted \in Seq(U) /\ Len(a.omitted) <= Len(once.omitted)
        /\ \A i \in 1..Len(a.omitted) : once.omitted[i] = a.omitted[i]
        /\ \A i \in 1..Len(once.omitted) : i <= Len(a.omitted) \/ once.omitted[i] = limit
    <3>1. CASE once.omitted = a.omitted
      BY <1>6, <2>2, <3>1
    <3>2. CASE once.omitted = Append(a.omitted, limit)
      <4>1. Len(once.omitted) = Len(a.omitted) + 1 /\ Len(a.omitted) \in Nat
        BY <1>6, <2>2, <3>2
      <4>2. \A i \in 1..Len(once.omitted) : i <= Len(a.omitted) \/ i = Len(a.omitted) + 1
        BY <4>1
      <4>3. QED
        BY <1>6, <2>2, <3>2, <4>1, <4>2
    <3>3. QED
      BY <1>5, <3>1, <3>2
  <2>4. Len(once.omitted) \in Nat /\ Len(a.omitted) \in Nat
    BY <1>6, <2>2, <2>3
  <2>5. CASE twice.omitted = once.omitted
    BY <2>3, <2>5
  <2>6. CASE twice.omitted = Append(once.omitted, limit)
    BY <2>2, <2>3, <2>4, <2>6
  <2>7. QED
    BY <1>5, <2>5, <2>6
<1> HIDE DEF U
<1>8. ToSet(a.omitted) \subseteq ToSet(omitted)
  <2>1. ASSUME NEW i \in DOMAIN a.omitted PROVE i \in DOMAIN omitted /\ omitted[i] = a.omitted[i]
    <3> HIDE DEF once, twice, limit
    <3>1. i \in 1..Len(a.omitted) /\ i \in 1..MaxOmissions /\ i <= Len(twice.omitted)
      BY <1>2, <1>6, <1>7
    <3>2. i \in DOMAIN omitted /\ omitted[i] = twice.omitted[i]
      BY <1>2, <1>7, <3>1, TakeLength
    <3> HIDE DEF omitted
    <3>3. QED
      BY <1>7, <3>1, <3>2
  <2> HIDE DEF omitted
  <2>2. QED
    BY <2>1 DEF ToSet
<1>9. \A o \in ToSet(omitted) : o \in ToSet(a.omitted) \/ o.code = "TOOL_RESULT_BYTE_LIMIT"
  <2>1. limit.code = "TOOL_RESULT_BYTE_LIMIT"
    BY DEF Omission
  <2> HIDE DEF once, twice, limit
  <2>2. \A i \in DOMAIN omitted : i \in DOMAIN twice.omitted /\ omitted[i] = twice.omitted[i]
    BY <1>2, <1>7, TakeOK
  <2>3. DOMAIN twice.omitted = 1..Len(twice.omitted) /\ DOMAIN a.omitted = 1..Len(a.omitted)
    BY <1>7
  <2> HIDE DEF omitted
  <2>4. ASSUME NEW i \in DOMAIN omitted
        PROVE  omitted[i] \in ToSet(a.omitted) \/ omitted[i].code = "TOOL_RESULT_BYTE_LIMIT"
    <3>1. CASE i \in 1..Len(a.omitted)
      BY <1>7, <2>2, <2>3, <3>1 DEF ToSet
    <3>2. CASE i \notin 1..Len(a.omitted)
      <4>1. i \in 1..Len(twice.omitted) /\ Len(a.omitted) \in Nat /\ Len(twice.omitted) \in Nat
        BY <1>6, <1>7, <2>2, <2>3
      <4>2. ~(i <= Len(a.omitted))
        BY <3>2, <4>1
      <4>3. twice.omitted[i] = limit
        BY <1>7, <4>1, <4>2
      <4>4. QED
        BY <2>1, <2>2, <4>3
    <3>3. QED
      BY <3>1, <3>2
  <2>5. QED
    BY <2>4 DEF ToSet
<1>10. QED
  <2> HIDE DEF twice, once, omitted
  <2>1. QED
    BY <1>1, <1>8, <1>9

\* An answer in which no private key block begins keeps all of its content.
LEMMA SealedIsWhole ==
  ASSUME NEW a, NEW S, a.content \in Seq(S), NEW T, a.omitted \in Seq(T),
         a.refs \in Seq(References), Len(a.omitted) <= MaxOmissions, Sealed(a).code = None,
         \A i \in DOMAIN a.content : a.content[i] # "begin"
  PROVE  Len(Sealed(a).content) = Len(a.content) /\ Sealed(a).omitted = a.omitted
<1> DEFINE once == Bound(a.content, a.omitted)
           twice == Bound(Redact(once.content), once.omitted)
           omitted == Take(twice.omitted, MaxOmissions)
<1>1. /\ 1 + Len(twice.content) + Len(a.refs) + Len(omitted) <= MaxResult
      /\ Sealed(a).content = twice.content /\ Sealed(a).omitted = omitted
  BY SealedForm
<1>2. MaxResult \in Nat /\ MaxOmissions \in Nat /\ Len(a.refs) \in Nat
  BY ToolsAssumption
<1>3. Len(omitted) \in Nat
  <2> DEFINE limit == Omission("TOOL_RESULT_BYTE_LIMIT", None, 0)
  <2>2. \A c : \A o \in Seq(T \cup {limit}) : Bound(c, o).omitted \in Seq(T \cup {limit})
    <3>1. \A o \in Seq(T \cup {limit}) : Append(o, limit) \in Seq(T \cup {limit})
      <4>1. limit \in T \cup {limit}
        OBVIOUS
      <4> HIDE DEF limit
      <4>2. QED
        BY <4>1
    <3>2. \A c, o : Bound(c, o).omitted = o \/ Bound(c, o).omitted = Append(o, limit)
      BY DEF Bound
    <3> HIDE DEF limit
    <3>3. QED
      BY <3>1, <3>2
  <2>3. a.omitted \in Seq(T \cup {limit})
    <3> HIDE DEF limit
    <3>1. T \subseteq T \cup {limit}
      OBVIOUS
    <3>2. QED
      BY <3>1
  <2> HIDE DEF limit
  <2>4. twice.omitted \in Seq(T \cup {limit})
    BY <2>2, <2>3
  <2> HIDE DEF twice
  <2>5. QED
    BY <1>2, <2>4, TakeLength
<1>4. /\ \A c : Len(c) <= MaxResult => Bound(c, a.omitted) = [content |-> c, omitted |-> a.omitted]
      /\ \A c, o : Bound(c, o).content = IF Len(c) <= MaxResult THEN c ELSE Take(c, MaxResult)
  BY DEF Bound
<1>5. /\ Take(a.content, MaxResult) \in Seq(S)
      /\ Len(Take(a.content, MaxResult)) = IF Len(a.content) <= MaxResult THEN Len(a.content) ELSE MaxResult
      /\ \A i \in DOMAIN Take(a.content, MaxResult) : Take(a.content, MaxResult)[i] # "begin"
  <2>1. \A i \in DOMAIN Take(a.content, MaxResult) :
          i \in DOMAIN a.content /\ Take(a.content, MaxResult)[i] = a.content[i]
    BY <1>2, TakeOK
  <2>2. QED
    BY <1>2, <2>1, TakeLength
<1>6. /\ once.content \in Seq(S) /\ \A i \in DOMAIN once.content : once.content[i] # "begin"
      /\ Len(once.content) = IF Len(a.content) <= MaxResult THEN Len(a.content) ELSE MaxResult
  <2>1. once.content = IF Len(a.content) <= MaxResult THEN a.content ELSE Take(a.content, MaxResult)
    BY <1>4
  <2> HIDE DEF once
  <2>2. QED
    BY <1>2, <1>5, <2>1
<1>7. Len(Redact(once.content)) = Len(once.content)
  <2> HIDE DEF once
  <2>1. QED
    BY <1>6, RedactLength
<1>8. twice.content = Redact(once.content)
  <2>1. Len(a.content) \in Nat
    OBVIOUS
  <2> HIDE DEF once
  <2>2. QED
    BY <1>2, <1>4, <1>6, <1>7, <2>1
<1>9. Len(a.content) <= MaxResult
  <2>1. Len(twice.content) = IF Len(a.content) <= MaxResult THEN Len(a.content) ELSE MaxResult
    <3> HIDE DEF once, twice
    <3>1. QED
      BY <1>6, <1>7, <1>8
  <2>2. Len(a.content) \in Nat
    OBVIOUS
  <2> HIDE DEF twice, omitted
  <2>3. ASSUME ~(Len(a.content) <= MaxResult) PROVE FALSE
    <3>1. Len(twice.content) = MaxResult
      BY <2>1, <2>3
    <3>2. 1 + MaxResult + Len(a.refs) + Len(omitted) <= MaxResult
      BY <1>1, <3>1
    <3>3. \A p, q, r \in Nat : ~(1 + p + q + r <= p)
      OBVIOUS
    <3>4. QED
      BY <1>2, <1>3, <3>2, <3>3
  <2>4. QED
    BY <2>3
<1>10. once = [content |-> a.content, omitted |-> a.omitted]
  BY <1>4, <1>9
<1>11. /\ once.content = a.content /\ once.omitted = a.omitted
  BY <1>10
<1>12. twice = [content |-> Redact(a.content), omitted |-> a.omitted]
  <2> HIDE DEF once
  <2>1. Len(Redact(a.content)) <= MaxResult
    BY <1>7, <1>9, <1>11
  <2>2. QED
    BY <1>4, <1>11, <2>1
<1>13. twice.content = Redact(a.content) /\ twice.omitted = a.omitted
  BY <1>12
<1>14. QED
  <2> HIDE DEF twice, once
  <2>1. omitted = a.omitted
    BY <1>2, <1>13, TakeLength
  <2>2. QED
    BY <1>1, <1>7, <1>11, <1>13, <2>1

\* One element after the others.
LEMMA AppendSet ==
  ASSUME NEW S, NEW s \in Seq(S), NEW e
  PROVE  ToSet(Append(s, e)) = ToSet(s) \cup {e}
<1>1. /\ DOMAIN Append(s, e) = 1..(Len(s) + 1) /\ Len(s) \in Nat /\ DOMAIN s = 1..Len(s)
      /\ \A i \in 1..Len(s) : Append(s, e)[i] = s[i]
      /\ Append(s, e)[Len(s) + 1] = e
  OBVIOUS
<1>2. \A i \in 1..(Len(s) + 1) : i \in 1..Len(s) \/ i = Len(s) + 1
  BY <1>1
<1>3. Len(s) + 1 \in 1..(Len(s) + 1) /\ 1..Len(s) \subseteq 1..(Len(s) + 1)
  BY <1>1
<1>4. QED
  BY <1>1, <1>2, <1>3 DEF ToSet

\* The first element and the rest.
LEMMA TailSet ==
  ASSUME NEW S, NEW s \in Seq(S), s # <<>>
  PROVE  ToSet(s) = {Head(s)} \cup ToSet(Tail(s))
<1>1. /\ Len(s) \in Nat /\ Len(s) >= 1 /\ DOMAIN s = 1..Len(s) /\ Head(s) = s[1]
      /\ DOMAIN Tail(s) = 1..(Len(s) - 1)
      /\ \A i \in 1..(Len(s) - 1) : Tail(s)[i] = s[i + 1]
  OBVIOUS
<1>2. \A i \in 1..Len(s) : i = 1 \/ (i - 1 \in 1..(Len(s) - 1) /\ s[i] = Tail(s)[i - 1])
  <2>1. ASSUME NEW i \in 1..Len(s), i # 1 PROVE i - 1 \in 1..(Len(s) - 1) /\ (i - 1) + 1 = i
    BY <1>1, <2>1
  <2>2. QED
    BY <1>1, <2>1
<1>3. \A i \in 1..(Len(s) - 1) : i + 1 \in 1..Len(s)
  BY <1>1
<1>4. 1 \in 1..Len(s)
  BY <1>1
<1>5. ToSet(s) \subseteq {Head(s)} \cup ToSet(Tail(s))
  <2>1. ASSUME NEW i \in 1..Len(s) PROVE s[i] = Head(s) \/ \E j \in DOMAIN Tail(s) : s[i] = Tail(s)[j]
    BY <1>1, <1>2
  <2>2. QED
    BY <1>1, <2>1 DEF ToSet
<1>6. {Head(s)} \cup ToSet(Tail(s)) \subseteq ToSet(s)
  BY <1>1, <1>3, <1>4 DEF ToSet
<1>7. QED
  BY <1>5, <1>6

\* A list of files says how many it leaves out.
Listed(code, files, limit) ==
  Found(Names(Take(files, limit)), <<>>, Counted(code, files, limit))

\* What a list shows and what it counts as left out are all that matches.
LEMMA ListedIsWhole ==
  ASSUME PlainNames, NEW F \in SUBSET ToSet(Catalog), NEW limit \in Nat,
         NEW code \in {"LIST_TREE_LIMIT", "SEARCH_PATHS_LIMIT"},
         Sealed(Listed(code, Among(F), limit)).code = None
  PROVE  LET result == Sealed(Listed(code, Among(F), limit))
         IN Cardinality(F) = Len(result.content) + CountOf(result, "LIST_TREE_LIMIT")
                               + CountOf(result, "SEARCH_PATHS_LIMIT")
<1> DEFINE files == Among(F)
           a == Listed(code, files, limit)
           noted == Omission(code, None, Len(files) - limit)
           result == Sealed(a)
<1>1. files \in Seq(Shown) /\ Len(files) = Cardinality(F) /\ Len(files) \in Nat
  BY AmongOK
<1> HIDE DEF files
<1>2. a.content = Names(Take(files, limit)) /\ a.refs = <<>> /\ a.omitted = Counted(code, files, limit)
  BY DEF Listed, Found
<1>3. Take(files, limit) \in Seq(Shown) /\ Len(Take(files, limit)) = IF Len(files) <= limit THEN Len(files) ELSE limit
  BY <1>1, TakeLength
<1> DEFINE names == {f.name : f \in Files}
<1>4. /\ a.content \in Seq(names) /\ Len(a.content) = Len(Take(files, limit))
      /\ \A i \in DOMAIN a.content : a.content[i] # "begin"
  <2> DEFINE shown == Take(files, limit)
  <2> HIDE DEF shown
  <2>1. Names(shown) = [k \in DOMAIN shown |-> shown[k].name]
    BY DEF Names
  <2>2. DOMAIN shown = 1..Len(shown) /\ Len(shown) \in Nat /\ \A k \in DOMAIN shown : shown[k] \in Files
    BY <1>3 DEF shown, Shown
  <2>3. \A f \in Files : f.name \in names /\ f.name # "begin"
    BY DEF PlainNames, Files
  <2>4. Names(shown) \in [1..Len(shown) -> names] /\ \A k \in DOMAIN shown : Names(shown)[k] # "begin"
    BY <2>1, <2>2, <2>3
  <2> HIDE DEF names
  <2>5. Names(shown) \in Seq(names) /\ Len(Names(shown)) = Len(shown) /\ DOMAIN Names(shown) = DOMAIN shown
    BY <2>2, <2>4
  <2>6. QED
    BY <1>2, <2>4, <2>5 DEF shown
<1>5. /\ a.omitted \in Seq({noted}) /\ Len(a.omitted) <= 1
      /\ ToSet(a.omitted) = IF Len(files) > limit THEN {noted} ELSE {}
  <2>1. ToSet(<<noted>>) = {noted} /\ ToSet(<<>>) = {}
    BY DEF ToSet
  <2> HIDE DEF noted
  <2>2. <<noted>> \in Seq({noted}) /\ <<>> \in Seq({noted}) /\ Len(<<noted>>) = 1 /\ Len(<<>>) = 0
    OBVIOUS
  <2>3. Counted(code, files, limit) = IF Len(files) > limit THEN <<noted>> ELSE <<>>
    BY DEF Counted, noted
  <2>4. a.omitted = IF Len(files) > limit THEN <<noted>> ELSE <<>>
    BY <1>2, <2>3
  <2> HIDE DEF a
  <2>5. CASE Len(files) > limit
    BY <2>1, <2>2, <2>4, <2>5
  <2>6. CASE ~(Len(files) > limit)
    BY <2>1, <2>2, <2>4, <2>6
  <2>7. QED
    BY <2>5, <2>6
<1>6. MaxOmissions \in Nat /\ MaxOmissions # 0 /\ <<>> \in Seq(References)
  BY ToolsAssumption
<1> HIDE DEF a, noted, names
<1>7. Len(result.content) = Len(a.content) /\ result.omitted = a.omitted
  <2>1. Len(a.omitted) <= MaxOmissions /\ a.refs \in Seq(References) /\ Sealed(a).code = None
    BY <1>2, <1>5, <1>6 DEF a, files
  <2>2. QED
    BY <1>4, <1>5, <2>1, SealedIsWhole
<1> HIDE DEF result
<1>8. noted.code = code /\ noted.count = Len(files) - limit
  BY DEF noted, Omission
<1>9. \A c : CountOf(result, c) = IF Len(files) > limit /\ c = code THEN Len(files) - limit ELSE 0
  <2>1. ASSUME NEW c
        PROVE  CountOf(result, c) = IF Len(files) > limit /\ c = code THEN Len(files) - limit ELSE 0
    <3> DEFINE those == {o \in ToSet(result.omitted) : o.code = c}
    <3>1. CASE Len(files) > limit /\ c = code
      <4>1. those = {noted}
        BY <1>5, <1>7, <1>8, <3>1
      <4>2. (CHOOSE o \in those : TRUE) = noted /\ those # {}
        BY <4>1
      <4>3. QED
        BY <1>8, <3>1, <4>2 DEF CountOf
    <3>2. CASE ~(Len(files) > limit /\ c = code)
      <4>1. those = {}
        BY <1>5, <1>7, <1>8, <3>2
      <4>2. QED
        BY <3>2, <4>1 DEF CountOf
    <3>3. QED
      BY <3>1, <3>2
  <2>2. QED
    BY <2>1
<1>10. Cardinality(F) = Len(result.content) + CountOf(result, "LIST_TREE_LIMIT")
                          + CountOf(result, "SEARCH_PATHS_LIMIT")
  <2> DEFINE more == IF Len(files) > limit THEN Len(files) - limit ELSE 0
  <2>1. Len(result.content) + more = Cardinality(F) /\ more \in Nat /\ Len(result.content) \in Nat
    BY <1>1, <1>3, <1>4, <1>7
  <2>2. CASE code = "LIST_TREE_LIMIT"
    <3>1. CountOf(result, "LIST_TREE_LIMIT") = more /\ CountOf(result, "SEARCH_PATHS_LIMIT") = 0
      BY <1>9, <2>2
    <3> HIDE DEF more
    <3>2. QED
      BY <2>1, <3>1
  <2>3. CASE code = "SEARCH_PATHS_LIMIT"
    <3>1. CountOf(result, "SEARCH_PATHS_LIMIT") = more /\ CountOf(result, "LIST_TREE_LIMIT") = 0
      BY <1>9, <2>3
    <3> HIDE DEF more
    <3>2. QED
      BY <2>1, <3>1
  <2>4. QED
    BY <2>2, <2>3
<1>11. QED
  BY <1>10 DEF result, a, files

\* So do list_tree and search_paths.
LEMMA ListsAreWhole ==
  ASSUME PlainNames, NEW call \in Asked, call.name \in {"list_tree", "search_paths"},
         Sealed(Executed(call)).code = None
  PROVE  LET result == Sealed(Executed(call))
         IN Cardinality(Matching(call)) =
              Len(result.content) + CountOf(result, "LIST_TREE_LIMIT")
                + CountOf(result, "SEARCH_PATHS_LIMIT")
<1>1. Matching(call) \in SUBSET ToSet(Catalog) /\ call.limit \in Nat
  BY AnswerAssumption DEF Matching
<1>2. \A code \in {"EXTERNAL_PATH_BLOCKED", "TOOL_QUERY_INVALID"} : Sealed(Refused(code)).code # None
  <2>1. ASSUME NEW code \in {"EXTERNAL_PATH_BLOCKED", "TOOL_QUERY_INVALID"}
        PROVE  Sealed(Refused(code)).code # None
    <3>1. Refused(code).code = code /\ code # None
      BY RefusedOK, NoneAssumption
    <3>2. Sealed(Refused(code)) = Refused(code)
      BY <3>1 DEF Sealed
    <3>3. QED
      BY <3>1, <3>2
  <2>2. QED
    BY <2>1
<1>3. PICK code \in {"LIST_TREE_LIMIT", "SEARCH_PATHS_LIMIT"} :
        Executed(call) = Listed(code, Among(Matching(call)), call.limit)
  <2>1. CASE call.name = "list_tree"
    <3>1. Executed(call) = Tree(call)
      BY <2>1 DEF Executed
    <3>2. Matching(call) = {f \in ToSet(Catalog) : /\ IsPrefix(call.path, f.path)
                                                   /\ Len(f.path) - Len(call.path) <= call.depth}
      BY <2>1 DEF Matching
    <3>3. \/ Tree(call) = Refused("EXTERNAL_PATH_BLOCKED")
          \/ Tree(call) = Listed("LIST_TREE_LIMIT", Among(Matching(call)), call.limit)
      BY <3>2 DEF Tree, Listed
    <3>4. QED
      BY <1>2, <3>1, <3>3
  <2>2. CASE call.name = "search_paths"
    <3>1. Executed(call) = Paths(call)
      BY <2>2 DEF Executed
    <3>2. Matching(call) = {f \in ToSet(Catalog) : PathContains(f, call.query)}
      BY <2>2 DEF Matching
    <3>3. \/ Paths(call) = Refused("TOOL_QUERY_INVALID")
          \/ Paths(call) = Listed("SEARCH_PATHS_LIMIT", Among(Matching(call)), call.limit)
      BY <3>2 DEF Paths, Listed
    <3>4. QED
      BY <1>2, <3>1, <3>3
  <2>3. QED
    BY <2>1, <2>2
<1>4. QED
  BY <1>1, <1>3, ListedIsWhole

\* Every line that matches is a hit.
LEMMA HitsAll ==
  ASSUME NEW f \in Shown, NEW query, NEW next \in Nat,
         NEW k \in DOMAIN f.lines, LineContains(f.lines[k], query)
  PROVE  \E r \in ToSet(Hits(f, f.lines, query, next)) : r.file = f.name /\ r.first = k
<1> DEFINE K == {m \in DOMAIN f.lines : LineContains(f.lines[m], query)}
           at == Ascending(K)
           n == Cardinality(K)
<1>1. f.lines \in Seq(ToSet(f.lines))
  BY ToolsAssumption DEF Shown, Files
<1>2. K \in SUBSET (1..Len(f.lines)) /\ IsFiniteSet(1..Len(f.lines)) /\ Len(f.lines) \in Nat
  <2>1. Len(f.lines) \in Nat /\ DOMAIN f.lines = 1..Len(f.lines)
    BY <1>1
  <2>2. K \in SUBSET (1..Len(f.lines))
    BY <2>1
  <2>3. QED
    BY <2>1, <2>2, FS_Interval
<1>3. k \in K
  OBVIOUS
<1>4. n \in Nat /\ at \in [1..n -> K] /\ \E i \in 1..n : at[i] = k
  <2> HIDE DEF K
  <2>1. IsFiniteSet(K)
    BY <1>2, FS_Subset
  <2>2. K \in SUBSET Nat
    BY <1>2
  <2>3. QED
    BY <1>3, <2>1, <2>2, AscendingOK, AscendingOnto
<1>5. Hits(f, f.lines, query, next)
        = [i \in DOMAIN at |-> SourceRef(next + i, f, at[i], at[i], <<f.lines[at[i]]>>)]
  BY DEF Hits
<1> HIDE DEF K, at, n
<1>6. PICK i \in DOMAIN at : at[i] = k
  BY <1>4
<1> DEFINE r == SourceRef(next + i, f, k, k, <<f.lines[k]>>)
<1>7. r.file = f.name /\ r.first = k
  BY DEF SourceRef
<1> HIDE DEF r
<1>8. r \in ToSet(Hits(f, f.lines, query, next))
  BY <1>5, <1>6 DEF ToSet, r
<1>9. QED
  BY <1>7, <1>8

\* At the start nothing is told.
LEMMA CoversStart == ASSUME NEW call PROVE Covers(SearchStart(call), call)
<1> DEFINE start == SearchStart(call)
<1>1. start.omitted = <<>> /\ (start.rest = Catalog \/ start.code # None)
  <2>1. /\ start.omitted = <<>>
        /\ \/ start.rest = Catalog
           \/ start.code = "TOOL_QUERY_INVALID" \/ start.code = "EXTERNAL_PATH_BLOCKED"
    BY DEF SearchStart
  <2>2. QED
    BY <2>1, NoneAssumption
<1> HIDE DEF start
<1>2. ToSet(start.omitted) = {}
  BY <1>1 DEF ToSet
<1>3. QED
  BY <1>1, <1>2 DEF Covers, start

\* What was told stays told.
LEMMA ToldStays ==
  ASSUME NEW f, NEW found, NEW omitted, NEW call, NEW found2, NEW omitted2,
         Told(f, found, omitted, call),
         ToSet(found) \subseteq ToSet(found2), ToSet(omitted) \subseteq ToSet(omitted2)
  PROVE  Told(f, found2, omitted2, call)
BY DEF Told

\* The next file is told of, or the search says that it ends.
LEMMA CoversStep ==
  ASSUME NEW acc \in Searches, acc.rest # <<>>, NEW call \in Asked, NEW d, NEW next \in Nat,
         Covers(acc, call)
  PROVE  Covers(SearchStep(acc, call, d, next), call)
<1> DEFINE file == Head(acc.rest)
           hits == Hits(file, Body(d, file), call.query, next + Len(acc.refs))
           all == acc.refs \o hits
           new == SearchStep(acc, call, d, next)
<1>1. /\ acc.rest \in Seq(Shown) /\ acc.refs \in Seq(References)
      /\ acc.omitted \in Seq(Omissions)
      /\ acc = [rest |-> acc.rest, refs |-> acc.refs, omitted |-> acc.omitted, code |-> acc.code]
  BY DEF Searches
<1>2. /\ file \in Shown /\ Len(acc.rest) > 0
      /\ ToSet(acc.rest) = {file} \cup ToSet(Tail(acc.rest))
  BY <1>1, TailSet
<1>3. call.limit \in Nat
  BY AnswerAssumption
<1>4. /\ \A o \in ToSet(acc.omitted) : o.count > 0
      /\ acc.code = None =>
           \/ Len(acc.refs) = call.limit
           \/ \E o \in ToSet(acc.omitted) : o.code = "OMISSION_LIMIT"
           \/ \A f \in ToSet(Catalog) :
                f \in ToSet(acc.rest) \/ Told(f, acc.refs, acc.omitted, call)
  BY DEF Covers
<1>5. \A o : ToSet(Append(acc.omitted, o)) = ToSet(acc.omitted) \cup {o}
  BY <1>1, AppendSet
<1> HIDE DEF file, hits
<1>6. CASE Len(acc.omitted) >= MaxOmissions - 1
  <2> DEFINE rest == Omission("OMISSION_LIMIT", None, Len(acc.rest))
  <2>1. new = [acc EXCEPT !.rest = <<>>, !.omitted = Append(@, rest)]
    BY <1>6 DEF SearchStep
  <2>2. new.omitted = Append(acc.omitted, rest)
    BY <1>1, <2>1
  <2>3. rest.count > 0 /\ rest.code = "OMISSION_LIMIT"
    BY <1>2 DEF Omission
  <2> HIDE DEF new, rest
  <2>4. ToSet(new.omitted) = ToSet(acc.omitted) \cup {rest}
    BY <1>5, <2>2
  <2>5. QED
    BY <1>4, <2>3, <2>4 DEF Covers, new
<1>7. CASE ~(Len(acc.omitted) >= MaxOmissions - 1) /\ (~file.text \/ ~InFilter(file, call.path))
  <2>1. new = [acc EXCEPT !.rest = Tail(@)]
    BY <1>7 DEF SearchStep, file
  <2>2. /\ new.rest = Tail(acc.rest) /\ new.refs = acc.refs /\ new.code = acc.code
        /\ new.omitted = acc.omitted
    BY <1>1, <2>1
  <2>3. Told(file, acc.refs, acc.omitted, call)
    BY <1>7 DEF Told
  <2> HIDE DEF new
  <2>4. QED
    BY <1>2, <1>4, <2>2, <2>3 DEF Covers, new
<1> DEFINE looked == ~(Len(acc.omitted) >= MaxOmissions - 1) /\ file.text /\ InFilter(file, call.path)
<1>8. CASE looked /\ (file.big \/ ~Readable(d, file))
  <2>1. PICK code : new = Left(acc, file, code)
    BY <1>8 DEF SearchStep, file
  <2> DEFINE left == Omission(code, file.name, 1)
  <2>2. /\ new.rest = Tail(acc.rest) /\ new.refs = acc.refs /\ new.code = acc.code
        /\ new.omitted = Append(acc.omitted, left)
    BY <1>1, <2>1 DEF Left
  <2>3. left.count > 0 /\ left.file = file.name
    BY DEF Omission
  <2> HIDE DEF new, left
  <2>4. ToSet(new.omitted) = ToSet(acc.omitted) \cup {left}
    BY <1>5, <2>2
  <2>5. Told(file, new.refs, new.omitted, call)
    BY <2>3, <2>4 DEF Told
  <2>6. \A f : Told(f, acc.refs, acc.omitted, call) => Told(f, new.refs, new.omitted, call)
    BY <2>2, <2>4, ToldStays
  <2>7. QED
    BY <1>2, <1>4, <2>2, <2>3, <2>4, <2>5, <2>6 DEF Covers, new
<1>9. CASE looked /\ ~file.big /\ Readable(d, file) /\ ~HashMatches(d, file)
  <2>1. new = [acc EXCEPT !.rest = <<>>, !.code = "SOURCE_LIVE_HASH_MISMATCH"]
    BY <1>9 DEF SearchStep, file
  <2>2. new.code = "SOURCE_LIVE_HASH_MISMATCH" /\ new.omitted = acc.omitted
    BY <1>1, <2>1
  <2>3. new.code # None
    BY <2>2, NoneAssumption
  <2> HIDE DEF new
  <2>4. QED
    BY <1>4, <2>2, <2>3 DEF Covers, new
<1>10. CASE looked /\ ~file.big /\ Readable(d, file) /\ HashMatches(d, file)
  <2>1. Body(d, file) = file.lines
    BY <1>10 DEF HashMatches, Body
  <2>2. hits = Hits(file, file.lines, call.query, next + Len(acc.refs)) /\ next + Len(acc.refs) \in Nat
    BY <1>1, <2>1 DEF hits
  <2>3. hits \in Seq(References)
    BY <1>2, <1>10, <2>2, HitsOK
  <2>4. all \in Seq(References) /\ ToSet(all) = ToSet(acc.refs) \cup ToSet(hits)
    BY <1>1, <2>3, ConcatSet
  <2> HIDE DEF all
  <2>5. new = [acc EXCEPT !.refs = Take(all, call.limit),
                          !.rest = IF Len(all) >= call.limit THEN <<>> ELSE Tail(@)]
    BY <1>10 DEF SearchStep, file, all, hits
  <2>6. /\ new.rest = (IF Len(all) >= call.limit THEN <<>> ELSE Tail(acc.rest))
        /\ new.refs = Take(all, call.limit) /\ new.code = acc.code /\ new.omitted = acc.omitted
    BY <1>1, <2>5
  <2> HIDE DEF new
  <2>7. CASE Len(all) >= call.limit
    <3>1. Len(new.refs) = call.limit
      BY <1>3, <2>4, <2>6, <2>7, TakeLength
    <3>2. QED
      BY <1>4, <2>6, <3>1 DEF Covers, new
  <2>8. CASE ~(Len(all) >= call.limit)
    <3>1. Len(all) \in Nat /\ Len(all) <= call.limit
      BY <1>3, <2>4, <2>8
    <3>2. new.refs = all /\ new.rest = Tail(acc.rest)
      BY <1>3, <2>4, <2>6, <2>8, <3>1, TakeLength
    <3>3. Told(file, new.refs, new.omitted, call)
      <4>1. ASSUME NEW k \in DOMAIN file.lines, LineContains(file.lines[k], call.query)
            PROVE  \E r \in ToSet(new.refs) : r.file = file.name /\ r.first = k
        <5>1. \E r \in ToSet(hits) : r.file = file.name /\ r.first = k
          BY <1>2, <2>2, <4>1, HitsAll
        <5>2. ToSet(hits) \subseteq ToSet(new.refs)
          BY <2>4, <3>2
        <5>3. QED
          BY <5>1, <5>2
      <4>2. QED
        BY <4>1 DEF Told
    <3>4. \A f : Told(f, acc.refs, acc.omitted, call) => Told(f, new.refs, new.omitted, call)
      BY <2>4, <2>6, <3>2, ToldStays
    <3>5. Len(acc.refs) # call.limit
      BY <1>1, <1>3, <2>3, <3>1, <2>8 DEF all
    <3>6. QED
      BY <1>2, <1>4, <2>6, <3>2, <3>3, <3>4, <3>5 DEF Covers, new
  <2>9. QED
    BY <2>7, <2>8
<1>11. QED
  BY <1>6, <1>7, <1>8, <1>9, <1>10

\* A search that has read all it will read is complete, or says why it is not.
LEMMA SearchIsWhole ==
  ASSUME NEW acc \in Searches, acc.rest = <<>>, NEW call, Covers(acc, call),
         Len(acc.omitted) <= MaxOmissions, Sealed(Searched(acc)).code = None
  PROVE  SearchIsComplete(call, Sealed(Searched(acc)))
<1> DEFINE a == Searched(acc)
           result == Sealed(a)
           content == FlattenSeq([k \in DOMAIN acc.refs |-> acc.refs[k].excerpt])
<1>1. acc.refs \in Seq(References) /\ acc.omitted \in Seq(Omissions)
  BY DEF Searches
<1>2. acc.code = None /\ a.refs = acc.refs /\ a.omitted = acc.omitted /\ a.content = content
  <2>1. CASE acc.code # None
    <3>1. a.code = acc.code
      BY <2>1, RefusedOK DEF Searched
    <3>2. Sealed(a) = a
      BY <2>1, <3>1 DEF Sealed
    <3>3. QED
      BY <2>1, <3>1, <3>2
  <2>2. CASE acc.code = None
    BY <2>2 DEF Searched, Found
  <2>3. QED
    BY <2>1, <2>2
<1>3. /\ result.refs = acc.refs /\ ToSet(acc.omitted) \subseteq ToSet(result.omitted)
      /\ \A o \in ToSet(result.omitted) : o \in ToSet(acc.omitted) \/ o.code = "TOOL_RESULT_BYTE_LIMIT"
  <2> HIDE DEF a
  <2>1. Sealed(a).code = None /\ a.omitted \in Seq(Omissions) /\ a.refs \in Seq(References)
        /\ Len(a.omitted) <= MaxOmissions
    BY <1>1, <1>2 DEF a
  <2>2. result.refs = a.refs
    BY <2>1, SealedForm
  <2>3. QED
    BY <1>2, <2>1, <2>2, SealedKeeps
<1>4. /\ \A o \in ToSet(acc.omitted) : o.count > 0
      /\ \/ Len(acc.refs) = call.limit
         \/ \E o \in ToSet(acc.omitted) : o.code = "OMISSION_LIMIT"
         \/ \A f \in ToSet(Catalog) : f \in ToSet(acc.rest) \/ Told(f, acc.refs, acc.omitted, call)
  BY <1>2 DEF Covers
<1> HIDE DEF result, a
<1>5. CASE Len(acc.refs) = call.limit
  BY <1>3, <1>5 DEF SearchIsComplete, result, a
<1>6. CASE \E o \in ToSet(acc.omitted) : o.code = "OMISSION_LIMIT"
  <2> DEFINE those == {o \in ToSet(result.omitted) : o.code = "OMISSION_LIMIT"}
  <2>1. those # {}
    BY <1>3, <1>6
  <2>2. \A o \in those : o.count > 0
    BY <1>3, <1>4
  <2>3. CountOf(result, "OMISSION_LIMIT") = (CHOOSE o \in those : TRUE).count
    BY <2>1 DEF CountOf
  <2>4. CountOf(result, "OMISSION_LIMIT") > 0
    BY <2>1, <2>2, <2>3
  <2>5. QED
    BY <2>4 DEF SearchIsComplete, result, a
<1>7. CASE \A f \in ToSet(Catalog) : f \in ToSet(acc.rest) \/ Told(f, acc.refs, acc.omitted, call)
  <2>1. ToSet(acc.rest) = {}
    BY DEF ToSet
  <2>2. \A f \in ToSet(Catalog) : Told(f, result.refs, result.omitted, call)
    BY <1>3, <1>7, <2>1, ToldStays
  <2>3. QED
    BY <2>2 DEF Told, SearchIsComplete, result, a
<1>8. QED
  BY <1>4, <1>5, <1>6, <1>7

\* A search under way keeps telling of every file it has passed.
LEMMA CoveringStep ==
  ASSUME IInv, Covering, [Next]_vars
  PROVE  Covering'
<1>1. CASE phase' # "search"
  BY <1>1 DEF Covering
<1>2. CASE UNCHANGED <<phase, search>>
  BY <1>2 DEF Covering
<1>3. CASE \E call \in Asked : \E native \in Natives(call) : BeginSearch(call, native)
  <2>1. PICK call \in Asked : \E native \in Natives(call) : BeginSearch(call, native)
    BY <1>3
  <2>2. PICK native : search' = [call |-> call, id |-> CallId(native), acc |-> SearchStart(call)]
    BY <2>1 DEF BeginSearch
  <2>3. search'.call = call /\ search'.acc = SearchStart(call)
    BY <2>2
  <2>4. QED
    BY <2>3, CoversStart DEF Covering
<1>4. CASE SearchFile /\ ~Stopped("failed")
  <2> DEFINE new == SearchStep(search.acc, search.call, disk, FirstId)
  <2>1. /\ phase = "search" /\ search.acc.rest # <<>>
        /\ search' = [search EXCEPT !.acc = new]
    BY <1>4 DEF SearchFile
  <2>2. /\ search.call \in Asked /\ search.acc \in Searches
        /\ search = [call |-> search.call, id |-> search.id, acc |-> search.acc]
    BY <2>1 DEF IInv, Searching
  <2>3. FirstId \in Nat
    BY AnswerAssumption DEF IInv, Typed, Traced, FirstId
  <2>4. Covers(new, search.call)
    BY <2>1, <2>2, <2>3, CoversStep DEF Covering
  <2> HIDE DEF new
  <2>5. search'.call = search.call /\ search'.acc = new
    BY <2>1, <2>2
  <2>6. QED
    BY <2>4, <2>5 DEF Covering
<1>5. CASE SearchFile /\ Stopped("failed")
  BY <1>1, <1>5 DEF Stopped, Idle
<1>6. ASSUME NEW call, NEW id, NEW result, Answered(call, id, result)
      PROVE  Covering'
  BY <1>1, <1>6 DEF Answered, Stopped, Idle
<1>7. CASE \E call \in Asked : \E native \in Natives(call) : CallTool(call, native)
  BY <1>6, <1>7 DEF CallTool
<1>8. CASE EndSearch
  BY <1>6, <1>8 DEF EndSearch
<1>9. CASE \/ \E contract \in Contracts, repository \in BOOLEAN : Begin(contract, repository)
           \/ CompleteMarkdown \/ \E bundle \in Bundles : CompleteAudit(bundle)
           \/ RoundFails \/ StopAtRound \/ Finish \/ FinishFails \/ Restart
  <2>1. phase' \in {"round", "answered", "idle"}
    BY <1>9 DEF Begin, CompleteMarkdown, CompleteAudit, RoundFails, StopAtRound, Finish,
                FinishFails, Restart, Stopped, Idle
  <2>2. QED
    BY <1>1, <2>1
<1>10. CASE \/ \E file \in Touched, state \in {"changed", "gone"} : Touch(file, state)
            \/ Notice \/ Cancel \/ UNCHANGED vars
  BY <1>2, <1>10 DEF Touch, Notice, Cancel, memory, vars
<1>11. QED
  BY <1>3, <1>4, <1>5, <1>7, <1>8, <1>9, <1>10 DEF Next

\* A refusal ends the turn; any other result is the last one.
LEMMA AnsweredLast ==
  ASSUME NEW call, NEW id, NEW result, Answered(call, id, result)
  PROVE  \/ last' = NoLast
         \/ result.code = None /\ last' = [call |-> call, result |-> result]
BY DEF Answered, Stopped, Idle

\* Every result tells.
LEMMA TellsStep ==
  ASSUME PlainNames, IInv, Covering, last # NoLast => Tells(last.call, last.result), [Next]_vars
  PROVE  (last # NoLast => Tells(last.call, last.result))'
<1>1. CASE last' = NoLast
  BY <1>1
<1>2. CASE UNCHANGED last
  <2>1. \A call, result : Tells(call, result)' <=> Tells(call, result)
    BY DEF Tells, SearchIsComplete, Matching
  <2>2. QED
    BY <1>2, <2>1
<1>3. ASSUME NEW call, NEW result, last' = [call |-> call, result |-> result], Tells(call, result)
      PROVE  (last # NoLast => Tells(last.call, last.result))'
  <2>1. last'.call = call /\ last'.result = result
    BY <1>3
  <2>2. Tells(last'.call, last'.result)
    BY <1>3, <2>1
  <2>3. QED
    BY <2>2
<1>4. ASSUME NEW call \in Asked, NEW native \in Natives(call), CallTool(call, native)
      PROVE  (last # NoLast => Tells(last.call, last.result))'
  <2> DEFINE result == IF Gate(call) # None THEN Refused(Gate(call)) ELSE Sealed(Executed(call))
  <2>1. /\ WellFormed(call) /\ (call.name # "search_text" \/ Gate(call) # None)
        /\ Answered(call, CallId(native), result)
    BY <1>4 DEF CallTool, Requested
  <2>2. CASE Gate(call) # None
    <3>1. result.code # None
      BY <2>2, RefusedOK
    <3>2. QED
      BY <1>1, <2>1, <3>1, AnsweredLast
  <2>3. CASE Gate(call) = None
    <3>1. result = Sealed(Executed(call)) /\ call.name # "search_text"
      BY <2>1, <2>3
    <3>2. result.code = None => Tells(call, result)
      BY <3>1, ListsAreWhole DEF Tells
    <3> HIDE DEF result
    <3>3. last' = NoLast \/ (result.code = None /\ last' = [call |-> call, result |-> result])
      BY <2>1, AnsweredLast
    <3>4. QED
      BY <1>1, <1>3, <3>2, <3>3
  <2>4. QED
    BY <2>2, <2>3
<1>5. CASE EndSearch
  <2> DEFINE call == search.call
             result == Sealed(Searched(search.acc))
  <2>1. /\ phase = "search" /\ search.acc.rest = <<>>
        /\ Answered(call, search.id, result)
    BY <1>5 DEF EndSearch
  <2>2. /\ search.acc \in Searches /\ Len(search.acc.omitted) <= MaxOmissions
        /\ call.name = "search_text"
    BY <2>1 DEF IInv, Searching
  <2>3. result.code = None => Tells(call, result)
    BY <2>1, <2>2, SearchIsWhole DEF Tells, Covering
  <2> HIDE DEF call, result
  <2>4. last' = NoLast \/ (result.code = None /\ last' = [call |-> call, result |-> result])
    BY <2>1, AnsweredLast
  <2>5. QED
    BY <1>1, <1>3, <2>3, <2>4
<1>6. CASE SearchFile
  BY <1>1, <1>2, <1>6 DEF SearchFile, Stopped, Idle
<1>7. CASE \/ \E contract \in Contracts, repository \in BOOLEAN : Begin(contract, repository)
           \/ RoundFails \/ StopAtRound \/ Finish \/ FinishFails \/ Restart
  <2>1. last' = NoLast
    BY <1>7 DEF Begin, RoundFails, StopAtRound, Finish, FinishFails, Restart, Stopped, Idle
  <2>2. QED
    BY <1>1, <2>1
<1>8. CASE \/ \E call \in Asked : \E native \in Natives(call) : BeginSearch(call, native)
           \/ CompleteMarkdown \/ \E bundle \in Bundles : CompleteAudit(bundle)
           \/ \E file \in Touched, state \in {"changed", "gone"} : Touch(file, state)
           \/ Notice \/ Cancel \/ UNCHANGED vars
  <2>1. UNCHANGED last
    BY <1>8 DEF BeginSearch, CompleteMarkdown, CompleteAudit, Touch, Notice, Cancel, memory, vars
  <2>2. QED
    BY <1>2, <2>1
<1>9. QED
  BY <1>4, <1>5, <1>6, <1>7, <1>8 DEF Next

-----------------------------------------------------------------------------
(* The theorems.                                                            *)

\* The result of a tool call stays within MAX_RESULT_BYTES and a search within its
\* omissions, whatever is asked and however files change (repository_tools.rs).
THEOREM ResultsStayBounded == Spec => []TypeOK
<1>1. IInv => TypeOK
  <2> SUFFICES ASSUME IInv PROVE TypeOK
    OBVIOUS
  <2>1. \A t \in Turn : /\ rows[t].status \in {"none", "pending", "completed", "failed", "cancelled"}
                        /\ rows[t].contract \in Contracts
    BY DEF IInv, Running
  <2>2. phase = "search" => Len(search.acc.omitted) <= MaxOmissions
    BY DEF IInv, Searching
  <2>3. last # NoLast =>
          LET r == last.result
          IN 1 + Len(r.content) + Len(r.refs) + Len(r.omitted) <= MaxResult
    BY DEF IInv, Answers, Fits
  <2>4. Typed
    BY DEF IInv
  <2>5. QED
    BY <2>1, <2>2, <2>3, <2>4 DEF TypeOK, Typed
<1>2. QED
  BY <1>1, Invariance, PTL

\* Every reference, in the trace of the running turn, in the database and in a search
\* that is under way, is to lines as they were scanned and redacted, for every snapshot
\* and however often files change, vanish and come back.
THEOREM EvidenceStaysOriginal == Spec => []EvidenceIsOriginal
<1>1. IInv => EvidenceIsOriginal
  <2> SUFFICES ASSUME IInv PROVE EvidenceIsOriginal
    OBVIOUS
  <2>1. \A s \in Seq(References) : \A r \in ToSet(s) : Original(r)
    <3>1. \A s \in Seq(References) : ToSet(s) \subseteq References
      BY DEF ToSet
    <3>2. QED
      BY <3>1 DEF References
  <2>2. trace.refs \in Seq(References) /\ \A t \in Turn : refs[t] \in Seq(References)
    BY DEF IInv, Traced, Stored
  <2>3. phase = "search" => search.acc.refs \in Seq(References)
    BY DEF IInv, Searching, Searches
  <2>4. QED
    BY <2>1, <2>2, <2>3 DEF EvidenceIsOriginal
<1>2. QED
  BY <1>1, Invariance, PTL

\* An audit answer exists exactly for a completed audit turn and rests on the evidence
\* that was stored with it, for every bundle a provider may make up.
THEOREM AuditStaysGrounded == Spec => []AuditIsGrounded
<1>1. IInv => AuditIsGrounded
  <2> SUFFICES ASSUME IInv, NEW t \in Turn
               PROVE  /\ (audits[t] # {}) = (rows[t].status = "completed" /\ rows[t].contract = "audit")
                      /\ \A bundle \in audits[t] : Grounded(t, bundle)
                      /\ screen[t].status = "completed" => screen[t] = Restored(t)
    BY DEF AuditIsGrounded
  <2>1. HeldAt(t)
    BY DEF IInv, Stored
  <2>2. QED
    BY <2>1 DEF HeldAt
<1>2. QED
  BY <1>1, Invariance, PTL

\* No step takes the row, a record, a reference or the audit answer away from a turn
\* that is completed, whatever ids providers give their calls (grounding_store.rs).
THEOREM EvidenceStaysKept == Spec => EvidenceIsKept
<1> DEFINE Kept == \A t \in Turn : rows[t].status = "completed" =>
                     rows'[t] = rows[t] /\ LoadTrace(t)' = LoadTrace(t) /\ audits'[t] = audits[t]
<1>1. ASSUME IInv, [Next]_vars PROVE [Kept]_vars
  <2>1. /\ rows \in [Turn -> [status : {"none", "pending", "completed", "failed", "cancelled"},
                              contract : Contracts, traced : BOOLEAN]]
        /\ phase # "idle" => now \in Turn /\ rows[now].status = "pending"
        /\ \A t \in Turn : t > now => rows[t].status = "none"
        /\ refs \in [Turn -> Seq(References)] /\ audits = [t \in Turn |-> audits[t]]
        /\ now \in 0..MaxTurns
    BY <1>1 DEF IInv, Running, Stored, Typed
  <2>2. ASSUME NEW t \in Turn, rows[t].status = "completed"
        PROVE  rows'[t] = rows[t] /\ LoadTrace(t)' = LoadTrace(t) /\ audits'[t] = audits[t]
    <3>1. CASE rows'[t] = rows[t] /\ UNCHANGED <<records, refs, audits>>
      BY <3>1 DEF LoadTrace
    <3>2. CASE Grows \/ Seeks \/ Completes \/ Rests
      BY <3>1, <3>2 DEF Grows, Answered, Seeks, Completes, Rests, database
    <3>3. CASE Begins
      <4>1. UNCHANGED <<records, refs, audits>>
        BY <3>3 DEF Begins, Begin
      <4>2. PICK contract : rows' = [rows EXCEPT ![now + 1] = [status |-> "pending",
                                       contract |-> contract, traced |-> FALSE]]
        BY <3>3 DEF Begins, Begin
      <4>3. t # now + 1
        BY <2>1, <2>2 DEF Turn
      <4>4. rows'[t] = rows[t]
        BY <2>1, <4>2, <4>3
      <4>5. QED
        BY <3>1, <4>1, <4>4
    <3>4. CASE Stops
      <4>1. t # now
        BY <2>1, <2>2, <3>4 DEF Stops
      <4>2. UNCHANGED <<records, refs, audits>> /\ rows'[t] = rows[t]
        BY <2>1, <3>4, <4>1 DEF Stops, Stopped
      <4>3. QED
        BY <3>1, <4>2
    <3>5. CASE Finish
      <4>1. t # now
        BY <2>1, <2>2, <3>5 DEF Finish
      <4>2. /\ rows'[t] = rows[t] /\ refs'[t] = refs[t] /\ audits'[t] = audits[t]
            /\ records' = Others \cup {Row(c) : c \in trace.calls}
        BY <2>1, <3>5, <4>1 DEF Finish, Store
      <4>3. {x \in records' : x.turn = t} = {x \in records : x.turn = t}
        BY <4>1, <4>2 DEF Others, Row
      <4>4. QED
        BY <4>2, <4>3 DEF LoadTrace
    <3>6. CASE Restart
      <4>1. UNCHANGED <<records, refs, audits>> /\ rows'[t] = rows[t]
        BY <2>2, <3>6 DEF Restart
      <4>2. QED
        BY <3>1, <4>1
    <3>7. QED
      BY <1>1, <3>2, <3>3, <3>4, <3>5, <3>6, StepKinds
  <2>3. QED
    BY <2>2
<1>2. IInv /\ [Next]_vars => [Kept]_vars
  BY <1>1
<1>3. QED
  BY <1>2, Invariance, PTL DEF Spec, EvidenceIsKept

\* Whatever is asked and however files change under a search, a result of list_tree,
\* search_paths and search_text says what it leaves out (NFR-017, repository_tools.rs),
\* unless a file is named as a private key block begins: redaction of the list then
\* takes the names after it away.
THEOREM ResultsTellWhatTheyOmit ==
  PlainNames => (Spec => []NothingSilentlyOmitted)
<1> SUFFICES ASSUME PlainNames PROVE Spec => []NothingSilentlyOmitted
  OBVIOUS
<1> DEFINE Telling == last # NoLast => Tells(last.call, last.result)
<1>1. Init => Covering /\ Telling
  BY DEF Init, Covering
<1>2. IInv /\ Covering /\ Telling /\ [Next]_vars => Covering' /\ Telling'
  BY PlainNames, CoveringStep, TellsStep
<1>3. Telling => NothingSilentlyOmitted
  BY DEF Tells, NothingSilentlyOmitted
<1> HIDE DEF Telling
<1>4. QED
  BY <1>1, <1>2, <1>3, Invariance, PTL DEF Spec
=============================================================================
