-------------------------- MODULE RepositoryTools --------------------------
(***************************************************************************)
(* RepositoryToolGateway (mentat-analysis): what each of the six tools     *)
(* answers to a call, given the files of the snapshot and what is on disk. *)
(*                                                                         *)
(* A file has a path, a body of lines, and what the scan said of it.  The  *)
(* disk holds a file as scanned, changed, or not readable at all.  A size  *)
(* is counted in lines, paths and references, the units of a result.       *)
(***************************************************************************)
EXTENDS Ordering, SequencesExt

CONSTANTS
  Scanned,        \* the file records of the scan, in any order; a name, a rank
                  \* and the parts of the path all stand for the path of a file
  MaxResult,      \* MAX_RESULT_BYTES, in units
  MaxReadLines,   \* MAX_READ_LINES
  MaxExcerpt,     \* 512 characters of an excerpt, in lines
  MaxOmissions,   \* 128 omissions of one result
  None

ASSUME ToolsAssumption ==
  /\ Scanned \in Seq(ToSet(Scanned))
  /\ \A f \in ToSet(Scanned) :
       /\ DOMAIN f = {"name", "rank", "path", "sensitive", "text", "big", "lines"}
       /\ f.rank \in Nat /\ f.lines \in Seq(ToSet(f.lines))
  /\ \A f, g \in ToSet(Scanned) :
       f.name = g.name \/ f.rank = g.rank \/ f.path = g.path => f = g
  /\ {MaxResult, MaxReadLines, MaxExcerpt, MaxOmissions} \subseteq Nat \ {0}

\* None stands for no code.
ASSUME NoneAssumption ==
  None \notin {"REPOSITORY_REINDEX_REQUIRED", "CANCELLED", "EXTERNAL_PATH_BLOCKED",
               "TOOL_QUERY_INVALID", "TOOL_PATH_NOT_FOUND", "READ_FILE_RANGE_INVALID",
               "READ_FILE_BINARY", "IO_ERROR", "SOURCE_LIVE_HASH_MISMATCH",
               "TOOL_RESULT_LIMIT_REACHED"}

Take(seq, n) == IF Len(seq) <= n THEN seq ELSE SubSeq(seq, 1, n)

-----------------------------------------------------------------------------
(* EgressFilter.  A private key block is one line in the output; a token or  *)
(* an assignment is hidden line by line, a random string in a second pass.   *)

Hidden == "hidden"
RedactLine(line) == IF line \in {"begin", "token"} THEN Hidden ELSE line
RedactRandom(line) == IF line = "random" THEN Hidden ELSE line

\* A block lasts until its "end", or to the last line without one.
InBlock(lines, k) ==
  /\ lines[k] # "begin"
  /\ \E j \in 1..(k - 1) : /\ lines[j] = "begin"
                          /\ \A m \in (j + 1)..(k - 1) : lines[m] # "end"

Redact(lines) ==
  LET kept == Ascending({k \in DOMAIN lines : ~InBlock(lines, k)})
  IN [i \in DOMAIN kept |-> RedactRandom(RedactLine(lines[kept[i]]))]

-----------------------------------------------------------------------------
(* The catalog and the disk.                                                *)

\* No tool knows of a file whose name says it holds secrets.
Sensitive(file) == file.sensitive
Catalog ==
  LET shown == {f \in ToSet(Scanned) : ~Sensitive(f)}
      ranks == Ascending({f.rank : f \in shown})
  IN [k \in DOMAIN ranks |-> CHOOSE f \in shown : f.rank = ranks[k]]

\* read_file_content, through open_beneath: only a regular UTF-8 file of at
\* most 10 MB whose handle lies under the root has a body.
Readable(disk, file) == disk[file.name] # "gone"
Body(disk, file) ==
  IF disk[file.name] = "changed" THEN <<"fn">> \o file.lines ELSE file.lines
HashMatches(disk, file) == disk[file.name] = "same"

SourceRef(id, file, first, last, lines) ==
  [id |-> id, file |-> file.name, first |-> first, last |-> last,
   excerpt |-> Take(Redact(lines), MaxExcerpt)]

Omission(code, file, count) == [code |-> code, file |-> file, count |-> count]

-----------------------------------------------------------------------------
(* Calls.  One record for the six tools; what a tool does not take is empty. *)

Call(name, path, query, depth, limit, first, last) ==
  [name |-> name, path |-> path, query |-> query, depth |-> depth,
   limit |-> limit, first |-> first, last |-> last]

RepoStatus == Call("repo_status", <<>>, "", 0, 0, 0, 0)
ListTree(root, depth, limit) == Call("list_tree", root, "", depth, limit, 0, 0)
SearchPaths(query, limit) == Call("search_paths", <<>>, query, 0, limit, 0, 0)
SearchText(query, filter, limit) == Call("search_text", filter, query, 0, limit, 0, 0)
ReadFileLines(path, first, last) == Call("read_file_lines", path, "", 0, 0, first, last)
FileMetadata(path) == Call("file_metadata", path, "", 0, 0, 0, 0)

\* parse_repository_tool_call: an empty path stands for a blank string, or for
\* the null that list_tree and search_text accept.
WellFormed(call) ==
  /\ call.name = "list_tree" => call.depth \in 1..4 /\ call.limit \in 1..500
  /\ call.name \in {"search_paths", "search_text"} =>
       call.query # "" /\ call.limit \in 1..100
  /\ call.name \in {"read_file_lines", "file_metadata"} => call.path # <<>>
  /\ call.name = "read_file_lines" => call.first >= 1 /\ call.last >= 1

Relative(path) == ".." \notin ToSet(path)
RangeOk(call) ==
  call.last >= call.first /\ call.last - call.first + 1 <= MaxReadLines
Records(path) == {f \in ToSet(Catalog) : f.path = path}
PathContains(file, query) == query \in ToSet(file.path)
LineContains(line, query) == line = query
InFilter(file, filter) == filter = <<>> \/ PathContains(file, filter[1])

\* The wire takes 1024 bytes of a query, the gateway 512: "long" is between.
QueryOk(query) == query \notin {"", "long"}

-----------------------------------------------------------------------------
(* Answers, before and after they are cut to size.                          *)

Found(content, refs, omitted) ==
  [code |-> None, content |-> content, refs |-> refs, omitted |-> omitted]
Refused(code) == [Found(<<>>, <<>>, <<>>) EXCEPT !.code = code]

\* Some files of the catalog, in its order.
Among(files) ==
  LET at == Ascending({k \in DOMAIN Catalog : Catalog[k] \in files})
  IN [i \in DOMAIN at |-> Catalog[at[i]]]

Names(files) == [k \in DOMAIN files |-> files[k].name]
Counted(code, files, limit) ==
  IF Len(files) > limit THEN <<Omission(code, None, Len(files) - limit)>> ELSE <<>>

\* Slip: the walk stops at the limit.
TreeStops(call) ==
  LET below == Among({f \in ToSet(Catalog) : /\ IsPrefix(call.path, f.path)
                                             /\ Len(f.path) - Len(call.path) <= call.depth})
  IN IF ~Relative(call.path) THEN Refused("EXTERNAL_PATH_BLOCKED")
     ELSE Found(Names(Take(below, call.limit)), <<>>, <<>>)

\* Deeper files are not listed and not counted.
Tree(call) ==
  LET below == Among({f \in ToSet(Catalog) : /\ IsPrefix(call.path, f.path)
                                             /\ Len(f.path) - Len(call.path) <= call.depth})
  IN IF ~Relative(call.path) THEN Refused("EXTERNAL_PATH_BLOCKED")
     ELSE Found(Names(Take(below, call.limit)), <<>>,
                Counted("LIST_TREE_LIMIT", below, call.limit))

Paths(call) ==
  LET hits == Among({f \in ToSet(Catalog) : PathContains(f, call.query)})
  IN IF ~QueryOk(call.query) THEN Refused("TOOL_QUERY_INVALID")
     ELSE Found(Names(Take(hits, call.limit)), <<>>,
                Counted("SEARCH_PATHS_LIMIT", hits, call.limit))

Lines(call, disk, id) ==
  IF ~Relative(call.path) THEN Refused("EXTERNAL_PATH_BLOCKED")
  ELSE IF ~RangeOk(call) THEN Refused("READ_FILE_RANGE_INVALID")
  ELSE IF Records(call.path) = {} THEN Refused("TOOL_PATH_NOT_FOUND")
  ELSE LET file == CHOOSE f \in Records(call.path) : TRUE
           last == IF call.last < Len(file.lines) THEN call.last ELSE Len(file.lines)
           selected == SubSeq(Body(disk, file), call.first, last)
       IN IF ~file.text THEN Refused("READ_FILE_BINARY")
          ELSE IF ~Readable(disk, file) THEN Refused("IO_ERROR")
          ELSE IF ~HashMatches(disk, file) THEN Refused("SOURCE_LIVE_HASH_MISMATCH")
          ELSE IF call.first > Len(file.lines) THEN Refused("READ_FILE_RANGE_INVALID")
          ELSE Found(selected, <<SourceRef(id, file, call.first, last, selected)>>, <<>>)

Metadata(call) ==
  IF ~Relative(call.path) THEN Refused("EXTERNAL_PATH_BLOCKED")
  ELSE IF Records(call.path) = {} THEN Refused("TOOL_PATH_NOT_FOUND")
  ELSE Found(<<"metadata">>, <<>>, <<>>)

Bound(content, omitted) ==
  IF Len(content) <= MaxResult THEN [content |-> content, omitted |-> omitted]
  ELSE [content |-> Take(content, MaxResult),
        omitted |-> Append(omitted, Omission("TOOL_RESULT_BYTE_LIMIT", None, 0))]

\* Slip: only the content is measured.
SealedByContent(answer) ==
  LET once == Bound(answer.content, answer.omitted)
      twice == Bound(Redact(once.content), once.omitted)
      refs == [k \in DOMAIN answer.refs |-> [answer.refs[k] EXCEPT !.excerpt = Redact(@)]]
  IN IF answer.code # None THEN answer
     ELSE Found(twice.content, refs, Take(twice.omitted, MaxOmissions))

\* The tail of execute.  The whole result counts, its envelope for one: a
\* content that had to be cut is refused together with its omission.
Sealed(answer) ==
  LET once == Bound(answer.content, answer.omitted)
      twice == Bound(Redact(once.content), once.omitted)
      refs == [k \in DOMAIN answer.refs |-> [answer.refs[k] EXCEPT !.excerpt = Redact(@)]]
      omitted == Take(twice.omitted, MaxOmissions)
  IN IF answer.code # None THEN answer
     ELSE IF 1 + Len(twice.content) + Len(refs) + Len(omitted) <= MaxResult
       THEN Found(twice.content, refs, omitted)
     ELSE Refused("TOOL_RESULT_LIMIT_REACHED")

-----------------------------------------------------------------------------
(* search_text reads one file after another; acc holds the files still to    *)
(* come, the references found and the omissions.                             *)

SearchStart(call) ==
  [rest |-> IF QueryOk(call.query) /\ Relative(call.path) THEN Catalog ELSE <<>>,
   refs |-> <<>>, omitted |-> <<>>,
   code |-> IF ~QueryOk(call.query) THEN "TOOL_QUERY_INVALID"
            ELSE IF ~Relative(call.path) THEN "EXTERNAL_PATH_BLOCKED"
            ELSE None]

Hits(file, body, query, next) ==
  LET at == Ascending({k \in DOMAIN body : LineContains(body[k], query)})
  IN [k \in DOMAIN at |-> SourceRef(next + k, file, at[k], at[k], <<body[at[k]]>>)]

Left(acc, file, code) ==
  [acc EXCEPT !.rest = Tail(@), !.omitted = Append(@, Omission(code, file.name, 1))]

\* Slip: what is on disk is searched, whether it was scanned or not.
SearchStepAsIs(acc, call, disk, next) ==
  LET file == Head(acc.rest)
      all == acc.refs \o Hits(file, Body(disk, file), call.query, next + Len(acc.refs))
  IN IF Len(acc.omitted) >= MaxOmissions - 1
       THEN [acc EXCEPT !.rest = <<>>,
                        !.omitted = Append(@, Omission("OMISSION_LIMIT", None, Len(acc.rest)))]
     ELSE IF ~file.text \/ ~InFilter(file, call.path)
       THEN [acc EXCEPT !.rest = Tail(@)]
     ELSE IF file.big THEN Left(acc, file, "SEARCH_FILE_TOO_LARGE")
     ELSE IF ~Readable(disk, file) THEN Left(acc, file, "SEARCH_READ_FAILED")
     ELSE [acc EXCEPT !.refs = Take(all, call.limit),
                      !.rest = IF Len(all) >= call.limit THEN <<>> ELSE Tail(@)]

\* The search ends at the limit and says nothing of the files after it.
SearchStep(acc, call, disk, next) ==
  LET file == Head(acc.rest)
      all == acc.refs \o Hits(file, Body(disk, file), call.query, next + Len(acc.refs))
  IN IF Len(acc.omitted) >= MaxOmissions - 1
       THEN [acc EXCEPT !.rest = <<>>,
                        !.omitted = Append(@, Omission("OMISSION_LIMIT", None, Len(acc.rest)))]
     ELSE IF ~file.text \/ ~InFilter(file, call.path)
       THEN [acc EXCEPT !.rest = Tail(@)]
     ELSE IF file.big THEN Left(acc, file, "SEARCH_FILE_TOO_LARGE")
     ELSE IF ~Readable(disk, file) THEN Left(acc, file, "SEARCH_READ_FAILED")
     ELSE IF ~HashMatches(disk, file)
       THEN [acc EXCEPT !.rest = <<>>, !.code = "SOURCE_LIVE_HASH_MISMATCH"]
     ELSE [acc EXCEPT !.refs = Take(all, call.limit),
                      !.rest = IF Len(all) >= call.limit THEN <<>> ELSE Tail(@)]

Searched(acc) ==
  IF acc.code # None THEN Refused(acc.code)
  ELSE Found(FlattenSeq([k \in DOMAIN acc.refs |-> acc.refs[k].excerpt]),
             acc.refs, acc.omitted)
=============================================================================
