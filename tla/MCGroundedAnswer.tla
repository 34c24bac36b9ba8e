------------------------- MODULE MCGroundedAnswer -------------------------
(* GroundedAnswer over six small files: a private key and a token among the   *)
(* lines, a file too large to search, a binary one, one the filter hides.     *)
EXTENDS GroundedAnswer

File(name, rank, path, kind, lines) ==
  [name |-> name, rank |-> rank, path |-> path, sensitive |-> kind = "sensitive",
   text |-> kind # "binary", big |-> kind = "big", lines |-> lines]

MCScanned ==
  <<File("d", 4, <<"src", "d">>, "binary", <<>>),
    File("a", 1, <<"a">>, "text", <<"fn", "token">>),
    File("e", 5, <<"src", "deep", "e">>, "text", <<"begin", "blob", "end", "fn", "use", "random", "use", "use", "use">>),
    File("s", 0, <<"env">>, "sensitive", <<"fn">>),
    File("b", 2, <<"b">>, "big", <<"fn">>),
    File("c", 3, <<"src", "c">>, "text", <<"use", "fn">>)>>

MCAsked ==
  {RepoStatus,
   ListTree(<<>>, 1, 1), ListTree(<<"src">>, 1, 500), ListTree(<<"..">>, 1, 1),
   SearchPaths("src", 2), SearchPaths("long", 1),
   SearchText("fn", <<>>, 100), SearchText("fn", <<>>, 1), SearchText("token", <<"src">>, 100),
   SearchText("use", <<"..">>, 1),
   ReadFileLines(<<"a">>, 1, 2), ReadFileLines(<<"src", "deep", "e">>, 1, 3),
   ReadFileLines(<<"src", "deep", "e">>, 1, 9),
   ReadFileLines(<<"a">>, 2, 1), ReadFileLines(<<"a">>, 3, 3), ReadFileLines(<<"env">>, 1, 1),
   FileMetadata(<<"b">>)}
=============================================================================
