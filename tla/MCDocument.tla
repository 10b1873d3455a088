----------------------------- MODULE MCDocument -----------------------------
(***************************************************************************)
(* Document on inputs that start in different places of a document and go  *)
(* on with up to MaxLen letters, as far as toml_load reads them before it  *)
(* gives up: lines and what separates them, headers, dotted keys, arrays   *)
(* and inline tables, in each other and with all that may follow.          *)
(***************************************************************************)
EXTENDS Document

From(start, letters) == [start |-> start, letters |-> letters]

MCScenarios ==
    { From(<<>>, {"k", "=", "1", " ", "#", "\n", "\r", "["}),
      From(<<>>, {"k", "=", "1", ".", "[", "]", "\t", "x"}),
      From(<<"[">>, {"k", "1", ".", " ", "[", "]", "\n"}),
      From(<<"k", "=", "1">>, {"k", "=", "1", ".", " ", "#", "\n", "["}),
      From(<<"k", "=", "[">>, {"1", " ", ",", "[", "]", "#", "\n", "{"}),
      From(<<"k", "=", "[", "[", "1", "]">>, {"1", " ", ",", "[", "]", "#", "\n", "\r"}),
      From(<<"k", "=", "{">>, {"k", "=", "1", ".", ",", "}", "[", "\n"}),
      From(<<"k", "=", "{", "k", "=", "1">>, {"k", "=", "1", " ", ",", "}", "{", "\r"}),
      From(<<"k", "=", "[", "{", "k", "=", "1", "}">>,
           {"k", "=", "1", ",", "{", "}", "]", "\n"}) }
=============================================================================
