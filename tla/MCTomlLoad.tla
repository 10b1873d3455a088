----------------------------- MODULE MCTomlLoad -----------------------------
(***************************************************************************)
(* toml_load on documents that begin with headers, arrays of tables and    *)
(* inline tables, and go on with whatever may clash with them.             *)
(***************************************************************************)
EXTENDS TomlLoad, TLC

CONSTANTS k, n, kk, kn, nk, nn

MCName == <<"k">> :> k @@ <<"1">> :> n @@ <<"k", "k">> :> kk @@ <<"k", "1">> :> kn
          @@ <<"1", "k">> :> nk @@ <<"1", "1">> :> nn

From(start, letters) == [start |-> start, letters |-> letters]

Line(text) == Append(text, "\n")
Header     == <<"[", "k", "]">>
Tables     == <<"[", "[", "k", "]", "]">>
Pair       == <<"k", "=", "1">>
Dotted     == <<"k", ".", "1", "=", "1">>

MCScenarios ==
    { From(<<>>, {"k", "1", "=", ".", "\n", " "}),
      From(Line(Pair), {"k", "1", "=", "[", "]", "\n"}),
      From(Line(Dotted), {"k", "1", "=", ".", "\n"}),
      From(Line(Dotted) \o <<"[">>, {"k", "1", ".", "]", "["}),
      From(Line(Header), {"k", "1", "=", ".", "#", "\n"}),
      From(Line(Header) \o Line(Pair) \o <<"[">>, {"k", "1", ".", "]", "["}),
      From(<<"[", "k", ".", "1", "]", "\n", "[">>, {"k", "1", ".", "]", "["}),
      From(Line(Tables), {"k", "1", "=", ".", "[", "]"}),
      From(Line(Tables) \o <<"[", "k">>, {"k", "1", ".", "]", "\n"}),
      From(Line(Tables) \o Line(Pair) \o Line(Tables), {"k", "1", "=", "\n"}),
      From(Line(Tables) \o Line(Tables) \o <<"[", "[", "k">>, {"1", "]", "\n"}),
      From(Line(Tables) \o <<"[", "k", ".", "1", "]", "\n">>, {"k", "1", "=", "\n"}),
      From(<<"k", "=", "{">>, {"k", "1", "=", ".", ",", "}"}),
      From(<<"k", "=", "{", "k", "=", "1", ",">>, {"k", "1", "=", ".", ",", "}"}),
      From(<<"k", "=", "{", "k", "=", "{">>, {"k", "1", "=", "}", "\n"}),
      From(<<"k", "=", "{", "1", ".", "k", "=", "1">>, {"k", "1", "=", ".", ",", "}"}),
      From(<<"k", "=", "{", "k", "=", "1", "}", "\n">>, {"k", "1", "=", ".", "[", "]"}),
      From(<<"k", "=", "[">>, {"1", ",", "]", "\n", "#"}) }
=============================================================================
