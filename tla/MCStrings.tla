----------------------------- MODULE MCStrings -----------------------------
(***************************************************************************)
(* Strings on the beginnings of values and keys in each notation, with     *)
(* escapes of all lengths behind them.  The value stands behind "k=", the  *)
(* key at the beginning of a document or of a header.                      *)
(***************************************************************************)
EXTENDS Strings

ValueAt(start, letters)    == [start |-> <<"k", "=">> \o start, open |-> 3, end |-> "",
                               letters |-> letters]
KeyAt(start, end, letters) == [start |-> start, open |-> 1, end |-> end, letters |-> letters]

Lines(q) == <<q, q, q>>

\* A '\0' right behind the buffer, or an 'x' before it.
MCBehind == {<<>>, <<120>>}

MCScenarios ==
    { ValueAt(<<"\"">>, {"\"", "\\", "n", "k", "\n", "\r", "x", " "}),
      ValueAt(<<"'">>, {"'", "\\", "k", "\n", "\r", "x", " "}),
      ValueAt(Lines("\""), {"\"", "\\", "f", "k", "\n", "\r", " ", "x"}),
      ValueAt(Lines("\"") \o <<"k">>, {"\"", "\\", "n", "\n"}),
      ValueAt(Lines("'"), {"'", "\\", "k", "\n", "\r", "x"}),
      ValueAt(Lines("\"") \o <<"k", "n">>, {"\"", "n"}),
      ValueAt(Lines("'") \o <<"k", "k">>, {"'", "k"}),
      ValueAt(<<"\"", "\\", "u", "0">>, {"0", "4", "8", "f", "\""}),
      ValueAt(<<"\"", "\\", "u", "D">>, {"0", "8", "D", "\"", "\\"}),
      ValueAt(<<"\"", "\\", "U", "0", "0", "0">>, {"0", "4", "D", "\""}),
      ValueAt(Lines("\"") \o <<"\\", "U", "0", "0", "D", "8">>, {"8", "\n", " ", "\""}),
      KeyAt(<<"\"">>, "=", {"\"", "\\", "n", "k", " ", ".", "=", "\n"}),
      KeyAt(<<"'">>, "]", {"'", "k", " ", ".", "]", "x", "\\", "\n"}),
      KeyAt(<<"\"", "\\", "u", "0", "0">>, "]", {"4", "8", "\"", "]", "\\"}) }
=============================================================================
