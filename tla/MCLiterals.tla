----------------------------- MODULE MCLiterals -----------------------------
(***************************************************************************)
(* Literals on the beginnings of numbers of every notation, words, dates   *)
(* and times, in the three places where a value may stand.                 *)
(***************************************************************************)
EXTENDS Literals

TopEnd    == {"#", " ", "\n"}
ArrayEnd  == {"#", ",", "]", " ", "\n"}
InlineEnd == {",", " ", "}"}

ValueAt(start, letters)  == [start |-> <<"k", "=">> \o start, open |-> 3,
                             num_end |-> TopEnd, letters |-> letters]
InArray(start, letters)  == [start |-> <<"k", "=", "[">> \o start, open |-> 4,
                             num_end |-> ArrayEnd, letters |-> letters]
InInline(start, letters) == [start |-> <<"k", "=", "{", "k", "=">> \o start, open |-> 6,
                             num_end |-> InlineEnd, letters |-> letters]

Zeros(count) == [i \in 1 .. count |-> "0"]
Day          == <<"2", "0", "2", "0", "-", "0", "1", "-", "0", "1">>
Midday       == <<"1", "2", ":", "0", "0", ":", "0", "0">>
Moment       == Day \o <<"T">> \o Midday

Numbers ==
    { ValueAt(<<"1">>, {"0", "_", ".", "e", "-", "\n"}),
      ValueAt(<<"1", "2">>, {"8", ":", "-", "\t", "\r", "\n"}),
      ValueAt(<<"0">>, {"0", "1", "_", ".", "e", "\n"}),
      ValueAt(<<"+">>, {"0", "1", "i", "n", "f", "a"}),
      ValueAt(<<"-">>, {"0", "1", "E", "_", "n", " "}),
      ValueAt(<<"0", "x">>, {"0", "1", "f", "x", "-", "_", "\n"}),
      ValueAt(<<"0", "o">>, {"1", "7", "8", "+", "_", "\n"}),
      ValueAt(<<"0", "b">>, {"0", "1", "2", "b", "_", "\t", "\n"}),
      ValueAt(<<"0", ".">> \o Zeros(24), {"0", "1", "_", ".", "\n"}),
      ValueAt(<<"0", "x">> \o Zeros(25), {"0", "1", "_", "\n"}),
      InArray(<<"1">>, {"0", "2", ",", "-", "]", ":"}),
      InInline(<<"1">>, {"0", ",", "}", "\n", " ", "x"}) }

WordsAt ==
    { ValueAt(<<"t">>, {"t", "r", "u", "e", " "}), ValueAt(<<"f">>, {"a", "l", "s", "e", "f"}),
      ValueAt(<<"i">>, {"i", "n", "f", "a"}),      InArray(<<"n">>, {"a", "n", "]"}) }

Dates ==
    { ValueAt(<<"2", "0", "2">>, {"0", "-", "+", "1"}),
      ValueAt(<<"2", "0", "2", "0", "-">>, {"0", "1", "-", "+", "\r"}),
      ValueAt(<<"+", "2", "0", "2", "-", "0", "1", "-", "0">>, {"0", "1", "\n"}),
      ValueAt(<<"2", "0", "2", "0", "-", "1">>, {"1", "2", "-", "3", "\n"}),
      ValueAt(<<"2", "0", "2", "0", "-", "0", "2", "-">>, {"2", "3", "9", "0", " ", "\n"}),
      ValueAt(<<"1", "9", "0", "0", "-", "0", "2", "-", "2">>, {"8", "9", "\n"}),
      ValueAt(<<"2", "0", "0", "0", "-", "0", "2", "-", "2">>, {"8", "9", "\n"}),
      ValueAt(<<"2", "0", "2", "1", "-", "0", "2", "-", "2">>, {"8", "9", "\n"}),
      ValueAt(<<"2", "3", ":", "5">>, {"9", "6", ":", "0", "\n"}),
      ValueAt(<<"2">>, {"4", "3", ":", "0"}),
      ValueAt(Midday, {".", "0", "5", " ", "\t", "\n"}),
      ValueAt(Midday \o <<".", "1">>, {"1", "2", "\n"}),
      ValueAt(Day, {" ", "T", "0", "7", ":", "#"}),
      ValueAt(Day \o <<" ", "1", "2", ":", "0">>, {"0", ":", "-", " ", "\n"}),
      ValueAt(Day \o <<" ">> \o Midday, {"Z", ".", "5", " ", "\n", "\r"}),
      ValueAt(Moment, {"z", ".", "5", "+", " ", "\n"}),
      ValueAt(Moment \o <<"-", "0">>, {"0", "7", ":", "3", "\n"}),
      ValueAt(Moment \o <<"+", "2", "3", ":">>, {"0", "3", "6", "\n"}),
      ValueAt(Moment \o <<"+", "2">>, {"4", "3", ":", "0"}),
      ValueAt(Moment \o <<".", "5", "+", "0", "7", ":", "0">>, {"0", "8", "\n"}),
      InArray(Moment, {"Z", ".", "5", ",", "]", " "}),
      InInline(Day, {"}", ",", " ", "\n", "t", "1"}) }

MCScenarios == Numbers \cup WordsAt \cup Dates
=============================================================================
