------------------------------ MODULE Document ------------------------------
(***************************************************************************)
(* toml_load and the recursive functions of parse_keys.c and               *)
(* parse_values.c that read the structure of a document: comments, white   *)
(* space, line ends, bare keys, headers, arrays, inline tables, and        *)
(* numbers as far as other values go.  Strings, booleans, dates and the    *)
(* notations of numbers have no letter in Char.  What the keys do to the   *)
(* tree of keys is left to KeyTree.                                        *)
(*                                                                         *)
(* The stack holds the functions that are active, the innermost first, and *)
(* those that their caller is going to call next below them.  They all     *)
(* give up when one they have called gives up, so a failure ends the run.  *)
(* Every action is one turn of the loop of the innermost function.         *)
(***************************************************************************)
EXTENDS Parsing, TomlSyntax, FiniteSets

Char == Bare \cup Blank \cup {"=", ".", "[", "]", "{", "}", ",", "#", "\n", "\r", "x"}

CONSTANTS MaxIdLength,      \* TOML_MAX_ID_LENGTH
          MaxArray          \* TOML_MAX_ARRAY_LENGTH

ASSUME ScenarioAssumption ==
          \A s \in Scenarios : s.start \in Seq(Char) /\ s.letters \subseteq Char
ASSUME MaxIdAssumption    == MaxIdLength \in Nat \ {0}
ASSUME MaxArrayAssumption == MaxArray \in Nat \ {0}

VARIABLES stack,
          result            \* "running", "ok" or "failed"

vars == <<tok, stack, result, scenario>>

\* parse_key; parse_table and parse_arraytable; parse_barekey; parse_value,
\* and looking ahead in it; parse_number; parse_array; parse_inlinetable; the
\* others have no locals.
Key(expecting)           == [fn |-> "key", expecting |-> expecting]
Table(expecting, double) == [fn |-> "table", expecting |-> expecting, double |-> double]
BareKey(end)             == [fn |-> "barekey", end |-> end, idx |-> 0, done |-> FALSE]
Value(num_end)           == [fn |-> "value", num_end |-> num_end]
Lookahead(num_end, from) == [fn |-> "lookahead", num_end |-> num_end, from |-> from, count |-> 0]
Number(num_end)          == [fn |-> "number", num_end |-> num_end, as |-> "int"]
Array(sep, len)          == [fn |-> "array", sep |-> sep, len |-> len]
Inline(sep, first)       == [fn |-> "inline", sep |-> sep, first |-> first]
Whitespace               == [fn |-> "whitespace"]
Comment                  == [fn |-> "comment"]

is_digit(c)      == c = "1"
is_control(c)    == c \in {NUL, "\n", "\r", "x"}
is_bare_ascii(c) == c \in Bare

Init == /\ scenario \in Scenarios
        /\ stack = <<>>
        /\ tok \in Reads(Opened(0))
        /\ result = "running"

-----------------------------------------------------------------------------
f     == Head(stack)
Below == Tail(stack)
In(fn) == result = "running" /\ stack # <<>> /\ f.fn = fn

Fail(t)  == result' = "failed" /\ tok' = t /\ UNCHANGED <<stack, scenario>>
Go(t, s) == tok' = t /\ stack' = s /\ UNCHANGED <<result, scenario>>

\* The innermost function reads on, with f as its locals; or it returns.
Next1(s)  == \E t \in Reads(tok) : Go(t, s)
Return(t) == Go(t, Below)

\* The loops test has_token first; most functions fail without it.
Ended(fn) == In(fn) /\ ~tok.has_token
Loop(fn)  == In(fn) /\ tok.has_token

\* A mistake: the white space is looked at and never read.
WhitespaceStep_peek ==
    /\ In("whitespace")
    /\ IF tok.has_token /\ is_whitespace(tok.token) THEN Go(tok, stack) ELSE Return(tok)

WhitespaceStep ==
    /\ In("whitespace")
    /\ IF tok.has_token /\ is_whitespace(tok.token) THEN Next1(stack) ELSE Return(tok)

\* In a comment one letter stands for all that do not end it.
CommentLetters == scenario.letters \cap {"k", "x", "\n", "\r"}

\* The '\0' at the end of the input is a control character, so that the loop
\* never ends for want of a token.
CommentStep ==
    /\ Loop("comment")
    /\ \E r \in ReadsFrom(tok, CommentLetters) :
          \/ \E n \in AtNewline(r) : \E t \in Reads(n) : Return(t)
          \/ \E n \in NotNewline(r) : IF is_control(n.token) THEN Fail(n) ELSE Go(n, stack)

-----------------------------------------------------------------------------
(* Keys and headers. *)

\* A mistake: one character more than id has room for.
IdFull_late(n) == n > MaxIdLength

IdFull(n) == n >= MaxIdLength

BareKeyStep ==
    \/ Ended("barekey") /\ Fail(tok)
    \/ /\ Loop("barekey")
       /\ LET c == tok.token
          IN  CASE IdFull(f.idx) -> Fail(tok)
                [] ~IdFull(f.idx) /\ c \in {".", f.end} ->
                      IF f.idx = 0 THEN Fail(tok) ELSE Return(tok)
                [] ~IdFull(f.idx) /\ is_whitespace(c) ->
                      Go(tok, <<Whitespace, [f EXCEPT !.done = TRUE]>> \o Below)
                [] ~IdFull(f.idx) /\ is_bare_ascii(c) /\ ~f.done ->
                      Next1(<<[f EXCEPT !.idx = @ + 1]>> \o Below)
                [] OTHER -> Fail(tok)

\* The part that parse_key, parse_table and parse_arraytable have in common.
Segment(end) ==
    /\ tok.token # end
    /\ CASE tok.token = "." -> IF f.expecting THEN Fail(tok)
                               ELSE Next1(<<[f EXCEPT !.expecting = TRUE]>> \o Below)
         [] is_whitespace(tok.token) -> Go(tok, <<Whitespace>> \o stack)
         [] OTHER -> Go(tok, <<BareKey(end), [f EXCEPT !.expecting = FALSE]>> \o Below)

KeyStep ==
    \/ Ended("key") /\ Fail(tok)
    \/ /\ Loop("key")
       /\ \/ Segment("=")
          \/ tok.token = "=" /\ IF f.expecting THEN Fail(tok) ELSE Next1(Below)

TableStep ==
    \/ Ended("table") /\ Fail(tok)
    \/ /\ Loop("table")
       /\ \/ Segment("]")
          \/ tok.token = "]" /\ f.expecting /\ Fail(tok)
          \/ tok.token = "]" /\ ~f.expecting /\ ~f.double /\ Next1(Below)
          \/ /\ tok.token = "]" /\ ~f.expecting /\ f.double
             /\ \E t \in Reads(tok) : IF t.token # "]" THEN Fail(t)
                                      ELSE \E u \in Reads(t) : Return(u)

-----------------------------------------------------------------------------
(* Values. *)

TopEnd    == {"#", " ", "\n"}
ArrayEnd  == {"#", ",", "]", " ", "\n"}
InlineEnd == {",", " ", "}"}

\* Two characters are read to see whether a time comes, and two more after
\* two digits to see whether a date does, and given back.
EnoughSeen == \/ f.count = 4
              \/ f.count = 2 /\ ~(is_digit(tok.prev) /\ is_digit(tok.token))

LookaheadStep ==
    /\ In("lookahead")
    /\ IF EnoughSeen THEN Go(Back(tok, tok.cursor - f.from), <<Number(f.num_end)>> \o Below)
       ELSE Next1(<<[f EXCEPT !.count = @ + 1]>> \o Below)

ValueStep ==
    \/ Ended("value") /\ Fail(tok)
    \/ /\ Loop("value")
       /\ \/ \E n \in AtNewline(tok) : Fail(n)
          \/ \E n \in NotNewline(tok) :
                CASE is_whitespace(n.token) -> Go(n, <<Whitespace>> \o stack)
                  [] is_digit(n.token) ->
                        Go(n, <<Lookahead(f.num_end, n.cursor)>> \o Below)
                  [] n.token = "[" ->
                        \E t \in Reads(n) : Go(t, <<Array(TRUE, 0)>> \o Below)
                  [] n.token = "{" ->
                        \E t \in Reads(n) : Go(t, <<Inline(TRUE, TRUE)>> \o Below)
                  [] OTHER -> Fail(n)

\* Any other character is kept for strtod to stumble over.
NumberStep ==
    \/ /\ In("number")
       /\ ~tok.has_token \/ tok.token \in f.num_end
       /\ IF f.as = "garbage" THEN Fail(tok) ELSE Return(tok)
    \/ /\ Loop("number")
       /\ tok.token \notin f.num_end
       /\ IF tok.token = "."
          THEN \E t \in Reads(tok) :
                  IF is_digit(t.token) /\ is_digit(t.prev_prev)
                  THEN \E u \in Reads(t) :
                          Go(u, <<[f EXCEPT !.as = IF @ = "int" THEN "frac" ELSE "garbage"]>>
                                  \o Below)
                  ELSE Fail(t)
          ELSE Next1(<<[f EXCEPT !.as = IF is_digit(tok.token) THEN @ ELSE "garbage"]>>
                       \o Below)

ArrayStep ==
    \/ Ended("array") /\ Fail(tok)
    \/ Loop("array") /\ f.len >= MaxArray /\ Fail(tok)
    \/ /\ Loop("array") /\ f.len < MaxArray
       /\ \/ tok.token = "]" /\ Next1(Below)
          \/ /\ tok.token = ","
             /\ IF f.sep THEN Fail(tok) ELSE Next1(<<[f EXCEPT !.sep = TRUE]>> \o Below)
          \/ /\ tok.token \notin {"]", ","}
             /\ \/ \E n \in AtNewline(tok) : \E t \in Reads(n) : Go(t, stack)
                \/ \E n \in NotNewline(tok) :
                      CASE is_whitespace(n.token) -> Go(n, <<Whitespace>> \o stack)
                        [] n.token = "#"          -> Go(n, <<Comment>> \o stack)
                        [] OTHER -> IF ~f.sep THEN Fail(n)
                                    ELSE Go(n, <<Value(ArrayEnd), Array(FALSE, f.len + 1)>>
                                               \o Below)

InlineStep ==
    \/ Ended("inline") /\ Fail(tok)
    \/ /\ Loop("inline")
       /\ \/ tok.token = "}" /\ IF f.sep /\ ~f.first THEN Fail(tok) ELSE Next1(Below)
          \/ /\ tok.token = ","
             /\ IF f.sep THEN Fail(tok) ELSE Next1(<<[f EXCEPT !.sep = TRUE]>> \o Below)
          \/ /\ tok.token \notin {"}", ","}
             /\ \/ \E n \in AtNewline(tok) : Fail(n)
                \/ \E n \in NotNewline(tok) :
                      CASE is_whitespace(n.token) -> Go(n, <<Whitespace>> \o stack)
                        [] OTHER -> IF ~f.sep THEN Fail(n)
                                    ELSE Go(n, <<Key(TRUE), Value(InlineEnd), Whitespace,
                                                 Inline(FALSE, FALSE)>> \o Below)

-----------------------------------------------------------------------------
(* toml_load and parse_keyval. *)

\* A mistake: anything may come before a key.
KeyMayStart_anywhere(t) == TRUE

\* A mistake: white space may not.
KeyMayStart_strict(t) == t.prev = NUL \/ is_newline(t.prev)

KeyMayStart(t) == \/ t.prev = NUL \/ is_newline(t.prev)
                  \/ is_whitespace(t.prev) /\ t.newline

Load == result = "running" /\ stack = <<>>

Finish == Load /\ ~tok.has_token /\ result' = "ok" /\ UNCHANGED <<tok, stack, scenario>>

Statement ==
    /\ Load /\ tok.has_token
    /\ CASE tok.token = "#"          -> Go(tok, <<Comment>>)
         [] is_whitespace(tok.token) -> Go(tok, <<Whitespace>>)
         [] OTHER ->
               \/ \E n \in AtNewline(tok) : \E t \in Reads(n) : Go(t, <<>>)
               \/ \E n \in NotNewline(tok) :
                     CASE n.token = "[" ->
                            \E t \in Reads(n) :
                               IF t.token # "[" THEN Go(t, <<Table(TRUE, FALSE)>>)
                               ELSE \E u \in Reads(t) : Go(u, <<Table(TRUE, TRUE)>>)
                       [] n.token # "[" /\ KeyMayStart(n) ->
                            Go(n, <<Key(TRUE), Value(TopEnd), Whitespace>>)
                       [] OTHER -> Fail(n)

Stopped == result # "running" /\ UNCHANGED vars

Next == \/ Statement \/ Finish \/ KeyStep \/ TableStep \/ BareKeyStep
        \/ ValueStep \/ LookaheadStep \/ NumberStep
        \/ ArrayStep \/ InlineStep
        \/ WhitespaceStep \/ CommentStep \/ Stopped

Spec     == Init /\ [][Next]_vars
FairSpec == Spec /\ WF_vars(Next)
-----------------------------------------------------------------------------
NumEnds == {TopEnd, ArrayEnd, InlineEnd}

Frames == [fn : {"key"}, expecting : BOOLEAN]
          \cup [fn : {"table"}, expecting : BOOLEAN, double : BOOLEAN]
          \cup [fn : {"barekey"}, end : {"=", "]"}, idx : 0 .. MaxIdLength, done : BOOLEAN]
          \cup [fn : {"value"}, num_end : NumEnds]
          \cup [fn : {"lookahead"}, num_end : NumEnds, from : 1 .. tok.cursor, count : 0 .. 4]
          \cup [fn : {"number"}, num_end : NumEnds, as : {"int", "frac", "garbage"}]
          \cup [fn : {"array"}, sep : BOOLEAN, len : 0 .. MaxArray]
          \cup [fn : {"inline"}, sep : BOOLEAN, first : BOOLEAN]
          \cup {Whitespace, Comment}

(***************************************************************************)
(* The functions and their locals keep their ranges: an identifier never   *)
(* outgrows id, nor an array arr, and a lookahead is given back to a place *)
(* that has been read.                                                     *)
(***************************************************************************)
TypeOK == /\ tok.stream \in Seq(Char \cup {EOF})
          /\ tok.cursor \in 0 .. Len(tok.stream)
          /\ result \in {"running", "ok", "failed"}
          /\ stack \in Seq(Frames)

\* A '\r' that stands alone among the first two characters is swallowed:
\* backtrack refuses to go back that close to the start.
LostReturn == \E i \in {1, 2} : /\ i <= Len(Text) /\ Text[i] = "\r"
                                /\ i + 1 <= Len(Text) => Text[i + 1] # "\n"

(***************************************************************************)
(* What toml_load accepts is a document, in which headers need no line of  *)
(* their own: no separator, line end or bracket goes missing in any        *)
(* nesting of arrays, inline tables and comments, and every key starts a   *)
(* line.                                                                   *)
(***************************************************************************)
AcceptsOnlyDocuments ==
    result = "ok" => /\ AllRead /\ ~tok.has_token
                     /\ Complete(Run(Text, TRUE)) \/ LostReturn

\* Where toml_load is stricter than TOML, although what has been read could
\* still become a document:
\* the input ends with a comment,
EndsInComment == AllRead /\ Run(Text, FALSE).phase = "comment"

\* white space comes before a key in the first line,
FirstLineIndented == /\ Text # <<>> /\ Text[1] \in Blank
                     /\ \E i \in 2 .. Len(Text) : /\ Text[i] \in Bare
                                                  /\ \A j \in 1 .. i - 1 : Text[j] \in Blank

\* a number is followed by a tab or by a line end of two characters,
NumberThen(chars) == \E i \in 2 .. Len(Text) :
                        /\ Text[i] \in chars
                        /\ Run(SubSeq(Text, 1, i - 1), FALSE).phase \in {"int", "frac"}

\* or something is too long for its buffer.
TooLong == stack # <<>> /\ \/ f.fn = "barekey" /\ f.idx = MaxIdLength
                           \/ f.fn = "array" /\ f.len = MaxArray

MayBecomeDocument == LET c == Run(Text, FALSE)
                     IN  c.phase # "error" /\ (AllRead => Complete(c))

(***************************************************************************)
(* toml_load rejects no beginning of a document, but for these cases.      *)
(***************************************************************************)
RejectsOnlyOthers ==
    result = "failed" /\ MayBecomeDocument
        => \/ EndsInComment \/ FirstLineIndented \/ TooLong
           \/ NumberThen({"\t", "\r"})

(***************************************************************************)
(* Nothing is read again but what has been looked ahead at, and that is    *)
(* read again from exactly where the value starts.                         *)
(***************************************************************************)
NeverRereads ==
    [][IF In("lookahead") /\ EnoughSeen THEN tok'.cursor = f.from
       ELSE tok'.cursor >= tok.cursor]_vars

(***************************************************************************)
(* toml_load returns, whatever the input: none of the loops of the parser  *)
(* turns without reading.                                                  *)
(***************************************************************************)
Returns == <>(result # "running")
=============================================================================
