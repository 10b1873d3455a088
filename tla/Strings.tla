------------------------------ MODULE Strings ------------------------------
(***************************************************************************)
(* The strings of parse_value, in the four notations of TOML, and the      *)
(* quoted keys of parse_keys.c, which are read by functions of their own:  *)
(* from the opening quote to the first character behind the string.        *)
(*                                                                         *)
(* Every action is one turn of a loop.  A scenario also tells where the    *)
(* opening quote is and which character ends the key, "" for a value.      *)
(***************************************************************************)
EXTENDS Parsing, StringSyntax, FiniteSets

CONSTANTS MaxString,        \* TOML_MAX_STRING_LENGTH
          MaxIdLength,      \* TOML_MAX_ID_LENGTH
          Behind            \* what may lie behind a full buffer, up to a '\0'

Char == Quotes \cup Blanks \cup Digits
        \cup {"\\", "n", "u", "U", "\n", "\r", "x", "k", "=", "]", "."}

ASSUME ScenarioAssumption ==
          \A s \in Scenarios : /\ s.start \in Seq(Char) /\ s.letters \subseteq Char
                               /\ s.open \in 1 .. Len(s.start) /\ s.start[s.open] \in Quotes
                               /\ s.end \in {"", "=", "]"}
ASSUME MaxStringAssumption == MaxString \in Nat \ {0}
ASSUME MaxIdAssumption     == MaxIdLength \in Nat \ {0}
ASSUME BehindAssumption    == \A behind \in Behind : behind \in Seq(1 .. 255)

VARIABLES at,               \* the loop that runs, or "returned" or "failed"
          quote, multi,     \* which of the functions reads the string
          value,            \* value, or id, up to idx, as bytes
          code,             \* the digits of parse_unicode
          hit               \* a line end followed the backslash

vars == <<tok, scenario, at, quote, multi, value, code, hit>>

is_escape(c)     == c = "\\"
is_hexdigit(c)   == c \in Digits
is_control(c)    == c \in {NUL, "\n", "\r", "x"}

\* A mistake: the test for single lines.
is_control_multi_single(c) == is_control(c)

\* In a multi-line basic string carriage returns and line ends may stand.
is_control_multi(c) == c \in {NUL, "x"}

is_control_literal(c) == c \in {NUL, "\r", "x"}

IsKey == scenario.end # ""

\* A mistake: one byte more than the buffer has room for.
Full_late == Len(value) > IF IsKey THEN MaxIdLength ELSE MaxString

\* The test at the head of the loops and behind every byte of an escape.
Full == Len(value) >= IF IsKey THEN MaxIdLength ELSE MaxString

Init == /\ scenario \in Scenarios
        /\ tok = Opened(scenario.open)
        /\ quote = tok.token /\ multi = FALSE
        /\ at = "open" /\ value = <<>> /\ code = <<>> /\ hit = FALSE

-----------------------------------------------------------------------------
Kept == UNCHANGED <<scenario, quote, code, hit>>

Goto(a, t)  == at' = a /\ tok' = t /\ UNCHANGED <<multi, value>> /\ Kept
Fail(t)     == Goto("failed", t)
Return(t)   == Goto("returned", t)
Add(t, bytes) == value' = value \o bytes /\ tok' = t /\ UNCHANGED <<at, multi>> /\ Kept

\* parse_value, and parse_key or parse_table before a quoted key: two quotes
\* are an empty value if white space or a line end follows them.
Open ==
    /\ at = "open"
    /\ \E t \in Reads(tok) :
          \/ (IsKey \/ t.token # quote) /\ Goto("string", t)
          \/ /\ ~IsKey /\ t.token = quote
             /\ \E u \in Reads(t) :
                   \/ /\ u.token = quote
                      /\ \E w \in Reads(u) : /\ at' = "string" /\ multi' = TRUE /\ tok' = w
                                             /\ UNCHANGED value /\ Kept
                   \/ u.token # quote /\ is_whitespace(u.token) /\ Return(u)
                   \/ /\ u.token # quote /\ ~is_whitespace(u.token)
                      /\ \/ \E n \in AtNewline(u) : Return(n)
                         \/ \E n \in NotNewline(u) : Fail(n)

In(a) == at = a /\ tok.has_token

\* The loops end in failure when the input does, or value is full.
NoEnd == at = "string" /\ (~tok.has_token \/ Full) /\ Fail(tok)

Turn == In("string") /\ ~Full

-----------------------------------------------------------------------------
(* The closing quote. *)

CloseLine == Turn /\ ~IsKey /\ ~multi /\ tok.token = quote /\ \E t \in Reads(tok) : Return(t)

\* A mistake: the lookahead is not given back.
GivenBack_none(t, count) == t

\* The second of the two characters read to see whether three quotes stand
\* together is given back, unless it was the end of the input.
GivenBack(t, count) == Back(t, count - 1)

\* One or two more quotes are part of the string.
CloseLines ==
    /\ Turn /\ multi /\ tok.token = quote
    /\ \E t \in Reads(tok) : \E u \in Reads(t) :
          \/ /\ u.prev = quote /\ u.token = quote
             /\ \E w \in Reads(u) :
                   \/ w.token # quote /\ Return(w)
                   \/ /\ w.token = quote
                      /\ \E y \in Reads(w) :
                            LET one == Append(value, Code(quote))
                            IN  /\ IF Len(one) >= MaxString
                                   THEN value' = one /\ tok' = y /\ at' = "failed"
                                   ELSE \/ /\ y.token # quote
                                           /\ value' = one /\ tok' = y /\ at' = "returned"
                                        \/ /\ y.token = quote
                                           /\ value' = Append(one, Code(quote))
                                           /\ tok' \in Reads(y) /\ at' = "returned"
                                /\ UNCHANGED multi /\ Kept
          \/ /\ ~(u.prev = quote /\ u.token = quote)
             /\ Add(GivenBack(u, Returned(tok) + Returned(t)), <<Code(quote)>>)

\* Behind a key, a dot or the end of the key must come.
CloseKey ==
    /\ Turn /\ IsKey /\ tok.token = quote
    /\ \E t \in Reads(tok) : Goto("closing", t)

AfterKey ==
    /\ at = "closing"
    /\ IF is_whitespace(tok.token) THEN \E t \in Reads(tok) : Goto("closing", t)
       ELSE IF tok.token \in {".", scenario.end} THEN Return(tok) ELSE Fail(tok)

-----------------------------------------------------------------------------
(* Line ends and other characters. *)

Basic == quote = "\""

\* A character that is left after the tests for line ends.
Plain(t) ==
    \/ Basic /\ is_escape(t.token) /\ \E u \in Reads(t) : Goto("escape", u)
    \/ /\ ~(Basic /\ is_escape(t.token))
       /\ IF \/ Basic /\ (IF multi THEN is_control_multi(t.token) ELSE is_control(t.token))
             \/ ~Basic /\ is_control_literal(t.token)
          THEN Fail(t)
          ELSE \E u \in Reads(t) : Add(u, <<Code(t.token)>>)

\* A line end is dropped as long as nothing has been stored.
Other ==
    /\ Turn /\ tok.token # quote
    /\ IF IsKey THEN IF is_newline(tok.token) THEN Fail(tok) ELSE Plain(tok)
       ELSE \/ \E n \in NotNewline(tok) : Plain(n)
            \/ \E n \in AtNewline(tok) :
                  CASE ~multi                  -> Fail(n)
                    [] multi /\ value = <<>>   -> \E u \in Reads(n) : Add(u, <<>>)
                    [] multi /\ value # <<>>   -> Plain(n)

-----------------------------------------------------------------------------
(* Escapes. *)

\* The caller stores the bytes and steps back before it reads on.
Stored(t, bytes) ==
    LET room == (IF IsKey THEN MaxIdLength ELSE MaxString) - Len(value)
    IN  IF Len(bytes) >= room
        THEN /\ value' = value \o SubSeq(bytes, 1, room) /\ tok' = t /\ at' = "failed"
             /\ UNCHANGED multi /\ Kept
        ELSE \E u \in Reads(Back(t, 1)) :
                /\ value' = value \o bytes /\ tok' = u /\ at' = "string"
                /\ UNCHANGED multi /\ Kept

\* parse_escape has returned 0: in a multi-line string that may mean a
\* backslash at the end of a line.
NoEscape(t) == IF multi THEN /\ at' = "fold" /\ hit' = FALSE /\ tok' = t
                             /\ UNCHANGED <<scenario, quote, multi, value, code>>
               ELSE Fail(t)

parse_escape ==
    /\ at = "escape"
    /\ CASE tok.token \in {"n", "f", "\"", "\\"} ->
               \E t \in Reads(tok) : Stored(t, <<Escaped(tok.token)>>)
         [] tok.token \in {"u", "U"} ->
               /\ at' = "unicode" /\ tok' \in Reads(tok) /\ code' = <<>>
               /\ UNCHANGED <<scenario, quote, multi, value, hit>>
         [] OTHER -> NoEscape(tok)

\* A mistake: surrogates are taken for characters.
Valid_surrogates(num) == num < TooBig

\* Unicode scalar values.
Surrogates == 55296 .. 57343
Valid(num) == num \in 0 .. TooBig - 1 /\ num \notin Surrogates

\* x | y and x & y where the bits of x and y are apart, or y is a mask.
Encoded(num) ==
    LET low(shift) == 128 + ((num \div shift) % 64)
    IN  IF num \in 0 .. 127 THEN <<num % 128>>
        ELSE IF num \in 128 .. 2047 THEN <<192 + ((num \div 64) % 32), low(1)>>
        ELSE IF num \in 2048 .. 65535 THEN <<224 + ((num \div 4096) % 16), low(64), low(1)>>
        ELSE <<240 + ((num \div 262144) % 8), low(4096), low(64), low(1)>>

parse_unicode ==
    /\ at = "unicode"
    /\ CASE ~tok.has_token \/ Len(code) > 8 -> NoEscape(tok)
         [] tok.has_token /\ Len(code) <= 8 /\ is_hexdigit(tok.token) ->
               /\ code' = Append(code, tok.token) /\ tok' \in Reads(tok)
               /\ UNCHANGED <<scenario, at, quote, multi, value, hit>>
         [] OTHER -> IF Len(code) \in {4, 8} /\ Valid(Hex(code))
                     THEN Stored(tok, Encoded(Hex(code))) ELSE NoEscape(tok)

\* A mistake: the white space is never read.
Fold_peek ==
    /\ at = "fold"
    /\ IF is_whitespace(tok.token) THEN Goto("fold", tok)
       ELSE \/ \E n \in AtNewline(tok) : /\ hit' = TRUE /\ tok' \in Reads(n)
                                         /\ UNCHANGED <<scenario, at, quote, multi, value, code>>
            \/ \E n \in NotNewline(tok) : IF hit THEN Goto("string", n) ELSE Fail(n)

\* The loop behind a backslash in a multi-line string.
Fold ==
    /\ at = "fold"
    /\ IF is_whitespace(tok.token) THEN \E t \in Reads(tok) : Goto("fold", t)
       ELSE \/ \E n \in AtNewline(tok) : /\ hit' = TRUE /\ tok' \in Reads(n)
                                         /\ UNCHANGED <<scenario, at, quote, multi, value, code>>
            \/ \E n \in NotNewline(tok) : IF hit THEN Goto("string", n) ELSE Fail(n)

Stopped == at \in {"returned", "failed"} /\ UNCHANGED vars

Next == \/ Open \/ NoEnd \/ CloseLine \/ CloseLines \/ CloseKey \/ AfterKey
        \/ Other \/ parse_escape \/ parse_unicode \/ Fold \/ Stopped

Spec     == Init /\ [][Next]_vars
FairSpec == Spec /\ WF_vars(Next)
-----------------------------------------------------------------------------
(***************************************************************************)
(* The functions and their locals keep their ranges: neither value nor     *)
(* code outgrows its buffer.                                               *)
(***************************************************************************)
TypeOK ==
    /\ tok.stream \in Seq(Char \cup {EOF}) /\ tok.cursor \in 0 .. Len(tok.stream)
    /\ at \in {"open", "string", "closing", "escape", "unicode", "fold", "returned", "failed"}
    /\ quote \in Quotes /\ multi \in BOOLEAN /\ hit \in BOOLEAN
    /\ value \in Seq(0 .. 255) /\ Len(value) <= IF IsKey THEN MaxIdLength ELSE MaxString
    /\ code \in Seq(Digits) /\ Len(code) <= 9

\* new_string, and new_key behind a key: copied up to the first '\0'.  There is
\* one behind the value if the buffer has room for it; strlen reads on behind a
\* buffer that is full.
new_string(behind) ==
    LET bytes == (IF Full THEN value \o behind ELSE value) \o <<0>>
    IN  SubSeq(bytes, 1, Min({i \in 1 .. Len(bytes) : bytes[i] = 0}) - 1)

\* The string without the blanks behind a key, and without the '\r' of a line
\* end behind an empty value.
Consumed ==
    LET text == SubSeq(tok.stream, scenario.open, tok.cursor - 1)
    IN  SubSeq(text, 1, Max({i \in 1 .. Len(text) : text[i] \notin Blanks \cup {"\r"}}))

\* The places of \u and \U in a text, and the digits behind them.
Unicodes(text) == {i \in 2 .. Len(text) : text[i] \in {"u", "U"} /\ text[i - 1] = "\\"}
DigitCount(text, i) == Max({n \in 0 .. Len(text) - i : SubSeq(text, i + 1, i + n) \in Seq(Digits)})
Need(c)             == IF c = "u" THEN 4 ELSE 8

\* What parse_basicstring takes for something else than TOML does:
\* four digits behind \U or eight behind \u,
OtherLength(text) == \E i \in Unicodes(text) : DigitCount(text, i) = 12 - Need(text[i])

\* an escape that is no character, in front of white space with a line end,
FoldedEscape(text) == \E i \in Unicodes(text) :
    LET n == i + DigitCount(text, i) + 1
    IN  n <= Len(text) /\ text[n] \in Blanks \cup {"\n", "\r"}

\* and a '\r' that ends no line.
BareReturn(text) == \E i \in 1 .. Len(text) - 1 : text[i] = "\r" /\ text[i + 1] # "\n"

\* Not one but all line ends at the start of a multi-line string are dropped.
IsMeaning(bytes, m) ==
    \E n \in 0 .. Len(m) : /\ \A i \in 1 .. n : multi /\ m[i] = 10
                           /\ bytes = Bytes(SubSeq(m, n + 1, Len(m)))

\* The second quote in front of the closing ones is stored without a test
\* (parse_values.c:39 and 130) and may take the place of the '\0'.
FilledByQuotes ==
    /\ multi /\ Full
    /\ Len(value) >= 2 /\ \A i \in {Len(value) - 1, Len(value)} : value[i] = Code(quote)

(***************************************************************************)
(* What the parser returns is what the string means, as UTF-8, and it has  *)
(* read exactly the string, in any mixture of quotes, escapes and line     *)
(* ends, but for the cases above and for an escape that means '\0'.  What  *)
(* lies behind the buffer never matters, but for the last case: there only *)
(* the bytes of the buffer itself are what the string means.               *)
(***************************************************************************)
MeansWhatIsWritten ==
    at = "returned" =>
        \/ LET c == Read(Consumed)
           IN  /\ c.phase # "error" /\ Closed(c)
               /\ \/ \A behind \in Behind : IsMeaning(new_string(behind), Meaning(c))
                  \/ FilledByQuotes /\ IsMeaning(value, Meaning(c))
        \/ 0 \in Range(value)
        \/ multi /\ Basic /\ \/ OtherLength(Consumed) \/ FoldedEscape(Consumed)
                             \/ BareReturn(Consumed)
        \/ ~multi /\ OtherLength(Consumed)

\* The text from the opening quote on, as far as it has been looked at.
Seen == SubSeq(Text, scenario.open, Len(Text))

\* A string, or what may still become one, has been rejected.
Refused == /\ at = "failed"
           /\ LET c == Read(Seen)
              IN  /\ c.phase # "error" /\ ~(IsKey /\ (c.multi \/ c.phase = "past"))
                  /\ AllRead => ~IsKey /\ (Closed(c) \/ c.phase = "past")

\* Where the parser is stricter than TOML: an empty string with something
\* other than white space or a line end behind it,
EmptyString == ~IsKey /\ ~multi /\ Len(Seen) >= 2 /\ Seen[2] = quote

\* and an escape with one more digit behind it.
DigitFollows == \E i \in Unicodes(Seen) : DigitCount(Seen, i) > Need(Seen[i])

(***************************************************************************)
(* The parser rejects no string, but for these cases and for those that    *)
(* are too long for its buffer.                                            *)
(***************************************************************************)
RefusesOnlyOthers == Refused => EmptyString \/ DigitFollows \/ Full

(***************************************************************************)
(* Every string is read to its end, whatever it holds: the lookahead for   *)
(* closing quotes and the steps back behind escapes make progress.         *)
(***************************************************************************)
StringEnds == <>(at \in {"returned", "failed"})

(***************************************************************************)
(* README.md:4: "Written to be compliant with [TOML v1.0.0]", where the    *)
(* file or an array may end behind any value.  Behind an empty string they *)
(* may not.                                                                *)
(***************************************************************************)
EmptyStringIsValue ==
    Refused /\ EmptyString => Len(Seen) > 2 /\ Seen[3] # "]"
=============================================================================
