------------------------------ MODULE Literals ------------------------------
(***************************************************************************)
(* The numbers, booleans, dates and times of parse_value: parse_number,    *)
(* parse_base_uint, parse_inf_nan, parse_boolean and parse_datetime, from  *)
(* the first character of the value to the first one behind it.            *)
(*                                                                         *)
(* Every action is one turn of a loop.  A scenario also tells where the    *)
(* value starts and gives num_end, the characters that end it, which       *)
(* parse_keyval, parse_array and parse_inlinetable choose differently.     *)
(***************************************************************************)
EXTENDS Parsing, LiteralSyntax, FiniteSets

CONSTANTS MaxString,        \* TOML_MAX_STRING_LENGTH
          MaxUlong,         \* ULONG_MAX
          MaxExact          \* 2^53: up to here a double holds every integer

Char == Digits \cup DOMAIN Letters \cup Blanks \cup Signs
        \cup {"_", ".", ":", "x", "o", "n", "i", "t", "r", "u", "l", "s", "T", "Z", "z",
              "\n", "\r", "#", ",", "]", "}", "k", "=", "[", "{"}

ASSUME ScenarioAssumption ==
          \A s \in Scenarios : /\ s.start \in Seq(Char) /\ s.letters \subseteq Char
                               /\ s.open \in 1 .. Len(s.start) /\ s.num_end \subseteq Char
ASSUME LimitsAssumption == /\ MaxString \in Nat \ {0}
                           /\ MaxUlong \in Nat /\ MaxExact \in Nat \ {0}

VARIABLES at,               \* the loop that runs, or "returned" or "failed"
          value,            \* value, up to idx
          spaces,           \* of parse_datetime
          base,             \* of parse_base_uint
          n,                \* struct number
          result            \* the value that parse_value returns

vars == <<tok, scenario, at, value, spaces, base, n, result>>

is_digit(c)       == c \in Digits
is_hexdigit(c)    == c \in DOMAIN Letters
is_numberstart(c) == c \in Signs \/ is_digit(c)
is_numberend(c)   == c \in scenario.num_end

\* A mistake: one byte more than the buffer has room for.
Full_late == Len(value) > MaxString

Full == Len(value) >= MaxString

new_number(num, record) == [type |-> record.type, num |-> num,
                            precision |-> record.precision, scientific |-> record.scientific]

\* struct number of a word, and at the start of any other number.
Plain(type) == [type |-> type, scientific |-> FALSE, precision |-> 0]

Nothing == [type |-> "none"]

Init == /\ scenario \in Scenarios
        /\ tok = Opened(scenario.open)
        /\ at = "value" /\ value = <<>> /\ spaces = 0 /\ base = 10 /\ result = Nothing
        /\ n = Plain("TOML_INT")

-----------------------------------------------------------------------------
Goto(a, t)  == at' = a /\ tok' = t /\ UNCHANGED <<scenario, value, spaces, base, n, result>>
Fail(t)     == Goto("failed", t)
Return(t, v) == /\ at' = "returned" /\ tok' = t /\ result' = v
                /\ UNCHANGED <<scenario, value, spaces, base, n>>

\* The tokenizers that count calls of next_token may leave behind.
After(t, count) == LET after[i \in 0 .. count] ==
                           IF i = 0 THEN {t} ELSE UNION {Reads(s) : s \in after[i - 1]}
                   IN  after[count]

\* parse_value: two digits more and a colon begin a time, four digits and a
\* '-' a date; all that was read is given back.
Start ==
    /\ at = "value" /\ is_numberstart(tok.token)
    /\ \E t \in Reads(tok) : \E u \in Reads(t) :
          LET two == Returned(tok) + Returned(t)
          IN  CASE u.has_token /\ u.token = ":" -> Goto("date", Back(u, two))
                [] u.token # ":" /\ ~(is_digit(u.prev) /\ is_digit(u.token)) ->
                      Goto("number", Back(u, two))
                [] OTHER -> \E v \in Reads(u) : \E w \in Reads(v) :
                      Goto(IF w.has_token /\ w.token = "-" THEN "date" ELSE "number",
                           Back(w, two + Returned(u) + Returned(v)))

-----------------------------------------------------------------------------
(* Words. *)

\* The last three characters that were read.
Spells(t, a, b, c) == t.prev_prev = a /\ t.prev = b /\ t.token = c

parse_boolean ==
    /\ at = "value" /\ tok.token \in {"t", "f"}
    /\ \E u \in After(tok, 3) :
          CASE tok.token = "t" ->
                  \E w \in Reads(u) : IF Spells(u, "r", "u", "e") THEN Return(w, new_number(Finite(1, 1, 0), Plain("TOML_BOOL")))
                                      ELSE Fail(w)
            [] tok.token = "f" /\ Spells(u, "a", "l", "s") ->
                  \E v \in Reads(u) : \E w \in Reads(v) :
                      IF v.token = "e" THEN Return(w, new_number(Finite(1, 0, 0), Plain("TOML_BOOL"))) ELSE Fail(w)
            [] tok.token = "f" /\ ~Spells(u, "a", "l", "s") -> \E w \in Reads(u) : Fail(w)

\* parse_inf_nan: where it leaves the tokenizer, and what it returns.  The
\* second test follows the first one, whatever that has read.
InfNan(sign) ==
    LET inf == IF tok.token # "i" THEN {[tok |-> tok, kind |-> "zero"]}
               ELSE {[tok |-> u, kind |-> IF u.prev = "n" /\ u.token = "f" THEN "inf"
                                          ELSE "zero"] : u \in After(tok, 2)}
        nan(r) == IF r.tok.token # "n" THEN {r}
                  ELSE {[tok |-> u, kind |-> IF u.prev = "a" /\ u.token = "n" THEN "nan"
                                             ELSE r.kind] : u \in After(r.tok, 2)}
    IN  UNION {{[r EXCEPT !.tok = t] : t \in Reads(r.tok)} : r \in UNION {nan(s) : s \in inf}}

parse_inf_nan ==
    /\ at = "value" /\ tok.token \in {"i", "n"}
    /\ \E r \in InfNan(1) :
          IF r.kind = "zero" THEN Fail(r.tok)
          ELSE Return(r.tok, new_number(Number(r.kind, 1), Plain("TOML_FLOAT")))

-----------------------------------------------------------------------------
(* Numbers. *)

Spaces == Blanks \cup {"\n", "\r"}

First(s, set)    == Min({k \in 1 .. Len(s) : s[k] \in set} \cup {Len(s) + 1})
Span(s, i, set)  == Min({k \in i .. Len(s) : s[k] \notin set} \cup {Len(s) + 1}) - i
WithoutSign(s)   == IF s # <<>> /\ s[1] \in Signs THEN Tail(s) ELSE s
SignAt(s)        == IF s # <<>> THEN SignOf(s[1]) ELSE 1
AreDigits(s, radix) == s # <<>> /\ Range(s) \subseteq DigitsOf(radix)

\* strtod: whether it uses up all of a text, and the number it makes of it,
\* with the digits of a fraction and the power of ten as they are.
Mantissa(s) == WithoutSign(SubSeq(s, 1, First(s, {"e", "E"}) - 1))
Exponent(s) == From(s, First(s, {"e", "E"}) + 1)
Fraction10(m) == From(m, First(m, {"."}) + 1)
Figures10(m)  == SubSeq(m, 1, First(m, {"."}) - 1) \o Fraction10(m)
Strtod(s) ==
    LET m  == Mantissa(s)
        e  == Exponent(s)
        ok == /\ AreDigits(Figures10(m), 10)
              /\ First(s, {"e", "E"}) <= Len(s) => AreDigits(WithoutSign(e), 10)
    IN  IF ~ok THEN [ok |-> FALSE, value |-> Finite(1, 0, 0)]
        ELSE [ok    |-> TRUE,
              value |-> Finite(SignAt(s), Natural(Figures10(m), 10),
                               SignAt(e) * Natural(WithoutSign(e), 10) - Len(Fraction10(m)))]

\* The nearest multiple of unit, the even one of two.
Nearest(m, unit) ==
    LET q == m \div unit
        r == 2 * (m % unit)
    IN  unit * IF r > unit \/ (r = unit /\ q % 2 = 1) THEN q + 1 ELSE q

\* A natural number as a double: above MaxExact the nearest one there is.
Double(m) == Nearest(m, 2 ^ Min({k \in 0 .. 24 : m < MaxExact * 2 ^ k}))

Rounded(num) == IF n.type = "TOML_INT" THEN [num EXCEPT ![3] = Double(@)] ELSE num

LeadingZero == value[1] = "0" \/ (value[1] \in Signs /\ value[2] = "0")

\* precision counts the point too while the number is read.  A mistake: the
\* point is taken off twice.
Places_twice(record) == IF record.precision > 0 THEN [record EXCEPT !.precision = @ - 2] ELSE record

Places(record) == IF record.precision > 0 THEN [record EXCEPT !.precision = @ - 1] ELSE record

\* At the end of a number, and behind the loop.
Convert(t) ==
    \E d \in {Strtod(value)} :
        IF d.ok /\ ~(n.type = "TOML_INT" /\ d.value[3] # 0 /\ LeadingZero)
        THEN Return(t, new_number(Rounded(d.value), Places(n))) ELSE Fail(t)

In(a) == at = a /\ tok.has_token

\* Behind the loop the length is not tested: when the input ends as value gets
\* full there is no '\0' behind it, strtod reads on, and what lies there decides
\* whether it stops where value ends.
Overread == ~tok.has_token /\ Full

NumberEnds == /\ at = "number"
              /\ \/ ~tok.has_token /\ Convert(tok)
                 \/ Overread /\ Fail(tok)
                 \/ tok.has_token /\ Full /\ Fail(tok)
                 \/ tok.has_token /\ ~Full /\ is_numberend(tok.token) /\ Convert(tok)

Turn == In("number") /\ ~Full /\ ~is_numberend(tok.token)

\* The first zero may be the prefix of another base.
FirstZero == Turn /\ value = <<>> /\ tok.token = "0"

Zero ==
    /\ FirstZero
    /\ \E t \in Reads(tok) :
          \/ /\ t.token \in {"x", "o", "b"}
             /\ at' = "base" /\ base' = Radix(t.token) /\ tok' \in Reads(t)
             /\ UNCHANGED <<scenario, value, spaces, n, result>>
          \/ /\ t.token \notin {"x", "o", "b"}
             /\ value' = <<"0">> /\ tok' = t
             /\ UNCHANGED <<scenario, at, spaces, base, n, result>>

\* A digit must stand before and behind a point or an underscore.
Between(t) == is_digit(t.token) /\ is_digit(t.prev_prev)

Join ==
    /\ Turn /\ tok.token \in {".", "_"}
    /\ LET point  == tok.token = "."
           stored == IF point THEN Append(value, ".") ELSE value
           m      == IF point THEN [n EXCEPT !.type = "TOML_FLOAT", !.precision = 1] ELSE n
           counted == IF m.precision > 0 THEN [m EXCEPT !.precision = @ + 1] ELSE m
       IN  IF Len(stored) >= MaxString
           THEN /\ at' = "failed" /\ value' = stored /\ n' = m /\ tok' = tok
                /\ UNCHANGED <<scenario, spaces, base, result>>
           ELSE \E t \in Reads(tok) :
                   IF Between(t)
                   THEN /\ value' = Append(stored, t.token) /\ n' = counted
                        /\ tok' \in Reads(t)
                        /\ UNCHANGED <<scenario, at, spaces, base, result>>
                   ELSE /\ at' = "failed" /\ value' = stored /\ n' = m /\ tok' = t
                        /\ UNCHANGED <<scenario, spaces, base, result>>

\* inf and nan, behind a sign only.
SignedWord ==
    /\ Turn /\ tok.token \in {"i", "n"}
    /\ IF Len(value) = 1 /\ tok.prev \in Signs
       THEN \E r \in InfNan(SignOf(tok.prev)) :
               IF r.kind = "zero" THEN Convert(r.tok)
               ELSE Return(r.tok, new_number(Number(r.kind, SignOf(tok.prev)), Plain("TOML_FLOAT")))
       ELSE Fail(tok)

\* A letter of a prefix ends the number where it stands.
Stray == Turn /\ tok.token \in {"x", "X", "b", "B", "o", "O"} /\ Convert(tok)

OtherCharacter ==
    /\ Turn /\ ~FirstZero
    /\ tok.token \notin {".", "_", "i", "n", "x", "X", "b", "B", "o", "O"}
    /\ value' = Append(value, tok.token) /\ tok' \in Reads(tok)
    /\ LET m == IF n.precision > 0 THEN [n EXCEPT !.precision = @ + 1] ELSE n
       IN  n' = IF tok.token \in {"e", "E"}
                THEN [m EXCEPT !.type = "TOML_FLOAT", !.scientific = TRUE] ELSE m
    /\ UNCHANGED <<scenario, at, spaces, base, result>>

-----------------------------------------------------------------------------
(* Numbers of base 16, 8 and 2. *)

\* strtoul: white space, a sign and, in base 16, one more prefix are skipped.
Strtoul(s, radix) ==
    LET text   == From(s, 1 + Span(s, 1, Spaces))
        rest   == WithoutSign(text)
        prefix == /\ radix = 16 /\ Len(rest) > 2 /\ SubSeq(rest, 1, 2) = <<"0", "x">>
                  /\ rest[3] \in DigitsOf(16)
        digits == IF prefix THEN From(rest, 3) ELSE rest
    IN  IF ~AreDigits(digits, radix) THEN [ok |-> FALSE, num |-> 0, neg |-> FALSE]
        ELSE [ok |-> TRUE, num |-> Natural(digits, radix), neg |-> SignAt(text) = -1]

\* Too big is ULONG_MAX, and a '-' negates modulo ULONG_MAX + 1.
Unsigned(r) == CASE r.num > MaxUlong -> MaxUlong
                 [] r.num <= MaxUlong -> IF r.neg /\ r.num > 0 THEN MaxUlong + 1 - r.num
                                         ELSE r.num

BaseEnds ==
    /\ at = "base"
    /\ \/ (~tok.has_token \/ Full) /\ Fail(tok)
       \/ /\ tok.has_token /\ ~Full /\ is_numberend(tok.token)
          /\ \E r \in {Strtoul(value, base)} :
                IF r.ok THEN Return(tok, new_number(Finite(1, Double(Unsigned(r)), 0), n))
                ELSE Fail(tok)

IsDigitOfBase(c) == is_digit(c) \/ (base = 16 /\ is_hexdigit(c))

\* A mistake: the loop goes on without reading behind an underscore.
parse_base_uint_stuck ==
    /\ In("base") /\ ~Full /\ ~is_numberend(tok.token)
    /\ IF tok.token # "_"
       THEN /\ value' = Append(value, tok.token) /\ tok' \in Reads(tok)
            /\ UNCHANGED <<scenario, at, spaces, base, n, result>>
       ELSE Goto("base", tok)

parse_base_uint ==
    /\ In("base") /\ ~Full /\ ~is_numberend(tok.token)
    /\ IF tok.token # "_"
       THEN /\ value' = Append(value, tok.token) /\ tok' \in Reads(tok)
            /\ UNCHANGED <<scenario, at, spaces, base, n, result>>
       ELSE \E t \in Reads(tok) :
               IF IsDigitOfBase(t.token) /\ IsDigitOfBase(t.prev_prev)
               THEN /\ value' = Append(value, t.token) /\ tok' \in Reads(t)
                    /\ UNCHANGED <<scenario, at, spaces, base, n, result>>
               ELSE Fail(t)

-----------------------------------------------------------------------------
(***************************************************************************)
(* Dates and times: the nine formats parse_datetime tries with sscanf, in  *)
(* its order.  An item is a conversion with its width or a character; frac *)
(* tells that ".%d" stands between front and back.                         *)
(***************************************************************************)
Fields      == {"year", "mon", "mday", "hour", "min", "sec", "off_h", "off_m"}
Conversions == Fields \cup {"delim", "off_s", "tz"}

DateItems == <<<<"year", 4>>, <<"-", 1>>, <<"mon", 2>>, <<"-", 1>>, <<"mday", 2>>>>
TimeItems == <<<<"hour", 2>>, <<":", 1>>, <<"min", 2>>, <<":", 1>>, <<"sec", 2>>>>
BothItems == DateItems \o <<<<"delim", 1>>>> \o TimeItems
ZoneItems == <<<<"tz", 1>>>>
OffItems  == <<<<"off_s", 1>>, <<"off_h", 2>>, <<":", 1>>, <<"off_m", 2>>>>

Format(front, frac, back, type) ==
    [front |-> front, frac |-> frac, back |-> back, type |-> type]

Formats == <<Format(BothItems, TRUE,  OffItems,  "TOML_DATETIME"),
             Format(BothItems, FALSE, OffItems,  "TOML_DATETIME"),
             Format(BothItems, TRUE,  ZoneItems, "TOML_DATETIME"),
             Format(BothItems, TRUE,  <<>>,      "TOML_DATETIMELOCAL"),
             Format(BothItems, FALSE, ZoneItems, "TOML_DATETIME"),
             Format(BothItems, FALSE, <<>>,      "TOML_DATETIMELOCAL"),
             Format(DateItems, FALSE, <<>>,      "TOML_DATELOCAL"),
             Format(TimeItems, TRUE,  <<>>,      "TOML_TIMELOCAL"),
             Format(TimeItems, FALSE, <<>>,      "TOML_TIMELOCAL")>>

Width(items) == FoldLeft(LAMBDA sum, item : sum + item[2], 0, items)

\* Where item k of the items that begin at i is read: %4c takes fewer than
\* four characters only at the end of the text.
ItemAt(items, i, k) == i + Width(SubSeq(items, 1, k - 1))
Matching(s, items, i) ==
    \A k \in 1 .. Len(items) :
        /\ ItemAt(items, i, k) <= Len(s)
        /\ items[k][1] \in Conversions \/ s[ItemAt(items, i, k)] = items[k][1]
Taken(s, items, i) ==
    [x \in {items[k][1] : k \in 1 .. Len(items)} \cap Conversions |->
        LET k == CHOOSE k \in 1 .. Len(items) : items[k][1] = x
        IN  SubSeq(s, ItemAt(items, i, k), Min({ItemAt(items, i, k + 1) - 1, Len(s)}))]

\* How many characters %d reads at i: white space, a sign and digits.
SpanInt(s, i) == LET j == i + Span(s, i, Spaces)
                     k == IF j <= Len(s) /\ s[j] \in Signs THEN j + 1 ELSE j
                     c == Span(s, k, Digits)
                 IN  IF c = 0 THEN 0 ELSE k + c - i

Point(f)       == 1 + Width(f.front)
BackAt(s, f)   == IF f.frac THEN Point(f) + 1 + SpanInt(s, Point(f) + 1) ELSE Point(f)
sscanf(s, f)   == /\ Matching(s, f.front, 1)
                  /\ f.frac => /\ Point(f) <= Len(s) /\ s[Point(f)] = "."
                               /\ SpanInt(s, Point(f) + 1) > 0
                  /\ Matching(s, f.back, BackAt(s, f))
Got(s, f)      == Taken(s, f.front, 1) @@ Taken(s, f.back, BackAt(s, f))
                  @@ ("millis" :> IF f.frac THEN SubSeq(s, Point(f) + 1, BackAt(s, f) - 1)
                                  ELSE <<>>)

\* The milliseconds as a number; their sign is ignored.
MillisOf(got) == Natural(SelectSeq(got["millis"], is_digit), 10)

\* A mistake: century years are leap years.
is_date_julian(year, month, day) ==
    CASE month = 2 -> day \in 1 .. 28 \/ (day = 29 /\ year % 4 = 0)
      [] month \in {1, 3, 5, 7, 8, 10, 12} -> day \in 1 .. 31
      [] month \in {4, 6, 9, 11} -> day \in 1 .. 30
      [] OTHER -> FALSE

is_date(year, month, day) ==
    CASE month = 2 -> \/ day \in 1 .. 28
                      \/ day = 29 /\ year % 4 = 0 /\ year % 100 # 0
                      \/ day = 29 /\ year % 4 = 0 /\ year % 100 = 0 /\ year % 400 = 0
      [] month \in {1, 3, 5, 7, 8, 10, 12} -> day \in 1 .. 31
      [] month \in {4, 6, 9, 11} -> day \in 1 .. 30
      [] OTHER -> FALSE

\* A mistake: minutes are counted from one.
is_validdatetime_one(d) ==
    /\ d.hour \in 0 .. 23 /\ d.min \in 1 .. 60 /\ d.sec \in 0 .. 59
    /\ is_date(d.year, d.month, d.day)

is_validdatetime(d) ==
    /\ d.hour \in 0 .. 23 /\ d.min \in 0 .. 59 /\ d.sec \in 0 .. 59
    /\ is_date(d.year, d.month, d.day)

\* The digits of the milliseconds without leading zeros; of zero log10 leaves
\* no length that any text has.
Length10(m)  == Cardinality({k \in 0 .. 9 : 10 ^ k <= m})
Scaled(m)    == m * CASE Length10(m) = 1 -> 100 [] Length10(m) = 2 -> 10 [] OTHER -> 1

\* The first format that all conversions succeed with decides.
FittingFormats == {k \in 1 .. Len(Formats) : sscanf(value, Formats[k])}

Field(got, x, default) == IF x \notin DOMAIN got THEN default
                          ELSE LET r == Strtoul(got[x], 10) IN IF r.neg THEN -r.num ELSE r.num

\* What a format makes of value.  Year and month are those of the date: the
\* code keeps them as tm_year + 1900 and tm_mon + 1.
Converted(f, got) ==
    [type   |-> f.type,
     year   |-> Field(got, "year", 1900),
     month  |-> Field(got, "mon", 1),
     day    |-> Field(got, "mday", 1),
     hour   |-> Field(got, "hour", 0),
     min    |-> Field(got, "min", 0),
     sec    |-> Field(got, "sec", 0),
     millis |-> Scaled(MillisOf(got)),
     offset |-> IF "off_s" \in DOMAIN got
                THEN SignOf(got["off_s"][1])
                     * (Field(got, "off_h", 0) * 60 * 60 + Field(got, "off_m", 0))
                ELSE 0]

\* The checks behind sscanf, in which the length of value is the last one.
Accepted(f, got, dt) ==
    /\ \A x \in DOMAIN got \cap Fields :
          Len(got[x]) = (IF x = "year" THEN 4 ELSE 2) /\ Strtoul(got[x], 10).ok
    /\ "delim" \in DOMAIN got => got["delim"][1] \in {"T", "t", " "}
    /\ "tz" \in DOMAIN got    => got["tz"][1] \in {"Z", "z"}
    /\ "off_s" \in DOMAIN got => /\ got["off_s"][1] \in Signs
                                 /\ Field(got, "off_h", 0) \in 0 .. 23
                                 /\ Field(got, "off_m", 0) \in 0 .. 59
    /\ is_validdatetime(dt)
    /\ f.frac => dt.millis > 0
    /\ Len(value) = Width(f.front) + Width(f.back)
                    + (IF f.frac THEN 1 + Length10(MillisOf(got)) ELSE 0)
                    + IF "delim" \in DOMAIN got /\ got["delim"] = <<" ">> THEN 0 ELSE spaces

\* One blank may be part of a date and time, or stand behind it.
DateOver == IF is_whitespace(tok.token) THEN spaces > 0 ELSE is_numberend(tok.token)

DateEnds ==
    /\ at = "date"
    /\ \/ (~tok.has_token \/ Full) /\ Fail(tok)
       \/ /\ tok.has_token /\ ~Full /\ DateOver
          /\ IF FittingFormats = {} THEN Fail(tok)
             ELSE \E f \in {Formats[Min(FittingFormats)]} : \E got \in {Got(value, f)} :
                  \E dt \in {Converted(f, got)} :
                      IF Accepted(f, got, dt) THEN Return(tok, dt) ELSE Fail(tok)

parse_datetime ==
    /\ In("date") /\ ~Full /\ ~DateOver
    /\ spaces' = IF is_whitespace(tok.token) THEN spaces + 1 ELSE spaces
    /\ value' = Append(value, tok.token) /\ tok' \in Reads(tok)
    /\ UNCHANGED <<scenario, at, base, n, result>>

-----------------------------------------------------------------------------
(***************************************************************************)
(* What a program gets of a number: toml_get_int and toml_get_bool point   *)
(* into the double, whose first bytes are the low ones; the dump prints    *)
(* it, a scientific one with six significant digits.                       *)
(***************************************************************************)

\* The low half of the double of a natural number, read as an int: the 52
\* bits behind its leading one, of which the highest 20 are in the other half.
LowWord(m) ==
    LET e    == Max({k \in 0 .. 30 : 2 ^ k <= m} \cup {0})
        bits == m % 2 ^ (e - 20)
    IN  IF e <= 20 THEN 0
        ELSE (IF 2 * bits >= 2 ^ (e - 20) THEN bits - 2 ^ (e - 20) ELSE bits) * 2 ^ (51 - e) * 2

\* NULL, which is {} here, or what the pointer leads to.
toml_get_int(v)  == IF v.type # "TOML_INT" THEN {} ELSE {LowWord(v.num[3])}
toml_get_bool(v) == IF v.type # "TOML_BOOL" THEN {} ELSE {LowWord(v.num[3]) % 256 # 0}

\* printf: %.6g and %.*f.
WithFigures(num, count) ==
    LET over == {k \in 1 .. 10 - count : num[3] >= 10 ^ (count + k - 1)}
    IN  IF over = {} THEN num ELSE [num EXCEPT ![3] = Nearest(@, 10 ^ Max(over))]
WithPlaces(num, count) ==
    IF -num[4] <= count THEN num ELSE [num EXCEPT ![3] = Nearest(@, 10 ^ (-num[4] - count))]

\* The number that toml_value_dump prints.
toml_value_dump(v) ==
    CASE v.type = "TOML_BOOL"  -> Finite(1, IF v.num[3] # 0 THEN 1 ELSE 0, 0)
      [] v.type = "TOML_INT"   -> v.num
      [] v.type = "TOML_FLOAT" ->
            CASE v.num[1] = "inf" -> v.num
              [] v.num[1] = "nan" -> Number("nan", 1)
              [] v.num[1] = "finite" /\ v.scientific -> WithFigures(v.num, 6)
              [] v.num[1] = "finite" /\ ~v.scientific /\ v.num[3] = 0 -> Finite(1, 0, 0)
              [] OTHER -> WithPlaces(v.num, v.precision)

-----------------------------------------------------------------------------
Stopped == at \in {"returned", "failed"} /\ UNCHANGED vars

Next == \/ Start \/ parse_boolean \/ parse_inf_nan
        \/ NumberEnds \/ Zero \/ Join \/ SignedWord \/ Stray \/ OtherCharacter
        \/ BaseEnds \/ parse_base_uint \/ DateEnds \/ parse_datetime \/ Stopped

Spec     == Init /\ [][Next]_vars
FairSpec == Spec /\ WF_vars(Next)
-----------------------------------------------------------------------------
(***************************************************************************)
(* The functions and their locals keep their ranges: value never outgrows  *)
(* its buffer, and what is converted leaves room for the '\0' behind it,   *)
(* but for a number that fills the buffer when the input ends.             *)
(***************************************************************************)
TypeOK ==
    /\ tok.stream \in Seq(Char \cup {EOF}) /\ tok.cursor \in 0 .. Len(tok.stream)
    /\ at \in {"value", "number", "base", "date", "returned", "failed"}
    /\ value \in Seq(Char) /\ Len(value) <= MaxString
    /\ at = "returned" => ~Full \/ Overread
    /\ spaces \in 0 .. 1 /\ base \in {2, 8, 10, 16}
    /\ n.type \in {"TOML_INT", "TOML_FLOAT"} /\ n.scientific \in BOOLEAN
    /\ n.precision \in 0 .. Len(value) + 1

\* A text without the blanks at its end.
WithoutLast(text) == SubSeq(text, 1, Max({i \in 1 .. Len(text) : text[i] \notin Blanks}))

\* The literal and, behind a date, a blank.
Consumed == WithoutLast(SubSeq(tok.stream, scenario.open, tok.cursor - 1))

IsDateResult == "year" \in DOMAIN result

\* What the parser takes for something else than TOML does, or accepts though
\* it is no TOML: zeros in front of a float or of zero,
ZerosInFront(text) ==
    LET i == IF text[1] \in Signs THEN 2 ELSE 1
    IN  /\ Len(text) > i /\ text[i] = "0" /\ text[i + 1] \in Digits \cup {"_"}
        /\ result.type = "TOML_FLOAT" \/ result.num[3] = 0

\* what strtoul skips behind the prefix of a base,
SkippedByStrtoul(text) ==
    base # 10 /\ Range(text) \cap (Signs \cup Blanks \cup {"\r"}) # {}
SecondPrefix(text) == base = 16 /\ Len(SelectSeq(text, LAMBDA c : c = "x")) = 2

\* two letters between "i" and "nan",
Ixnan(text) == \E i \in {1, 2} : /\ Len(text) = i + 4 /\ text[i] = "i"
                                 /\ From(text, i + 2) = <<"n", "a", "n">>

\* integers that a double does not hold,
TooExact(text) == LET r == ReadNumber(text)
                  IN  r.part \in {"int", "based"} /\ Natural(r.digits, r.base) > MaxExact

\* dates with a sign or white space at the start of a field,
FieldStart(text) == \E i \in 1 .. Len(text) :
    /\ text[i] \in Signs \cup Blanks \cup {"\r"}
    /\ i = 1 \/ text[i - 1] \notin Digits

\* the minutes of an offset, added to its seconds,
OffsetMinutes(text) ==
    /\ Len(WithoutFraction(text)) = 25 /\ Two(WithoutFraction(text), 24) # 0
    /\ \E m \in Meanings(text) :
          result = [m EXCEPT !.offset = SignOf(WithoutFraction(text)[20])
                                           * (60 * 60 * Two(WithoutFraction(text), 21)
                                              + Two(WithoutFraction(text), 24))]

\* and more digits than milliseconds have.
MoreThanMillis(text) == Len(Fraction(text)) > 3

\* Places behind the point; behind an exponent the dump does not use them.
SameMeaning(m) ==
    IF IsDateResult THEN result = m
    ELSE /\ result.type = m.type /\ "num" \in DOMAIN m /\ result.num = m.num
         /\ result.scientific \/ result.precision = m.precision

(***************************************************************************)
(* What the parser returns is what the literal means, number or date, and  *)
(* it has read exactly the literal, but for the cases above.  Apart from   *)
(* OffsetMinutes they are what TOML forbids or the code cannot hold.  It   *)
(* holds of a number that just fills the buffer (Overread) too, if the     *)
(* bytes behind the buffer let it pass.                                    *)
(***************************************************************************)
MeansWhatIsWritten ==
    at = "returned" =>
        LET text == Consumed
        IN  \/ \E m \in Meanings(text) : SameMeaning(m)
            \/ IF IsDateResult
               THEN FieldStart(text) \/ OffsetMinutes(text) \/ MoreThanMillis(text)
               ELSE \/ ZerosInFront(text) \/ SkippedByStrtoul(text) \/ SecondPrefix(text)
                    \/ Ixnan(text) \/ TooExact(text)

\* The same number, whatever the sign of zero or of no number is.
SameNumber(a, b) == \/ a = b
                    \/ a[1] = "nan" /\ b[1] = "nan"
                    \/ a[1] = "finite" /\ b[1] = "finite" /\ a[3] = 0 /\ b[3] = 0

(***************************************************************************)
(* The dump prints the number that has been read, with as many places as   *)
(* parse_number has counted, unless it was written with an exponent and    *)
(* more than six digits.                                                   *)
(***************************************************************************)
PrintsWhatWasRead ==
    at = "returned" /\ ~IsDateResult =>
        \/ SameNumber(toml_value_dump(result), result.num)
        \/ result.scientific /\ result.num[3] >= 10 ^ 6

\* The text from the value on, as far as it has been looked at.
Seen == SubSeq(Text, scenario.open, Len(Text))
Ends == scenario.num_end \ {" "}
IsTop == Ends = {"\n", "#"}

\* A literal, or what may still become one, has been rejected.
Refused == /\ at = "failed"
           /\ IF AllRead THEN IsTop /\ IsWhole(Seen, Ends) ELSE IsBeginning(Seen, Ends)

\* Where the parser is stricter than TOML: a short number with a ':' or a '-'
\* some characters behind it, which is taken for a time or a date,
Lookalike(text) ==
    /\ \/ Len(text) >= 3 /\ text[3] = ":"
       \/ Len(text) >= 5 /\ text[5] = "-" /\ text[2] \in Digits /\ text[3] \in Digits
    /\ ~BeginsDate(SubSeq(text, 1, Min({Len(text), 5})))

\* a tab or a '\r' behind a number, a '\r' behind a date,
StrangeEnd(text) == \E c \in {"\t", "\r"} : c \in Range(text)

\* a date or a number of another base at the end of the input,
AtEnd(text) == ~tok.has_token /\ (base # 10 \/ IsDate(WithoutLast(text)))

\* a date and time without a time zone in front of a blank,
LocalAndBlank == spaces = 1 /\ Last(value) = " " /\ Matches(WithoutFraction(SubSeq(value, 1, Len(value) - 1)), LocalForm)

\* a fraction of a second that starts with a zero, and a leap second.
ZeroFraction == /\ ":" \in Range(value)
                /\ \E i \in 1 .. Len(value) - 1 : value[i] = "." /\ value[i + 1] = "0"
LeapSecond   == \E i \in 1 .. Len(value) - 2 : SubSeq(value, i, i + 2) = <<":", "6", "0">>

\* More characters than the buffer holds, or as many with more behind them.
TooLong == Full /\ tok.has_token

(***************************************************************************)
(* The parser rejects no literal, but for these cases, for those that are  *)
(* too long for its buffer, and for a number that just fills it at the end *)
(* of the input (Overread), which it may reject or not.                    *)
(***************************************************************************)
RefusesOnlyOthers ==
    Refused => \/ TooLong \/ Overread \/ Lookalike(Seen) \/ StrangeEnd(Seen) \/ AtEnd(Seen)
               \/ LocalAndBlank \/ ZeroFraction \/ LeapSecond

(***************************************************************************)
(* Every literal is read to its end, whatever it holds.                    *)
(***************************************************************************)
LiteralEnds == <>(at \in {"returned", "failed"})

(***************************************************************************)
(* README.md:43: the typed getters return "a pointer to the value".  What  *)
(* they return points into a double, where an int or a bool is not.        *)
(***************************************************************************)
GettersPointToValue ==
    at = "returned" =>
        /\ result.type = "TOML_INT" => toml_get_int(result) = {result.num[2] * result.num[3]}
        /\ result.type = "TOML_BOOL" => toml_get_bool(result) = {result.num[3] # 0}
=============================================================================
