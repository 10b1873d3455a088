--------------------------- MODULE LiteralSyntax ---------------------------
(***************************************************************************)
(* The numbers, booleans, dates and times of TOML: what may be written,    *)
(* what may still become such a literal, and what it means.                *)
(***************************************************************************)
EXTENDS Integers, Sequences, SequencesExt

Blanks  == {" ", "\t"}
Signs   == {"+", "-"}
Figures == <<"0", "1", "2", "3", "4", "5", "6", "7", "8", "9">>
Digits  == Range(Figures)
Letters == [a |-> 10, b |-> 11, c |-> 12, d |-> 13, e |-> 14, f |-> 15,
            A |-> 10, B |-> 11, C |-> 12, D |-> 13, E |-> 14, F |-> 15]

DigitValue(c)      == IF c \in Digits THEN (CHOOSE i \in 1 .. 10 : Figures[i] = c) - 1
                      ELSE Letters[c]
DigitsOf(base)     == {c \in Digits \cup DOMAIN Letters : DigitValue(c) < base}
Natural(ds, base)  == LET natural[i \in 0 .. Len(ds)] ==
                              IF i = 0 THEN 0 ELSE base * natural[i - 1] + DigitValue(ds[i])
                      IN  natural[Len(ds)]
SignOf(c)          == IF c = "-" THEN -1 ELSE 1

\* sign * m * 10^e, an infinity or not a number.
Finite(sign, m, e) == <<"finite", sign, m, e>>
Number(kind, sign) == <<kind, sign, 0, 0>>

\* What a literal means; precision counts the digits behind the point.
NumberMeaning(type, num, precision) == [type |-> type, num |-> num, precision |-> precision]

From(s, i) == SubSeq(s, i, Len(s))

-----------------------------------------------------------------------------
(***************************************************************************)
(* Numbers, as an automaton: part is what is being read, digits and places *)
(* are the digits of the number and how many of them stand behind the      *)
(* point, power is the exponent, last is the character before.             *)
(***************************************************************************)
Opening == [part |-> "start", sign |-> "+", digits |-> <<>>, places |-> 0, base |-> 10,
            power |-> <<>>, powersign |-> "+", last |-> ""]

Radix(c) == CASE c = "x" -> 16 [] c = "o" -> 8 [] c = "b" -> 2

\* A zero that no digit may follow.
OnlyZero(r)  == r.part = "int" /\ r.digits = <<"0">>
AfterDigit(r) == r.last \in DigitsOf(r.base)

Step(r, c) ==
    LET to(part) == [r EXCEPT !.part = part, !.last = c]
    IN  CASE r.part = "start" /\ c \in Signs -> [to("signed") EXCEPT !.sign = c]
          [] r.part \in {"start", "signed"} /\ c \in Digits ->
                [to("int") EXCEPT !.digits = <<c>>]
          [] r.part \in {"int", "based"} /\ c \in DigitsOf(r.base) /\ ~OnlyZero(r) ->
                [to(r.part) EXCEPT !.digits = Append(@, c)]
          [] r.part = "frac" /\ c \in Digits ->
                [to("frac") EXCEPT !.digits = Append(@, c), !.places = @ + 1]
          [] r.part = "exp" /\ c \in Digits -> [to("exp") EXCEPT !.power = Append(@, c)]
          [] r.part = "exp" /\ c \in Signs /\ r.last \in {"e", "E"} ->
                [to("exp") EXCEPT !.powersign = c]
          [] c = "_" /\ AfterDigit(r) /\ (r.part = "exp" \/ ~OnlyZero(r)) -> to(r.part)
          [] c = "." /\ r.part = "int" /\ AfterDigit(r) -> to("frac")
          [] c \in {"e", "E"} /\ r.part \in {"int", "frac"} /\ AfterDigit(r) -> to("exp")
          [] c \in {"x", "o", "b"} /\ OnlyZero(r) /\ r.sign = "+" /\ r.last = "0" ->
                [to("based") EXCEPT !.base = Radix(c), !.digits = <<>>]
          [] OTHER -> to("error")

ReadNumber(text) == LET read[i \in 0 .. Len(text)] ==
                            IF i = 0 THEN Opening ELSE Step(read[i - 1], text[i])
                    IN  read[Len(text)]

IsNumber(r) == r.part \in {"int", "frac", "exp", "based"} /\ AfterDigit(r)

MeaningOfNumber(r) ==
    NumberMeaning(IF r.part \in {"int", "based"} THEN "TOML_INT" ELSE "TOML_FLOAT",
                  Finite(SignOf(r.sign), Natural(r.digits, r.base),
                         SignOf(r.powersign) * Natural(r.power, 10) - r.places),
                  r.places)

-----------------------------------------------------------------------------
(* Words. *)

Inf(sign) == NumberMeaning("TOML_FLOAT", Number("inf", sign), 0)
Nan(sign) == NumberMeaning("TOML_FLOAT", Number("nan", sign), 0)
Bool(b)   == NumberMeaning("TOML_BOOL", Finite(1, b, 0), 0)

Words == {<<<<"t", "r", "u", "e">>, Bool(1)>>, <<<<"f", "a", "l", "s", "e">>, Bool(0)>>,
          <<<<"i", "n", "f">>, Inf(1)>>, <<<<"n", "a", "n">>, Nan(1)>>}
         \cup UNION {{<<<<s, "i", "n", "f">>, Inf(SignOf(s))>>,
                      <<<<s, "n", "a", "n">>, Nan(SignOf(s))>>} : s \in Signs}

-----------------------------------------------------------------------------
(***************************************************************************)
(* Dates and times: a template of the text without the fraction of the     *)
(* second, in which "0" stands for a digit, "T" for what may stand between *)
(* date and time, "Z" for the time zone UTC and "+" for a sign.            *)
(***************************************************************************)
DateForm  == <<"0", "0", "0", "0", "-", "0", "0", "-", "0", "0">>
ClockForm == <<"0", "0", ":", "0", "0">>
TimeForm  == ClockForm \o <<":", "0", "0">>
LocalForm == DateForm \o <<"T">> \o TimeForm

Forms == {DateForm, TimeForm, LocalForm, Append(LocalForm, "Z"),
          LocalForm \o <<"+">> \o ClockForm}

Fits(c, class) == CASE class = "0" -> c \in Digits
                    [] class = "T" -> c \in {"T", "t", " "}
                    [] class = "Z" -> c \in {"Z", "z"}
                    [] class = "+" -> c \in Signs
                    [] OTHER       -> c = class

Begins(text, form) == /\ Len(text) <= Len(form)
                      /\ \A i \in 1 .. Len(text) : Fits(text[i], form[i])
Matches(text, form) == Len(text) = Len(form) /\ Begins(text, form)

\* The point behind the seconds and the digits behind it.
IsClock(text)  == Len(text) >= 3 /\ text[3] = ":"
PointAt(text)  == IF IsClock(text) THEN 9 ELSE 20
HasPoint(text) == Len(text) >= PointAt(text) /\ text[PointAt(text)] = "."
Run(text, i)   == CHOOSE n \in 0 .. Len(text) + 1 - i :
                     /\ \A k \in i .. i + n - 1 : text[k] \in Digits
                     /\ i + n <= Len(text) => text[i + n] \notin Digits
Fraction(text) == IF ~HasPoint(text) THEN <<>>
                  ELSE SubSeq(text, PointAt(text) + 1,
                              PointAt(text) + Run(text, PointAt(text) + 1))
WithoutFraction(text) ==
    IF ~HasPoint(text) THEN text
    ELSE SubSeq(text, 1, PointAt(text) - 1)
         \o From(text, PointAt(text) + Len(Fraction(text)) + 1)

\* A text that may become a date or a time.
BeginsDate(text) ==
    /\ \E f \in Forms : Begins(WithoutFraction(text), f)
    /\ HasPoint(text) /\ Len(text) > PointAt(text) => Fraction(text) # <<>>

IsLeap(y)  == y % 4 = 0 /\ (y % 100 # 0 \/ y % 400 = 0)
Days(y, m) == CASE m = 2 -> IF IsLeap(y) THEN 29 ELSE 28
                [] m \in {4, 6, 9, 11} -> 30
                [] OTHER -> 31

\* Two digits, and the digits of the milliseconds: more are cut off.
Two(s, i) == Natural(SubSeq(s, i, i + 1), 10)
Millis(f) == Natural(SubSeq(f \o <<"0", "0", "0">>, 1, 3), 10)

\* Date and time of a text with one of the forms; the offset is in seconds.
DateMeaning(text) ==
    LET s    == WithoutFraction(text)
        day  == ~IsClock(s)
        t    == IF day THEN 12 ELSE 1
        time == Len(s) >= t + 7
    IN  [type   |-> CASE ~day                -> "TOML_TIMELOCAL"
                      [] day /\ ~time        -> "TOML_DATELOCAL"
                      [] day /\ Len(s) = 19  -> "TOML_DATETIMELOCAL"
                      [] OTHER               -> "TOML_DATETIME",
         year   |-> IF day THEN Natural(SubSeq(s, 1, 4), 10) ELSE 1900,
         month  |-> IF day THEN Two(s, 6) ELSE 1,
         day    |-> IF day THEN Two(s, 9) ELSE 1,
         hour   |-> IF time THEN Two(s, t) ELSE 0,
         min    |-> IF time THEN Two(s, t + 3) ELSE 0,
         sec    |-> IF time THEN Two(s, t + 6) ELSE 0,
         millis |-> Millis(Fraction(text)),
         offset |-> IF Len(s) = 25
                    THEN SignOf(s[20]) * 60 * (60 * Two(s, 21) + Two(s, 24)) ELSE 0]

\* RFC 3339, with its leap seconds.
IsDate(text) ==
    /\ \E f \in Forms : Matches(WithoutFraction(text), f)
    /\ HasPoint(text) => Fraction(text) # <<>>
    /\ LET d == DateMeaning(text)
           s == WithoutFraction(text)
       IN  /\ d.month \in 1 .. 12 /\ d.day \in 1 .. Days(d.year, d.month)
           /\ d.hour <= 23 /\ d.min <= 59 /\ d.sec <= 60
           /\ Len(s) = 25 => Two(s, 21) <= 23 /\ Two(s, 24) <= 59

-----------------------------------------------------------------------------
IsLiteral(text) == \/ IsNumber(ReadNumber(text)) \/ IsDate(text)
                   \/ \E w \in Words : w[1] = text

Meanings(text) ==
    (IF IsNumber(ReadNumber(text)) THEN {MeaningOfNumber(ReadNumber(text))} ELSE {})
    \cup (IF IsDate(text) THEN {DateMeaning(text)} ELSE {})
    \cup {w[2] : w \in {w \in Words : w[1] = text}}

BeginsLiteral(text) == \/ ReadNumber(text).part # "error" \/ BeginsDate(text)
                       \/ \E w \in Words : IsPrefix(text, w[1])

\* What may follow a literal: blanks, and then one of the characters in ends,
\* a line end where one of them may stand, or nothing.
MayFollow(rest, ends) ==
    \/ rest = <<>>
    \/ rest[1] \in ends
    \/ rest[1] = "\r" /\ "\n" \in ends /\ (Len(rest) = 1 \/ rest[2] = "\n")

WithoutBlanks(s) == From(s, CHOOSE i \in 1 .. Len(s) + 1 :
                                /\ \A k \in 1 .. i - 1 : s[k] \in Blanks
                                /\ i <= Len(s) => s[i] \notin Blanks)

\* A literal, with what may follow it.
IsWhole(text, ends) ==
    \E n \in 1 .. Len(text) : /\ MayFollow(WithoutBlanks(From(text, n + 1)), ends)
                              /\ IsLiteral(SubSeq(text, 1, n))

\* A text is, or may become, a literal with what may follow it.
IsBeginning(text, ends) == BeginsLiteral(text) \/ IsWhole(text, ends)
=============================================================================
