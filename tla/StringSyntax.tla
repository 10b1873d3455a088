---------------------------- MODULE StringSyntax ----------------------------
(***************************************************************************)
(* The four kinds of TOML strings, as an automaton that reads a string     *)
(* from its opening quote on and collects what it means, as a sequence of  *)
(* Unicode scalar values; and UTF-8.                                       *)
(*                                                                         *)
(* Of the letters with a role in escapes "n" stands for b, t, n and r too, *)
(* "f" is also a digit, and "0", "4", "8", "D" stand for the hexadecimal   *)
(* digits; "k" for all other characters and "x" for control characters.    *)
(***************************************************************************)
EXTENDS Integers, Sequences, SequencesExt

Quotes == {"\"", "'"}
Blanks == {" ", "\t"}
Digits == {"0", "4", "8", "D", "f"}

Code(c) == CASE c = "\"" -> 34 [] c = "'" -> 39 [] c = "\\" -> 92 [] c = "n" -> 110
             [] c = "f" -> 102 [] c = "u" -> 117 [] c = "U" -> 85 [] c = "0" -> 48
             [] c = "4" -> 52 [] c = "8" -> 56 [] c = "D" -> 68 [] c = " " -> 32
             [] c = "\t" -> 9 [] c = "\n" -> 10 [] c = "\r" -> 13 [] c = "x" -> 1
             [] c = "k" -> 107 [] c = "=" -> 61 [] c = "]" -> 93 [] c = "." -> 46

\* What a character stands for behind a backslash.
Escaped(c) == CASE c = "n" -> 10 [] c = "f" -> 12 [] OTHER -> Code(c)

HexDigit(c) == CASE c = "0" -> 0 [] c = "4" -> 4 [] c = "8" -> 8 [] c = "D" -> 13 [] c = "f" -> 15

\* Beyond the last scalar value all numbers are the same.
TooBig == 1114112
Hex(digits) == FoldLeft(LAMBDA n, d : IF 16 * n + HexDigit(d) > TooBig THEN TooBig
                                      ELSE 16 * n + HexDigit(d), 0, digits)

IsScalar(n) == n \in 0 .. 55295 \/ n \in 57344 .. TooBig - 1

-----------------------------------------------------------------------------
(***************************************************************************)
(* A configuration: fresh tells that nothing has followed the quotes that  *)
(* open a multi-line string, run counts quotes that may close one, need is *)
(* the length of the escape whose digits are being collected, back is the  *)
(* phase to go on with behind a line end.                                  *)
(***************************************************************************)
Opening == [phase |-> "open", quote |-> "\"", multi |-> FALSE, fresh |-> FALSE,
            run |-> 0, value |-> <<>>, digits |-> <<>>, need |-> 0, back |-> "body"]

At(c, phase)   == [c EXCEPT !.phase = phase]
Wrong(c)       == At(c, "error")
Append1(c, n)  == [At(c, "body") EXCEPT !.value = Append(@, n), !.fresh = FALSE]
Repeated(q, n) == [i \in 1 .. n |-> Code(q)]

\* The quotes that did not close the string are part of it.
KeepRun(c) == [c EXCEPT !.value = @ \o Repeated(c.quote, c.run), !.run = 0,
                        !.fresh = @ /\ c.run = 0]

LineBreak(c) == CASE c.back = "trim"              -> At(c, "trim")
                  [] c.back = "body" /\ c.fresh   -> [At(c, "body") EXCEPT !.fresh = FALSE]
                  [] c.back = "body" /\ ~c.fresh  -> Append1(c, 10)

Body(c, ch) ==
    CASE ch = "\n" /\ c.multi                -> LineBreak([c EXCEPT !.back = "body"])
      [] ch = "\r" /\ c.multi                -> [At(c, "cr") EXCEPT !.back = "body"]
      [] ch \in {"\n", "\r", "x"} /\ (ch = "x" \/ ~c.multi) -> Wrong(c)
      [] ch = "\\" /\ c.quote = "\""         -> At(c, "escape")
      [] OTHER                               -> Append1(c, Code(ch))

AfterDigit(c) ==
    IF Len(c.digits) < c.need THEN c
    ELSE IF IsScalar(Hex(c.digits)) THEN Append1(c, Hex(c.digits)) ELSE Wrong(c)

\* A backslash at the end of a line takes all white space away that follows.
Folding(c, ch, phase) == CASE ch \in Blanks -> At(c, phase)
                           [] ch = "\n"     -> At(c, "trim")
                           [] ch = "\r"     -> [At(c, "cr") EXCEPT !.back = "trim"]

Step(c, ch) ==
    CASE c.phase = "open" -> [At(c, "one") EXCEPT !.quote = ch]
      [] c.phase = "one"  -> IF ch = c.quote THEN At(c, "two") ELSE Body(c, ch)
      [] c.phase = "two"  -> IF ch = c.quote
                             THEN [At(c, "body") EXCEPT !.multi = TRUE, !.fresh = TRUE]
                             ELSE At(c, "past")
      [] c.phase \in {"body", "trim"} ->
            CASE ch = c.quote -> IF ~c.multi THEN At(c, "closed")
                                 ELSE IF c.run = 5 THEN At(c, "past")
                                 ELSE [At(c, "body") EXCEPT !.run = @ + 1]
              [] ch # c.quote /\ c.run >= 3 -> At(c, "past")
              [] ch # c.quote /\ c.phase = "trim" /\ ch \in Blanks \cup {"\n", "\r"} ->
                    Folding(c, ch, "trim")
              [] OTHER -> Body(KeepRun(c), ch)
      [] c.phase = "escape" ->
            CASE ch \in {"n", "f", "\"", "\\"} -> Append1(c, Escaped(ch))
              [] ch \in {"u", "U"} ->
                    [At(c, "hex") EXCEPT !.need = IF ch = "u" THEN 4 ELSE 8, !.digits = <<>>]
              [] c.multi /\ ch \in Blanks \cup {"\n", "\r"} -> Folding(c, ch, "fold")
              [] OTHER -> Wrong(c)
      [] c.phase = "hex"  -> IF ch \notin Digits THEN Wrong(c)
                             ELSE AfterDigit([c EXCEPT !.digits = Append(@, ch)])
      [] c.phase = "fold" -> IF ch \in Blanks \cup {"\n", "\r"} THEN Folding(c, ch, "fold")
                             ELSE Wrong(c)
      [] c.phase = "cr"   -> IF ch = "\n" THEN LineBreak(c) ELSE Wrong(c)
      [] c.phase = "closed" -> At(c, "past")
      [] c.phase \in {"past", "error"} -> c

Read(text) == FoldLeft(Step, Opening, text)

\* The string may end here, and what it means then.
Closed(c)  == c.phase \in {"two", "closed"} \/ c.run >= 3
Meaning(c) == c.value \o Repeated(c.quote, IF c.run >= 3 THEN c.run - 3 ELSE 0)

-----------------------------------------------------------------------------
\* The bytes of a scalar value in UTF-8 by the table of RFC 3629: the first
\* byte tells how many follow, and these hold six bits each.
Following(n, count) == [i \in 1 .. count |-> 128 + ((n \div 64 ^ (count - i)) % 64)]

Utf8(n) == CASE n < 128   -> <<n>>
             [] n \in 128 .. 2047     -> <<192 + n \div 64>> \o Following(n, 1)
             [] n \in 2048 .. 65535   -> <<224 + n \div 4096>> \o Following(n, 2)
             [] n >= 65536            -> <<240 + n \div 262144>> \o Following(n, 3)

Bytes(scalars) == FlattenSeq([i \in 1 .. Len(scalars) |-> Utf8(scalars[i])])
=============================================================================
