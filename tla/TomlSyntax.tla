----------------------------- MODULE TomlSyntax -----------------------------
(***************************************************************************)
(* The syntax of the documents that Document reads, as an automaton with a *)
(* stack: what the parser is to accept, without the way it goes about it.  *)
(* The letters stand for character classes: "k" for a letter, "1" for a    *)
(* digit other than 0, "x" for a control character.                        *)
(***************************************************************************)
EXTENDS Integers, Sequences, SequencesExt

Blank == {" ", "\t"}
Bare  == {"k", "1"}

(***************************************************************************)
(* A configuration: what is expected next, the statement the current key   *)
(* belongs to, and the arrays and inline tables around it, innermost last. *)
(* In these, sep tells that a separator or the opening bracket came last   *)
(* and size counts the elements.                                           *)
(***************************************************************************)
Config(phase, form, nest) == [phase |-> phase, form |-> form, nest |-> nest]
Level(kind)               == [kind |-> kind, sep |-> TRUE, size |-> 0]

Begun == Config("start", "key", <<>>)
Error == Config("error", "key", <<>>)

To(c, phase)   == Config(phase, c.form, c.nest)
Top(c)         == c.nest[Len(c.nest)]
Enter(c, kind) == Config("in", "key", Append(c.nest, Level(kind)))
SetTop(c, top) == Config("in", c.form, Append(Front(c.nest), top))

\* A line or a value is over: back to what is around it.
LineEnd(c)  == To(c, IF c.nest = <<>> THEN "start" ELSE "in")
ValueEnd(c) == IF c.nest = <<>> THEN To(c, "after")
               ELSE SetTop(c, [Top(c) EXCEPT !.sep = FALSE, !.size = @ + 1])
Leave(c)    == ValueEnd(Config("in", c.form, Front(c.nest)))

KeyEnd(c) == CASE c.form = "key"        -> To(c, "value")
               [] c.form = "table"      -> To(c, "after")
               [] c.form = "arraytable" -> To(c, "close")
Closing(c) == IF c.form = "key" THEN "=" ELSE "]"

StartValue(c, ch) == CASE ch = "1" -> To(c, "int")
                       [] ch = "[" -> Enter(c, "array")
                       [] ch = "{" -> Enter(c, "inline")
                       [] OTHER    -> Error

EndLine(c, ch) == CASE ch = "\n" -> LineEnd(c)
                    [] ch = "\r" -> To(c, "cr")
                    [] ch = "#"  -> To(c, "comment")
                    [] OTHER     -> Error

\* Between the elements of an array or the pairs of an inline table.
Between(c, ch) ==
    LET top   == Top(c)
        array == top.kind = "array"
    IN  CASE ch \in Blank -> c
          [] ch = ","  -> IF top.sep THEN Error ELSE SetTop(c, [top EXCEPT !.sep = TRUE])
          [] ch = "]"  -> IF array THEN Leave(c) ELSE Error
          [] ch = "}"  -> IF ~array /\ (top.sep => top.size = 0) THEN Leave(c) ELSE Error
          [] ch \in {"\n", "\r", "#"} -> IF array THEN EndLine(c, ch) ELSE Error
          [] OTHER     -> IF top.sep /\ array THEN StartValue(c, ch)
                          ELSE IF top.sep /\ ch \in Bare THEN To(c, "bare") ELSE Error

\* lenient: a [header] may follow on the line of another statement.
After(c, ch, lenient) ==
    IF c.phase = "in" THEN Between(c, ch)
    ELSE CASE ch \in Blank -> c
           [] ch = "["     -> IF lenient THEN To(c, "header") ELSE Error
           [] OTHER        -> EndLine(c, ch)

Move(c, ch, lenient) ==
    CASE c.phase = "start" ->
            CASE ch \in Blank -> c
              [] ch = "["     -> To(c, "header")
              [] ch \in Bare  -> Config("bare", "key", c.nest)
              [] OTHER        -> EndLine(c, ch)
      [] c.phase = "header" ->
            CASE ch = "["     -> Config("segment", "arraytable", c.nest)
              [] ch \in Blank -> Config("segment", "table", c.nest)
              [] ch \in Bare  -> Config("bare", "table", c.nest)
              [] OTHER        -> Error
      [] c.phase = "segment" ->
            IF ch \in Blank THEN c ELSE IF ch \in Bare THEN To(c, "bare") ELSE Error
      [] c.phase \in {"bare", "dot"} ->
            CASE ch \in Bare /\ c.phase = "bare" -> c
              [] ch \in Blank                    -> To(c, "dot")
              [] ch = "."                        -> To(c, "segment")
              [] ch = Closing(c)                 -> KeyEnd(c)
              [] OTHER                           -> Error
      [] c.phase = "close"   -> IF ch = "]" THEN To(c, "after") ELSE Error
      [] c.phase = "value"   -> IF ch \in Blank THEN c ELSE StartValue(c, ch)
      [] c.phase \in {"int", "frac"} ->
            CASE ch = "1"                      -> c
              [] ch = "." /\ c.phase = "int"   -> To(c, "point")
              [] ch = "[" /\ c.nest = <<>>     -> Error
              [] OTHER                         -> After(ValueEnd(c), ch, lenient)
      [] c.phase = "point"   -> IF ch = "1" THEN To(c, "frac") ELSE Error
      [] c.phase \in {"after", "in"} -> After(c, ch, lenient)
      [] c.phase = "comment" ->
            IF ch \in {"\n", "\r"} THEN EndLine(c, ch)
            ELSE IF ch = "x" THEN Error ELSE c
      [] c.phase = "cr"      -> IF ch = "\n" THEN LineEnd(c) ELSE Error
      [] c.phase = "error"   -> Error

Run(text, lenient) ==
    LET run[i \in 0 .. Len(text)] ==
            IF i = 0 THEN Begun ELSE Move(run[i - 1], text[i], lenient)
    IN  run[Len(text)]

\* A document may end here.
Complete(c) == /\ c.phase \in {"start", "after", "int", "frac", "comment"}
               /\ c.nest = <<>>
=============================================================================
