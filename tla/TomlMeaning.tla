----------------------------- MODULE TomlMeaning -----------------------------
(***************************************************************************)
(* What a document means: the paths it defines, the kind of each and the   *)
(* values, read off the text from left to right by the automaton of        *)
(* TomlSyntax, with the rules of TomlRules about what may be defined       *)
(* again.  Inline tables stand at keys, not in arrays.                     *)
(***************************************************************************)
EXTENDS TomlSyntax

CONSTANTS Ids,              \* identifiers
          Name              \* the identifier of a bare key

ASSUME NameAssumption == \A w \in DOMAIN Name : w \in Seq(Bare) /\ Name[w] \in Ids

(***************************************************************************)
(* A reading: the configuration of the automaton, the letters of the       *)
(* segment, the path the statement has got to, the table keys are defined  *)
(* in, the paths of the arrays and inline tables around it, and what has   *)
(* been defined.  ok is FALSE from a redefinition on.                      *)
(***************************************************************************)
Unread == [c |-> Begun, word |-> <<>>, at |-> <<>>, base |-> <<>>, nest |-> <<>>,
           kind |-> [p \in {<<>>} |-> "table"], value |-> [p \in {} |-> "number"],
           ok |-> TRUE]

Rules(r) == INSTANCE TomlRules WITH kind <- r.kind, phase <- r.c.form, base <- r.base,
                                    at <- r.at, open <- r.nest

Around(r) == IF r.nest = <<>> THEN r.base ELSE Last(r.nest)

\* The segment in word is complete.
Segmented(r, final) ==
    LET form  == r.c.form
        p     == Append(Rules(r)!Here(r.at), Name[r.word])
        table == form = "table" /\ final
    IN  IF Rules(r)!Defined(p) /\ r.kind[p] \notin Rules(r)!Tolerated(form, final)
        THEN [r EXCEPT !.ok = FALSE]
        ELSE [r EXCEPT !.kind = IF Rules(r)!Defined(p) /\ ~table THEN @
                                ELSE Rules(r)!With(p, Rules(r)!NewKind(form, final)),
                       !.at   = p,
                       !.base = IF table THEN p ELSE @]

\* [[header]] is complete.
Extended(r) == [r EXCEPT !.kind = Rules(r)!With(Append(r.at, Rules(r)!Tables(r.at)), "element"),
                         !.base = r.at]

\* The value of the key at r.at.
Given(r, v) == [r EXCEPT !.value = [p \in DOMAIN @ \cup {r.at} |-> IF p = r.at THEN v ELSE @[p]]]

\* Brackets and braces that open or close.
Nested(old, r) ==
    CASE Len(r.c.nest) > Len(old.c.nest) -> [r EXCEPT !.nest = Append(@, r.at)]
      [] Len(r.c.nest) < Len(old.c.nest) -> [r EXCEPT !.nest = Front(@)]
      [] OTHER                           -> r

ReadLetter(old, ch) ==
    LET r    == [old EXCEPT !.c = Move(@, ch, TRUE)]
        from == old.c.phase
        to   == r.c.phase
    IN  CASE ~old.ok \/ to = "error" -> [r EXCEPT !.ok = FALSE]
          [] to = "header"           -> [r EXCEPT !.at = <<>>]
          [] from \in {"start", "in"} /\ to = "bare" ->
                [r EXCEPT !.at = Around(old), !.word = <<ch>>]
          [] from \in {"header", "segment"} /\ to = "bare" -> [r EXCEPT !.word = <<ch>>]
          [] from = "bare" /\ to = "bare" -> [r EXCEPT !.word = Append(@, ch)]
          [] from \in {"bare", "dot"} /\ to \notin {"bare", "dot"} ->
                Segmented(r, to # "segment")
          [] from = "close" -> Extended(r)
          [] from = "value" /\ to = "int" -> Given(r, "number")
          [] from = "value" /\ to = "in"  ->
                Nested(old, Given(r, IF ch = "[" THEN "list" ELSE "table"))
          [] OTHER -> Nested(old, r)

Read(text) == FoldLeft(ReadLetter, Unread, text)

\* What stands at each path.
Contents(r) == {<<p, CASE r.kind[p] = "value" -> r.value[p]
                       [] r.kind[p] = "array" -> "array"
                       [] OTHER               -> "table">> : p \in DOMAIN r.kind}
=============================================================================
