------------------------------ MODULE TomlRules ------------------------------
(***************************************************************************)
(* What the parser promises about definitions, without its data structure: *)
(* a document defines paths, and this is when a path may be defined again. *)
(* The rules are those of parse_keys.c and of compatible_keys in key.c,    *)
(* read as rules about paths.                                              *)
(*                                                                         *)
(* A path is a sequence of identifiers; the n-th table of an array table   *)
(* has the path of the array table followed by n, counted from 0.          *)
(***************************************************************************)
EXTENDS Integers, Sequences, FiniteSets

CONSTANT Ids

\* How a path was defined:
\*   super    on the way of a [header], never itself one
\*   table    by a [header]
\*   array    by a [[header]], element: one of its tables
\*   dotted   on the way of a dotted key
\*   value    by a key with a value, inline tables included
Kinds == {"super", "table", "array", "element", "dotted", "value"}

VARIABLES kind,             \* the kinds of the paths defined so far
          phase,            \* what is being parsed
          base,             \* the table that keys are defined in
          at,               \* the path the current statement has got to
          open              \* the paths of the inline tables being parsed

vars == <<kind, phase, base, at, open>>

Forms   == {"key", "table", "arraytable"}
Nowhere == <<"nowhere">>

Defined(p) == p \in DOMAIN kind

IsPrefix(p, q) == Len(p) <= Len(q) /\ SubSeq(q, 1, Len(p)) = p

\* The number of tables of the array table at p: all that is right below it.
Tables(p) == Cardinality({q \in DOMAIN kind : Len(q) = Len(p) + 1 /\ IsPrefix(p, q)})

\* Where a statement that has got to p goes on: in the latest table of an array.
Here(p) == IF kind[p] = "array" THEN Append(p, Tables(p) - 1) ELSE p

\* The kinds a segment may find at its path, besides finding it undefined.
Tolerated(form, final) ==
    CASE form = "key" /\ ~final        -> {"dotted"}
      [] form = "key" /\ final         -> {}
      [] form # "key" /\ ~final        -> {"super", "table", "array", "dotted"}
      [] form = "table" /\ final       -> {"super"}
      [] form = "arraytable" /\ final  -> {"array"}

\* The kind a segment gives to an undefined path.
NewKind(form, final) ==
    CASE form = "key" /\ ~final        -> "dotted"
      [] form = "key" /\ final         -> "value"
      [] form # "key" /\ ~final        -> "super"
      [] form = "table" /\ final       -> "table"
      [] form = "arraytable" /\ final  -> "array"

With(p, k) == [q \in DOMAIN kind \cup {p} |-> IF q = p THEN k ELSE kind[q]]

Init == /\ kind = [p \in {<<>>} |-> "table"]
        /\ phase = "statement"
        /\ base = <<>>
        /\ at = Nowhere
        /\ open = <<>>

Begin(form) == /\ phase = "statement"
               /\ phase' = form
               /\ at' = IF form = "key" THEN base ELSE <<>>
               /\ UNCHANGED <<kind, base, open>>

Define(id, final) ==
    /\ phase \in Forms
    /\ LET p     == Append(Here(at), id)
           table == phase = "table" /\ final
       IN  /\ Defined(p) => kind[p] \in Tolerated(phase, final)
           /\ kind' = IF Defined(p) /\ ~table THEN kind
                      ELSE With(p, NewKind(phase, final))
           /\ at' = IF table THEN Nowhere ELSE p
           /\ base' = IF table THEN p ELSE base
    /\ phase' = IF ~final THEN phase
                ELSE CASE phase = "key"        -> "value"
                       [] phase = "table"      -> "statement"
                       [] phase = "arraytable" -> "element"
    /\ UNCHANGED open

\* The only reason to call a definition a redefinition.
Redefine(id, final) ==
    /\ phase \in Forms
    /\ Defined(Append(Here(at), id))
    /\ kind[Append(Here(at), id)] \notin Tolerated(phase, final)
    /\ phase' = "redefined"
    /\ UNCHANGED <<kind, base, at, open>>

AddTable == /\ phase = "element"
            /\ kind' = With(Append(at, Tables(at)), "element")
            /\ phase' = "statement" /\ base' = at /\ at' = Nowhere
            /\ UNCHANGED open

AfterValue(s) == IF s = <<>> THEN "statement" ELSE "inline"

SetValue == /\ phase = "value"
            /\ phase' = AfterValue(open) /\ at' = Nowhere
            /\ UNCHANGED <<kind, base, open>>

OpenInline == /\ phase = "value"
              /\ open' = Append(open, at)
              /\ phase' = "inline" /\ at' = Nowhere
              /\ UNCHANGED <<kind, base>>

InlineKey == /\ phase = "inline"
             /\ phase' = "key" /\ at' = open[Len(open)]
             /\ UNCHANGED <<kind, base, open>>

CloseInline == /\ phase = "inline"
               /\ open' = SubSeq(open, 1, Len(open) - 1)
               /\ phase' = AfterValue(open')
               /\ UNCHANGED <<kind, base, at>>

Finish == /\ phase = "statement"
          /\ phase' = "done"
          /\ UNCHANGED <<kind, base, at, open>>

\* A malformed input, or one that outgrows the parser's limits.
Fail == /\ phase \notin {"redefined", "failed", "done"}
        /\ phase' = "failed"
        /\ UNCHANGED <<kind, base, at, open>>

Next == \/ \E form \in Forms : Begin(form)
        \/ \E id \in Ids, final \in BOOLEAN : Define(id, final) \/ Redefine(id, final)
        \/ AddTable \/ SetValue \/ OpenInline \/ InlineKey \/ CloseInline
        \/ Finish \/ Fail

Spec == Init /\ [][Next]_vars
-----------------------------------------------------------------------------
\* Paths that later statements may neither add to nor change: a value whose
\* parsing is over, and every table of an array but the latest.
Closed(p) ==
    \/ /\ kind[p] = "value"
       /\ ~(phase = "value" /\ at = p)
       /\ \A n \in 1 .. Len(open) : open[n] # p
    \/ /\ kind[p] = "element"
       /\ LET array == SubSeq(p, 1, Len(p) - 1)
          IN  p # Append(array, Tables(array) - 1)

(***************************************************************************)
(* Inline tables are sealed when they are closed, and the tables of an     *)
(* array are sealed when the next one begins: nothing is added below them  *)
(* and nothing below them is redefined, by whatever mix of dotted keys,    *)
(* headers and inline tables follows.                                      *)
(***************************************************************************)
ClosedSealed ==
    [][LET now  == kind
           then == kind'
       IN  \A p \in {p \in DOMAIN now : Closed(p)} :
              \A q \in DOMAIN now \cup DOMAIN then : IsPrefix(p, q) =>
                 q \in DOMAIN now \cap DOMAIN then /\ then[q] = now[q]]_vars
=============================================================================
