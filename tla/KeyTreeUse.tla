------------------------------ MODULE KeyTreeUse ------------------------------
(***************************************************************************)
(* What a program does with the tree of keys that toml_load returns:       *)
(* toml_get_key walks down from key to key, toml_json_dump prints it all.  *)
(* Both only read the tree.                                                *)
(***************************************************************************)
EXTENDS KeyTreeRules, SequencesExt

Loaded == mode = "done"

-----------------------------------------------------------------------------
(* toml_get_key. *)

\* The id of the slot a key is stored in; the root is called name, and the
\* pseudo keys of array tables have the empty id.
IdOf(k, name) == CASE k = Root -> name
                   [] k # Root /\ Slots(k) # {} -> (CHOOSE s \in Slots(k) : TRUE)[2]
                   [] OTHER -> "none"

\* A mistake: subkeys are looked up first.
toml_get_key_below(k, id, name) ==
    CASE k = NULL -> NULL
      [] k # NULL /\ has_subkey(k, id) # NULL -> has_subkey(k, id)
      [] OTHER -> IF IdOf(k, name) = id THEN k ELSE NULL

toml_get_key(k, id, name) ==
    CASE k = NULL -> NULL
      [] k # NULL /\ IdOf(k, name) = id -> k
      [] OTHER -> has_subkey(k, id)

\* One after the other, as a program that looks for a key does.
GetPath(path, name) ==
    LET got[i \in 0 .. Len(path)] ==
            IF i = 0 THEN Root ELSE toml_get_key(got[i - 1], path[i], name)
    IN  got[Len(path)]

\* The keys that have a path of identifiers, outside of array tables.
Named == {n \in Nodes : Range(n.path) \subseteq Ids}

Repeats(path) == \E i \in 1 .. Len(path) - 1 : path[i] = path[i + 1]

(***************************************************************************)
(* One toml_get_key after the other leads from the root to every key that  *)
(* is in no array of tables, and to this key only, unless an identifier    *)
(* stands twice in a row on the path, the name of the root included: then  *)
(* toml_get_key stays where it is, and the path leads to no such key.      *)
(***************************************************************************)
FoundByPath ==
    Loaded => \A name \in Ids : \A n \in Named :
                 (GetPath(n.path, name) = n.key) <=> ~Repeats(<<name>> \o n.path)

-----------------------------------------------------------------------------
(* toml_json_dump, toml_key_dump and toml_value_dump, as tokens. *)

\* What stands behind the i-th text of a list: total counts down what is left,
\* and a comma follows while there is something.  A mistake: behind all but one.
Comma_first(i, n) == IF i > 1 THEN <<<<",">>>> ELSE <<>>
Comma(i, n)       == IF n - i > 0 THEN <<<<",">>>> ELSE <<>>

Listed(texts) ==
    LET listed[i \in 0 .. Len(texts)] ==
            IF i = 0 THEN <<>> ELSE listed[i - 1] \o (texts[i] \o Comma(i, Len(texts)))
    IN  listed[Len(texts)]

Braces(k, text) ==
    <<<<"{">>>>
    \o Listed([i \in 1 .. Cardinality(UsedIds(k)) |->
                  LET id == SetToSeq(UsedIds(k))[i]      \* in the order of the hash map
                  IN  <<<<"id", id>>>> \o text[has_subkey(k, id)]])
    \o <<<<"}">>>>

\* A key with a value that is printed as such.
Leaf(k) == keys[k].type = "KEYLEAF" /\ keys[k].value # "none"

\* What toml_key_dump prints behind the id of a key, and toml_value_dump of
\* the pseudo keys in an array, if text is what it prints of the keys below.
toml_key_dump(k, text) ==
    CASE Leaf(k) -> <<<<"value", keys[k].value>>>>
      [] keys[k].type = "ARRAYTABLE" ->
            IF keys[k].idx < 0 THEN <<<<"endless">>>>  \* size_t i <= -1 is true for every i
            ELSE <<<<"[">>>> \o Listed([i \in 1 .. keys[k].idx + 1 |->
                                          Braces(keys[k].arr[i - 1], text)])
                 \o <<<<"]">>>>
      [] ~Leaf(k) /\ keys[k].type # "ARRAYTABLE" -> Braces(k, text)

Printed == LET printed[k \in 1 .. MaxKeys] == toml_key_dump(k, printed) IN printed

toml_json_dump == Braces(Root, Printed)

(***************************************************************************)
(* A reader of JSON: in holds the brackets that are open and path where it *)
(* is; want is what may come next, found what has been read, and ok is     *)
(* false once something came a second time or out of place.                *)
(***************************************************************************)
Reader == [in |-> <<>>, path |-> <<>>, want |-> {"value"}, found |-> {}, ok |-> TRUE]

Inside(r)  == IF r.in = <<>> THEN "nothing" ELSE Last(r.in)
Closed(r)  == [r EXCEPT !.in = Front(@), !.want = {",", "end"}]
Entered(r, bracket, what) ==
    [r EXCEPT !.in = Append(@, bracket), !.found = @ \cup {<<r.path, what>>},
              !.ok = @ /\ \A f \in r.found : f[1] # r.path]

Expected(r, c) == \/ c \in {"{", "[", "value"} /\ "value" \in r.want
                  \/ c = "id" /\ "id" \in r.want
                  \/ c = "," /\ "," \in r.want /\ Inside(r) \in {"{", "["}
                  \/ c = "]" /\ "end" \in r.want /\ Inside(r) = "["
                  \/ c = "}" /\ "end" \in r.want /\ Inside(r) = "{"

Follow(r, token) ==
    LET c == token[1]
    IN  CASE c = "{" -> [Entered(r, "{", "table") EXCEPT !.want = {"id", "end"}]
          [] c = "[" -> [Entered(r, "[", "array") EXCEPT !.want = {"value", "end"},
                                                         !.path = Append(@, 0)]
          [] c = "value" -> Closed(Entered(r, "value", token[2]))
          [] c = "id" -> [r EXCEPT !.path = Append(@, token[2]), !.want = {"value"}]
          [] c = "," -> IF Inside(r) = "{"
                        THEN [r EXCEPT !.path = Front(@), !.want = {"id"}]
                        ELSE [r EXCEPT !.path = Append(Front(@), Last(@) + 1),
                                       !.want = {"value"}]
          [] c = "]" -> [Closed(r) EXCEPT !.path = Front(@)]
          [] c = "}" -> [Closed(r) EXCEPT !.path = IF "id" \in r.want THEN @ ELSE Front(@)]

ReadToken(r, token) ==
    IF Expected(r, token[1]) THEN Follow(r, token) ELSE [r EXCEPT !.ok = FALSE]

\* From the reader r on.
ReadOn(r, tokens) ==
    LET read[i \in 0 .. Len(tokens)] ==
            IF i = 0 THEN r ELSE ReadToken(read[i - 1], tokens[i])
    IN  read[Len(tokens)]

ReadJson(tokens) == ReadOn(Reader, tokens)

(***************************************************************************)
(* The dump is JSON, and whoever reads it finds every key, table and value *)
(* of the tree under its path, once, and nothing else.                     *)
(***************************************************************************)
Content(k) == IF keys[k].value # "none" THEN keys[k].value ELSE "table"

DumpReadsBack ==
    Loaded => LET r == ReadJson(toml_json_dump)
              IN  /\ r.ok /\ r.in = <<>>
                  /\ r.found = {<<n.path, Content(n.key)>> : n \in Nodes}
=============================================================================
