------------------------------- MODULE KeyTree -------------------------------
(***************************************************************************)
(* The tree of keys a TOML document is parsed into: key.c, and the parts   *)
(* of parse_keys.c and parse_values.c that build the tree.  The heap is an *)
(* array of keys; a pointer is an index, NULL is 0.  A khash map is a      *)
(* function from identifiers to pointers.                                  *)
(*                                                                         *)
(* A statement is parsed in several steps, one per segment of its dotted   *)
(* key, and mode says which function is waiting for the next one:          *)
(*   statement   toml_load, between statements                             *)
(*   key, table, arraytable      parse_key, parse_table, parse_arraytable  *)
(*   element     parse_keyval, with the table of [[table]] in hand         *)
(*   value       parse_keyval or parse_inlinetable, calling parse_value    *)
(*   inline      parse_inlinetable, between its key-value pairs            *)
(*   redefined, overflow, invalid, done        toml_load has returned      *)
(* The characters are left out: which segment comes next is a choice, and  *)
(* an input that is malformed at this point is the action Invalid.         *)
(***************************************************************************)
EXTENDS Integers, Sequences, FiniteSets

CONSTANTS Ids,              \* identifiers
          Values,           \* values other than the arrays of array tables
          MaxSubkeys,       \* TOML_MAX_SUBKEYS
          MaxArray,         \* TOML_MAX_ARRAY_LENGTH
          MaxKeys           \* bound: how many keys are ever allocated

ASSUME ValuesAssumption     == "none" \notin Values /\ "array" \notin Values
ASSUME MaxSubkeysAssumption == MaxSubkeys \in Nat \ {0}
ASSUME MaxArrayAssumption   == MaxArray \in Nat \ {0}
ASSUME MaxKeysAssumption    == MaxKeys \in Nat \ {0}

NULL == 0
Root == 1

Types   == {"TABLE", "KEY", "ARRAYTABLE", "TABLELEAF", "KEYLEAF"}
Walking == {"key", "table", "arraytable"}
Stopped == {"redefined", "overflow", "invalid", "done"}
Modes   == Walking \cup Stopped \cup {"statement", "element", "value", "inline"}

VARIABLES keys,             \* the heap: struct toml_key at each index
          nkeys,            \* how many keys are allocated
          mode,
          active,           \* the key parse_keyval returned last
          at,               \* the key the current statement has got to
          open              \* the inline tables being parsed, outermost first:
                            \* the key of each and the local variable keys

vars == <<keys, nkeys, mode, active, at, open>>

(***************************************************************************)
(* struct toml_key.  value is "none", a value or the "array" of an array   *)
(* table; len and arr are the fields of that array, and arr[i] points to   *)
(* the pseudo key that holds its i-th table.                               *)
(***************************************************************************)
NoSubkeys == [id \in Ids |-> NULL]

new_key(type) == [ type    |-> type,
                   subkeys |-> NoSubkeys,
                   value   |-> "none",
                   len     |-> 0,
                   arr     |-> [i \in 0 .. MaxArray - 1 |-> NULL],
                   idx     |-> -1 ]

new       == nkeys + 1              \* the key that the next new_key returns
CanAlloc  == nkeys < MaxKeys        \* bound

\* Mistakes: keys may be set again; a [table] may be repeated.
compatible_keys_reset(existing, current) ==
    \/ existing \in {"TABLELEAF", "KEY", "ARRAYTABLE"} /\ current = "TABLE"
    \/ existing = "TABLE" /\ current = "TABLELEAF"
    \/ existing = current /\ current # "TABLELEAF"

compatible_keys_repeat(existing, current) ==
    /\ existing # "KEYLEAF"
    /\ \/ existing \in {"TABLELEAF", "KEY", "ARRAYTABLE"} /\ current = "TABLE"
       \/ existing = "TABLE" /\ current = "TABLELEAF"
       \/ existing = current

compatible_keys(existing, current) ==
    /\ existing # "KEYLEAF"
    /\ ~(existing = "TABLELEAF" /\ current = "TABLELEAF")
    /\ \/ existing \in {"TABLELEAF", "KEY", "ARRAYTABLE"} /\ current = "TABLE"
       \/ existing = "TABLE" /\ current = "TABLELEAF"
       \/ existing = current

has_subkey(k, id) == keys[k].subkeys[id]

\* Mistakes: an array table keeps its own subkeys; it uses its first table.
Holder_own(k, id) == k

Holder_first(k, id) ==
    IF has_subkey(k, id) = NULL /\ keys[k].type = "ARRAYTABLE"
    THEN keys[k].arr[0]
    ELSE k

\* Where add_subkey looks id up and stores it: a key found in k itself stays
\* there; otherwise an array table passes the call on to its latest table.
Holder(k, id) ==
    IF has_subkey(k, id) = NULL /\ keys[k].type = "ARRAYTABLE"
    THEN keys[k].arr[keys[k].idx]
    ELSE k

Found(k, id) == has_subkey(Holder(k, id), id)

UsedIds(k)    == {id \in Ids : has_subkey(k, id) # NULL}
\* A mistake: the limit is tested one too late.
Full_late(k)  == Cardinality(UsedIds(k)) > MaxSubkeys
Full(k)       == Cardinality(UsedIds(k)) >= MaxSubkeys
NoRoom(k, id) == Full(k) \/ Full(Holder(k, id))

\* The types parse_key, parse_table and parse_arraytable give the segments.
NewType(final) ==
    IF final
    THEN CASE mode = "key"        -> "KEYLEAF"
           [] mode = "table"      -> "TABLELEAF"
           [] mode = "arraytable" -> "ARRAYTABLE"
    ELSE IF mode = "key" THEN "KEY" ELSE "TABLE"

Init == /\ keys = [k \in 1 .. MaxKeys |-> new_key("TABLE")]
        /\ nkeys = 1
        /\ mode = "statement"
        /\ active = Root
        /\ at = NULL
        /\ open = <<>>

-----------------------------------------------------------------------------
(* parse_keyval: the start of a statement. *)

StartKey == /\ mode = "statement"
            /\ mode' = "key" /\ at' = active
            /\ UNCHANGED <<keys, nkeys, active, open>>

StartTable == /\ mode = "statement"
              /\ mode' \in {"table", "arraytable"} /\ at' = Root
              /\ UNCHANGED <<keys, nkeys, active, open>>

-----------------------------------------------------------------------------
(* parse_key, parse_table, parse_arraytable: a segment, and add_subkey. *)

\* The function goes on from k, or returns it when the segment was final.
Arrive(k, final) ==
    /\ mode' = IF ~final THEN mode
               ELSE CASE mode = "key"        -> "value"
                      [] mode = "table"      -> "statement"
                      [] mode = "arraytable" -> "element"
    /\ at' = IF final /\ mode = "table" THEN NULL ELSE k
    /\ active' = IF final /\ mode = "table" THEN k ELSE active

Descend(id, final) ==
    LET s == Found(at, id)
    IN  /\ mode \in Walking
        /\ s # NULL
        /\ compatible_keys(keys[s].type, NewType(final))
        /\ keys' = IF NewType(final) = "TABLELEAF"
                   THEN [keys EXCEPT ![s].type = "TABLELEAF"] ELSE keys
        /\ Arrive(s, final)
        /\ UNCHANGED <<nkeys, open>>

Redefine(id, final) ==
    /\ mode \in Walking
    /\ Found(at, id) # NULL
    /\ ~compatible_keys(keys[Found(at, id)].type, NewType(final))
    /\ mode' = "redefined"
    /\ UNCHANGED <<keys, nkeys, active, at, open>>

Create(id, final) ==
    /\ mode \in Walking
    /\ Found(at, id) = NULL
    /\ ~NoRoom(at, id)
    /\ CanAlloc
    /\ keys' = [keys EXCEPT ![Holder(at, id)].subkeys[id] = new,
                            ![new] = new_key(NewType(final))]
    /\ nkeys' = new
    /\ Arrive(new, final)
    /\ UNCHANGED open

Overflow(id) ==
    /\ mode \in Walking
    /\ Found(at, id) = NULL
    /\ NoRoom(at, id)
    /\ mode' = "overflow"
    /\ UNCHANGED <<keys, nkeys, active, at, open>>

-----------------------------------------------------------------------------
(* parse_keyval: the table of [[table]]. *)

\* Mistakes: the limit is tested one too late; the last table is used again.
NewElement_late ==
    LET i == keys[at].idx + 1
    IN  /\ mode = "element"
        /\ keys[at].idx <= MaxArray - 1
        /\ CanAlloc
        /\ keys' = [keys EXCEPT ![at].value = "array",
                                ![at].idx   = i,
                                ![at].arr   = [@ EXCEPT ![i] = new],
                                ![new]      = new_key("KEY")]
        /\ nkeys' = new
        /\ mode' = "statement" /\ active' = at /\ at' = NULL
        /\ UNCHANGED open

NewElement_again ==
    LET i == keys[at].idx + 1
    IN  /\ mode = "element"
        /\ keys[at].idx < MaxArray - 1
        /\ CanAlloc
        /\ keys' = [keys EXCEPT ![at].value  = "array",
                                ![at].idx    = i,
                                ![at].arr[i] = IF i > 0 THEN keys[at].arr[i - 1] ELSE new,
                                ![new]       = new_key("KEY")]
        /\ nkeys' = new
        /\ mode' = "statement" /\ active' = at /\ at' = NULL
        /\ UNCHANGED open

\* new_array when there is none yet, then a pseudo key for the new table.
NewElement ==
    LET i == keys[at].idx + 1
    IN  /\ mode = "element"
        /\ keys[at].idx < MaxArray - 1
        /\ CanAlloc
        /\ keys' = [keys EXCEPT ![at].value  = "array",
                                ![at].idx    = i,
                                ![at].arr[i] = new,
                                ![new]       = new_key("KEY")]
        /\ nkeys' = new
        /\ mode' = "statement" /\ active' = at /\ at' = NULL
        /\ UNCHANGED open

ArrayOverflow ==
    /\ mode = "element"
    /\ keys[at].idx >= MaxArray - 1
    /\ mode' = "overflow"
    /\ UNCHANGED <<keys, nkeys, active, at, open>>

-----------------------------------------------------------------------------
(* parse_keyval and parse_inlinetable: the value of a key. *)

Top          == open[Len(open)]
AfterValue(s) == IF s = <<>> THEN "statement" ELSE "inline"

\* Any value but an inline table, arrays included.
SetValue ==
    /\ mode = "value"
    /\ \E v \in Values : keys' = [keys EXCEPT ![at].value = v]
    /\ mode' = AfterValue(open) /\ at' = NULL
    /\ UNCHANGED <<nkeys, active, open>>

OpenInline ==
    /\ mode = "value"
    /\ CanAlloc
    /\ keys' = [keys EXCEPT ![new] = new_key("TABLE")]
    /\ nkeys' = new
    /\ open' = Append(open, [key |-> at, keys |-> new])
    /\ mode' = "inline" /\ at' = NULL
    /\ UNCHANGED active

InlineKey ==
    /\ mode = "inline"
    /\ mode' = "key" /\ at' = Top.keys
    /\ UNCHANGED <<keys, nkeys, active, open>>

\* new_inline_table copies the pairs, then the caller unlocks its key as a
\* KEY, adds every pair to it with add_subkey and locks it as a KEYLEAF.
Clash == \E id \in UsedIds(Top.key) \cap UsedIds(Top.keys) :
            ~compatible_keys(keys[has_subkey(Top.key, id)].type,
                             keys[has_subkey(Top.keys, id)].type)
\* A mistake: the pairs are not added to the key.
Merged_lost == [id \in Ids |-> has_subkey(Top.key, id)]

Merged == [id \in Ids |-> IF has_subkey(Top.key, id) # NULL
                          THEN has_subkey(Top.key, id)
                          ELSE has_subkey(Top.keys, id)]
TooMany == Cardinality(UsedIds(Top.key) \cup UsedIds(Top.keys)) > MaxSubkeys

\* The inline table's own container is dropped: nothing points to it any more.
CloseInline ==
    LET rest == SubSeq(open, 1, Len(open) - 1)
    IN  /\ mode = "inline"
        /\ IF Clash \/ TooMany
           THEN /\ mode' = IF Clash THEN "redefined" ELSE "overflow"
                /\ UNCHANGED <<keys, open>>
           ELSE /\ keys' = [keys EXCEPT ![Top.key].subkeys  = Merged,
                                        ![Top.key].type     = "KEYLEAF",
                                        ![Top.keys].subkeys = NoSubkeys]
                /\ open' = rest
                /\ mode' = AfterValue(rest)
        /\ UNCHANGED <<nkeys, active, at>>

-----------------------------------------------------------------------------
(* The end of the input, a malformed input, and toml_load after that. *)

Finish  == /\ mode = "statement"
           /\ mode' = "done"
           /\ UNCHANGED <<keys, nkeys, active, at, open>>

Invalid == /\ mode \notin Stopped
           /\ mode' = "invalid"
           /\ UNCHANGED <<keys, nkeys, active, at, open>>

Halted  == mode \in Stopped /\ UNCHANGED vars

Segment == \E id \in Ids : \/ Overflow(id)
                           \/ \E final \in BOOLEAN :
                                 \/ Descend(id, final)
                                 \/ Redefine(id, final)
                                 \/ Create(id, final)

Next == \/ StartKey \/ StartTable \/ Segment
        \/ NewElement \/ ArrayOverflow
        \/ SetValue \/ OpenInline \/ InlineKey \/ CloseInline
        \/ Finish \/ Invalid \/ Halted

Spec == Init /\ [][Next]_vars
-----------------------------------------------------------------------------
Allocated == 1 .. nkeys

\* The keys that k points to.
Refs(k) == ({has_subkey(k, id) : id \in Ids}
            \cup {keys[k].arr[i] : i \in 0 .. MaxArray - 1}) \ {NULL}

(***************************************************************************)
(* The fields of struct toml_key keep their ranges and every pointer is    *)
(* NULL or points to an allocated key.                                     *)
(***************************************************************************)
KeyType == [ type    : Types,
             subkeys : [Ids -> 0 .. MaxKeys],
             value   : {"none", "array"} \cup Values,
             len     : Nat,
             arr     : [0 .. MaxArray - 1 -> 0 .. MaxKeys],
             idx     : -1 .. MaxArray - 1 ]

TypeOK == /\ keys \in [1 .. MaxKeys -> KeyType]
          /\ nkeys \in 1 .. MaxKeys
          /\ mode \in Modes
          /\ active \in Allocated
          /\ at \in 0 .. nkeys
          /\ open \in Seq([key : 1 .. MaxKeys, keys : 1 .. MaxKeys])

(***************************************************************************)
(* What is reachable from the root is a tree: a key is allocated after the *)
(* key that points to it, and at most one pointer leads to a key, none to  *)
(* the container of an open inline table.  toml_json_dump and toml_free    *)
(* recurse over it and would loop, or print and free a key twice.          *)
(***************************************************************************)
Acyclic == \A k \in Allocated : \A r \in Refs(k) : k < r /\ r <= nkeys

Slots(r) == {s \in Allocated \X Ids : has_subkey(s[1], s[2]) = r}
Cells(r) == {s \in Allocated \X (0 .. MaxArray - 1) : keys[s[1]].arr[s[2]] = r}

OneParent ==
    /\ \A r \in Allocated \ {Root} :
          Cardinality(Slots(r)) + Cardinality(Cells(r)) <= 1
    /\ \A n \in 1 .. Len(open) :
          Slots(open[n].keys) = {} /\ Cells(open[n].keys) = {}

TreeShaped == Acyclic /\ OneParent

(***************************************************************************)
(* add_subkey dereferences key->value->arr[ key->idx ]->data of an array   *)
(* table without a test.  Whenever a statement can walk into one it has    *)
(* its array and a latest table, which is no array table itself, and no    *)
(* subkeys of its own that would be found before those of that table.      *)
(***************************************************************************)
ArrayTablesReady ==
    \A k \in Allocated : keys[k].type = "ARRAYTABLE" =>
        /\ \/ keys[k].idx >= 0
           \/ at = k /\ mode \in Stopped \cup {"element"}
        /\ keys[k].idx >= 0 => keys[k].value = "array"
        /\ UsedIds(k) = {}
        /\ \A i \in 0 .. keys[k].idx :
              /\ keys[k].arr[i] # NULL
              /\ keys[keys[k].arr[i]].type # "ARRAYTABLE"

(***************************************************************************)
(* The key a value is about to be stored in is new: a leaf without a value *)
(* and without subkeys.  This holds for the key of every inline table that *)
(* is still open, however the tables inside it are nested, which is why    *)
(* parse_keyval may unlock it as a KEY when the inline table is closed.    *)
(***************************************************************************)
Fresh(k) == /\ keys[k].type = "KEYLEAF"
            /\ keys[k].value = "none"
            /\ UsedIds(k) = {}

LeavesFresh == /\ mode = "value" => Fresh(at)
               /\ \A n \in 1 .. Len(open) : Fresh(open[n].key)

(***************************************************************************)
(* Adding the pairs of a closed inline table to its key never fails, so    *)
(* the error paths after that add_subkey (parse_keys.c:373 and             *)
(* parse_values.c:674) are never taken, and no map outgrows its limit.     *)
(***************************************************************************)
InlineMerges ==
    /\ mode = "inline" => ~Clash /\ ~TooMany
    /\ \A k \in Allocated : Cardinality(UsedIds(k)) <= MaxSubkeys

(***************************************************************************)
(* toml_json_dump prints the value of a key that has one and its subkeys   *)
(* otherwise: no key has both, or the subkeys would be lost.               *)
(***************************************************************************)
ValueOrSubkeys ==
    \A k \in Allocated : keys[k].value # "none" => UsedIds(k) = {}
=============================================================================
