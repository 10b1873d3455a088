# A formal model of tomlibc

tomlibc parses a TOML document into a tree of keys. It is sequential C code:
`toml_load` reads the file into a buffer and a set of mutually recursive
functions reads the buffer through a tokenizer and builds the tree as it goes.
Nothing runs concurrently and nothing is persisted. What makes it hard is

* the **tokenizer**, which can look ahead and go back, with cached characters,
  a cached newline flag and cached line lengths that must survive both;
* the **order of statements**: whether a definition is legal depends on every
  definition before it, through five key types, arrays of tables that redirect
  to their latest element, and inline tables that are built in a container of
  their own and merged afterwards;
* the **nesting** of arrays, inline tables, comments and line ends, each read by
  a function that leaves the tokenizer at a place the caller depends on;
* the **limits**: every buffer and array has a fixed size, tested before or
  after the element is stored;
* **escapes and closing quotes**, which are recognised by reading on and giving
  back;
* **numbers and dates**, which are told apart by looking at the third and the
  fifth character, and converted by `strtod`, `strtoul`, `sscanf` and `log10`,
  each of which accepts more than TOML does;
* the **error paths**: a failure runs through nested calls, each of which deletes
  what it has allocated itself.

This directory holds TLA+ modules for these parts, TLC configurations that check
them on small instances, and TLAPS proofs about the tokenizer, the tree of keys and the
rules it obeys, `toml_load`, which builds it, what it accepts, and the memory that
failures free.

## Inventory

| part | source | state | operations | interacts with |
|---|---|---|---|---|
| tokenizer | `parser/lib/tokenizer.c` | buffer, cursor, `token`, `prev`, `prev_prev`, `has_token`, `newline`, `line`, `col`, `lines[]` | `load_input`, `next_token`, `backtrack`, getters | passed to every parser function; all positions are its cursor |
| document structure | `tomlib.c` (`toml_load`), `parser/parse_keys.c`, `parser/parse_values.c` | the call stack and the locals of each function (`expecting`, `idx`, `sep`, `first`, `len`) | `parse_keyval`, `parse_key`, `parse_table`, `parse_arraytable`, `parse_barekey`, `parse_value`, `parse_array`, `parse_inlinetable`, `parse_comment`, `parse_whitespace`, `parse_newline` | reads the tokenizer, builds the tree |
| strings, quoted keys | `parse_values.c`, `parse_keys.c` | the buffer `value`/`id` and `idx`, escape bytes | `parse_basicstring`, `parse_literalstring`, `parse_escape`, `parse_unicode`, `parse_basicquotedkey`, `parse_literalquotedkey` | called by `parse_value` and the key functions |
| tree of keys | `parser/lib/key.c`, `parser/lib/value.c`, and the calls in `parse_keys.c`/`parse_values.c` | a heap of `toml_key_t`: type, map of subkeys, value, `arr`, `idx` | `new_key`, `has_subkey`, `add_subkey`, `compatible_keys`, `new_inline_table`, array tables | driven by the statements; read by accessors and dump |
| numbers, booleans | `parse_values.c` | the buffer `value`, `struct number` (type, precision, scientific) | `parse_number`, `parse_base_uint`, `parse_boolean`, `parse_inf_nan`, `new_number` | look behind with `prev_prev`; `parse_value` looks ahead to tell them from dates; the caller chooses the characters that end them (`num_end`) |
| dates and times | `parse_values.c`, `parse_utils.c` | the buffer `value`, `spaces`, the fields of `struct tm` | `parse_datetime`, `is_date`, `is_validdatetime` | as numbers |
| memory | `key.c`, `value.c`, `tomlib.c`, error paths of `parse_values.c` | the heap of keys and values, and which call holds what | `delete_key`, `delete_value`, `toml_free` | everything that fails |
| accessors, JSON dump | `tomlib.c` | none | `toml_get_*`, `toml_json_dump`, `toml_key_dump`, `toml_value_dump` | read the finished tree |
| khash, programs, scripts | `parser/lib/khash.h`, `main.c`, `tests/` | | | vendored or drivers |

What makes each part correct:

* tokenizer: a lookahead that fails leaves no trace, whatever it crossed (a line
  end, the end of the input); the cached fields agree with the buffer wherever a
  parser reads them.
* document structure: accepted inputs are documents, documents are accepted
  unless a named limit applies, each input is read once and parsing ends.
* strings: the bytes returned are what the notation means, in UTF-8, and exactly
  the string has been consumed.
* tree of keys: a definition is accepted exactly if TOML allows it after the
  ones before it; no value is lost, hidden or shared; closed inline tables and
  earlier elements of arrays are sealed; no pointer is followed that is not there.
* numbers and dates: the value is the number or date written, and the literal has
  been read to its end, no further.
* memory: nothing is freed twice or while a call still uses it, and what a failed
  call leaves behind is freed or belongs to somebody.
* accessors and dump: every key of the tree is found under its path, and the dump
  is JSON that says what the tree says.

The hazards behind these properties are listed, each with its line, in
`PROJECT.json`.

## Modules

```
Tokenizer ------ Lookahead ------------------- MCLookahead
    |                 +-- LookaheadProofs (TokenizerProofs)
    +--- TokenizerProofs
    |
    +--- Parsing --+-- Document (TomlSyntax) -- MCDocument
                   +-- Strings (StringSyntax) - MCStrings
                   |      +-- StringsProofs (TokenizerProofs)
                   +-- Literals (LiteralSyntax) MCLiterals

KeyTree ---- KeyTreeRules (refines TomlRules) - KeyTreeUse ---- MCKeyTree
                                |                  |
                                |                  +-- KeyTreeProofs
                                +-- TomlRulesProofs -----'

Document + KeyTreeUse ---- TomlLoad (TomlMeaning) ------------ MCTomlLoad
                               +-- TomlLoadProofs (TokenizerProofs, KeyTreeProofs)

Memory ---- MemoryProofs

Induction: used by TokenizerProofs, KeyTreeProofs, TomlRulesProofs and MemoryProofs
```

**Tokenizer** has no behaviour: it is the struct as a record and `next_token`
and `backtrack` as operators on it, field by field, so that every module that
reads an input uses the same code. `backtrack` goes `count + 2` characters back,
walks `line`/`col` back with the table of line lengths, and reads twice. It
refuses silently when there are not two characters in front. A read of
`lines[]` outside the table yields an arbitrary value (`stray`).

**Lookahead** is the tokenizer under all the ways parsers use it: `Read`;
`Start` and `Further` of a lookahead, which adds up what `next_token` returned;
then `Accept` or `GiveBack`. The depths are those of the callers: one character
behind a `\r` or an escape, two behind a quote or the start of a number, four
for a date.

**Parsing** lets the input be chosen letter by letter as it is read (`Reads`),
so that inputs which are rejected early are not enumerated to their end, and
holds `parse_newline`, which every loop calls. A *scenario* is how an input
starts and which letters may follow; `MaxLen` bounds how many follow.

**Document** is the parser's control. `stack` is the C call stack: a frame is a
function with the locals that matter, and one action is one turn of the loop of
the innermost function (`BareKeyStep`, `KeyStep`, `TableStep`, `ValueStep`,
`LookaheadStep`, `NumberStep`, `ArrayStep`, `InlineStep`, `WhitespaceStep`,
`CommentStep`; `Statement` and `Finish` are `toml_load`'s loop). A failure ends
the run, since every caller gives up when its callee does. Letters are character
classes. **TomlSyntax** says what a document is, as an automaton that knows
nothing of lookaheads, frames or limits.

**Strings** runs from the opening quote to the first character behind the
string. `at` names the loop: `open` and `string` are `parse_value`'s
branches and the string functions, `closing` and `fold` the loops behind a
closing quote of a key and behind a backslash, `escape` and `unicode` are
`parse_escape` and `parse_unicode`. `value` is the buffer, byte by byte.
**StringSyntax** is the reference: an automaton from the text to the Unicode
scalar values it means, and UTF-8 by the table of RFC 3629.

**Literals** runs from the first character of a number, boolean, date or time to
the first one behind it. `Start` is the lookahead of `parse_value` that decides
between `number` and `date`; `NumberEnds`, `Zero`, `Join`, `SignedWord`, `Stray`
and `OtherCharacter` are the branches of `parse_number`, `parse_base_uint` and
`BaseEnds` those of the other bases, `parse_datetime` and `DateEnds` the loop of
a date and its end, where the nine `Formats` are tried in their order. The
library functions are modelled as the code uses them: `Strtod` (is all of the
text used up, and which number is it), `Strtoul` (what it skips, saturation),
`sscanf` (a format is a sequence of conversions with widths; `%d` reads white
space and a sign), `Length10` for the `log10` of the fraction. A double is an
exact decimal `<<"finite", sign, m, e>>`, rounded where an integer has more bits
than `MaxExact`. A scenario also says where the value stands, because `num_end`
depends on it. `toml_get_int`, `toml_get_bool` and `toml_value_dump` are what a
program gets of the result. **LiteralSyntax** is the reference: an automaton for
numbers, a list of words, and the forms of RFC 3339 with their meaning.

**KeyTree** is the heap: a pointer is an index into `keys`, 0 is NULL, a khash
map is a function from identifiers to pointers. `mode` is the function that
waits for the next segment; `StartKey`/`StartTable` begin a statement;
`Descend`, `Redefine`, `Create` and `Overflow` are `add_subkey` with the
segment that comes next, each for the outcome it has; `NewElement` and
`ArrayOverflow` are what `parse_keyval` does for `[[t]]`; `SetValue`,
`OpenInline`, `InlineKey` and `CloseInline` store values, the last being
`new_inline_table` and the merge its caller does. `Invalid` stands for a syntax
error at any point. **TomlRules** states which path may be defined again, over a
map from paths to kinds, without keys, pointers or containers;
**KeyTreeRules** gives the refinement mapping and checks `Rules!Spec` as a
property of `KeyTree!Spec`.

**KeyTreeUse** is what a program does with the finished tree: `toml_get_key` from
key to key, and the dump as a sequence of tokens (braces, brackets, commas,
identifiers, values) in the order of the code's loops, with a reader of JSON to
read it back.

**TomlLoad** is `toml_load` as a whole. It extends `Document`, instantiates
`KeyTreeUse`, and joins each step of a function that reads with the step on the
tree that the code takes there: where `parse_barekey` returns, `add_subkey`
takes its identifier, cut out of the text (`LoadSegment`); `]]` makes a new
element (`LoadTable`); a number or an array is stored in its key; the braces of
an inline table open and close it. `Segment`'s choice of an identifier and
`Invalid`'s of a moment are gone: the text decides. **TomlMeaning** is the
reference: it reads the same text with the automaton of `TomlSyntax`, keeps a map
from paths to kinds by the rules of `TomlRules`, and gives what stands at each
path. It knows no keys, pointers, tokens or lookaheads.

**Memory** is the heap of keys and values again, this time for what is freed.
`stack` holds the calls of `parse_keyval`, `parse_array` and
`parse_inlinetable` that are waiting, with the object each fills; which value
comes next and where the input is malformed is a choice. `Unwind` is one return
of NULL, with what the caller deletes on it: `delete_value` follows the elements
of arrays up to the first NULL, `delete_key` frees a map but not the keys in it.
`log` is what has been freed, in order. Where `delete_value` finds no NULL it
goes on behind the buffer; the model stops there (`undefined`), and the
properties of `memory` say nothing about what follows.

The theorems are in the modules whose names end in **Proofs**: of
`Lookahead` in `LookaheadProofs`, which rests on the lemmas of `TokenizerProofs`
about `next_token` and `backtrack`; of `KeyTree`, `KeyTreeRules` and `KeyTreeUse` in
`KeyTreeProofs`; of `Document` and `TomlLoad` in `TomlLoadProofs`; of `Strings`,
`TomlRules` and `Memory` in the modules named after them. **Induction** holds what they share: induction over
the naturals, downwards induction below a bound, and that a recursive function
that follows a loop in the code ends with what the loop leaves.

Definitions that end in `_late`, `_far`, `_peek` and the like, introduced as
mistakes, are what a bug in the definition that follows might look like. They
are used nowhere; each has been put in the place of the definition once to see
that the property it belongs to notices.

## Runs

| run | checks | shows |
|---|---|---|
| `lookahead` | `TypeOK`, `Coherent`, `PrevPrevFresh`, `NewlineFlag`, `LookaheadUndone` | any mixture of reads and lookaheads leaves the tokenizer where it should be |
| `lookahead_line` | `LineNumberTrue` (violated) | the line of an error is wrong after a backtrack over a line end |
| `keytree` | `TypeOK`, `TreeShaped`, `ArrayTablesReady`, `LeavesFresh`, `InlineMerges`, `ValueOrSubkeys`, `FoundByPath`, `DumpReadsBack`, `ValuesKept` | every sequence of statements builds a tree in which nothing is lost, shared or overwritten, values stay at their paths, `toml_get_key` finds every key and the dump prints all of it |
| `keytree_rules` | `ObeysTomlRules`, `ClosedSealed` | the heap implements the rules about paths |
| `document` | `TypeOK`, `AcceptsOnlyDocuments`, `RejectsOnlyOthers`, `NeverRereads`, `Returns` | what is accepted, what is rejected and why, and that parsing ends |
| `load` | `DumpsWhatIsWritten`, `RefusesOnlyWithCause` | reading and building together: the dump says what the text means, and a definition is refused only with cause |
| `strings` | `TypeOK`, `MeansWhatIsWritten`, `RefusesOnlyOthers`, `StringEnds` | strings mean what is written and end where they end |
| `strings_empty` | `EmptyStringIsValue` (violated) | an empty string must be followed by white space or a line end |
| `literals` | `TypeOK`, `MeansWhatIsWritten`, `RefusesOnlyOthers`, `PrintsWhatWasRead`, `LiteralEnds` | numbers, booleans, dates and times mean what is written and are printed as they were read |
| `literals_getters` | `GettersPointToValue` (violated) | `toml_get_bool` gives false and `toml_get_int` 0 for `true` and 42 |
| `memory` | `TypeOK`, `FreedOnce`, `NothingDangles`, `FailedArraysFreed` | however deep parsing fails, nothing is freed twice or too early, and failed arrays are freed |
| `memory_full` | `DeletesWithinArray` (violated) | an array with as many elements as there is room for is deleted beyond its end |

The violated properties quote what the repository says of itself; the traces
show what the code does instead. The same is in `findings` of `PROJECT.json`.

### Bounds, and why they are enough

* `lookahead`: all inputs of up to 8 characters over a blank, a newline and one
  other character. The deepest lookahead is 4 characters and `backtrack` reaches
  2 further, so 8 leaves room for a lookahead behind another one. The table of
  line lengths has 2 entries, so that inputs with more lines than entries occur;
  `TypeOK` says that no length is stored outside of it.
* `keytree`: 6 keys, 3 identifiers, 2 subkeys per key, arrays of 2. Six keys hold
  an array table with an element and keys in it, or an inline table in an inline
  table, with a dotted key beside; 3 identifiers and 2 subkeys overflow the maps,
  arrays of 2 overflow with their third element.
  `keytree_rules` has 5 keys and 2 identifiers, because a path is computed for
  every key in every state. A pair of statements clashes on one path, and the
  rules compare two types, so that longer histories add no new case.
* `document`: 9 scenarios, from an empty file, a header, a finished pair, and in
  arrays and inline tables two levels deep, each continued by up to 5 letters out
  of those that matter there. Identifiers of 3 and arrays of 2 fill up. The
  reference is compared at every prefix, so a document that needs more letters
  to end is still compared as far as it goes.
* `load`: 18 scenarios, from an empty file, behind keys, dotted keys, headers,
  headers of one or two elements of an array of tables, in an inline table, in one
  in it, behind one and in an array, each continued by up to 8 letters of those
  that may clash with what is there. Paths are up to four long, inline tables two
  deep; tables of more than 2 subkeys, arrays of tables of more than 2 elements,
  and redefinitions of every kind, inside inline tables too, occur. Nine keys are
  never all allocated (a step that wanted a tenth would be a deadlock, which this
  run checks for).
* `strings`: 14 scenarios for each notation as a value and as a key, in the
  middle of `\u` and `\U` escapes at the boundaries of UTF-8's lengths and of the
  surrogates, with 5 letters behind. A value of 4 bytes and an identifier of 3
  are filled by plain characters, by the bytes of one escape and by the quotes in
  front of closing quotes, with and without a byte left for the `\0` (two
  scenarios have two bytes stored, so that the five letters can be five quotes). What does not fit fails with `Full`,
  as in the code. `new_string` copies up to the first `\0`, which is in the buffer
  or behind it: `Behind` has the two cases, a `\0` at once or another byte first.

* `literals`: 38 scenarios, from the start of a number in every notation, of every
  word and of every form of date and time, at the top, in an array and in an
  inline table, each continued by up to 5 letters. The values are tested at the
  ends of their ranges (23:5?, 24:, February of 1900, 2000, 2020 and 2021, offsets
  of 23: and 24:). A buffer of 28 holds every date but is filled by zeros;
  `MaxUlong` 255 and `MaxExact` 32 are passed by three digits of base 16, so that
  saturation and rounding occur.
* `memory`: 12 keys and values, arrays of 2. Twelve objects hold an array with an
  inline table with an array in it, or three nested arrays with elements, next to
  a pair that is finished, and every one of the calls may fail at every point.
  `memory_full` has 6, which are enough for a full array.

Besides, the behaviours of `KeyTree`, `Document`, `Strings` and `Literals` have been compared
with the program, compiled with its limits lowered to these bounds, by running it
on the texts that the behaviours stand for. On 38,165 histories of `KeyTree` (all
those with 5 keys and 2 identifiers) the outcome and the tree that
`toml_json_dump` prints were the same; on 33,541 documents the outcome; on 39,732
strings the outcome, the final cursor and the bytes; on 69,293 literals the
outcome, the final cursor, the type and the value. The violation of `memory_full`
has been seen with an address sanitizer, that of `literals_getters` by a call.

### Exceptions the properties name

`AcceptsOnlyDocuments` allows a header behind another statement on its line
(`a=1 [b]`), and `LostReturn`: a lone `\r` among the first two characters is
swallowed since `backtrack` cannot go back that far.
`RejectsOnlyOthers` names `EndsInComment`, `FirstLineIndented`, `TooLong` (an
array or identifier of exactly the maximum is rejected, since room is tested
before the end), and `NumberThen`: a number is not ended by a tab or by `\r\n`.

In `Strings`, `MeansWhatIsWritten` names `OtherLength` (`\u` with eight digits
and `\U` with four are accepted), `FoldedEscape` (an escape that is no character
is taken for a backslash at the end of a line when white space with a line end
follows), `BareReturn` (kept in multi-line basic strings), the escape for U+0000,
which ends the C string, and it lets any number of leading line ends be dropped.
It also names `FilledByQuotes`: the second of two quotes in front of the closing
ones is stored without a test and can take the last byte of the buffer. Then no
`\0` is left in it, and the copy that `new_string` makes goes on with whatever
lies behind; only the bytes of the buffer are what the string means. In every
other case what lies behind the buffer does not matter.
`RefusesOnlyOthers` names `EmptyString`, `DigitFollows` (`"\u00e9a"`: the
digit behind the escape is read as part of it) and `Full`.

In `Literals`, `MeansWhatIsWritten` names what is accepted though it is no TOML:
`ZerosInFront` (`00.5`, `-00`), `SkippedByStrtoul` (`0x-1`), `SecondPrefix`
(`0x0x1`), `Ixnan` (`i`, two letters, `nan`: the second test of `parse_inf_nan`
follows the first) and `FieldStart` (a sign or white space at the start of a
field of a date); and what a literal loses: `TooExact` (integers beyond 2^53),
`MoreThanMillis` (the fraction of a second is kept as the number it is, so that
`.1234` is 1234 milliseconds) and `OffsetMinutes` (the minutes of an offset are
added to its seconds: `+01:30` is 3630 seconds, not 5400).
A number that just fills the buffer when the input ends (`Overread`) leaves the loop of
`parse_number` without the test of its length, and `strtod` reads on behind the
buffer. What lies there decides whether the number is accepted: the model has
both outcomes, `TypeOK` excepts it from the rule that what is returned had a byte left
for its `\0`, and `RefusesOnlyOthers` from its promise. If it is accepted,
`strtod` has stopped where the number ends, and `MeansWhatIsWritten` holds.
`RefusesOnlyOthers` names `Lookalike` (`[100,-1]`: four characters behind the
first one a `-` stands, and a date is expected), `StrangeEnd` (a tab or `\r` does
not end a number), `AtEnd` (nor does the end of the input end a date or a number
of another base), `LocalAndBlank` (a local date and time in front of a blank),
`ZeroFraction` (a fraction of a second that starts with a zero), `LeapSecond`,
`TooLong` (as many characters as the buffer holds, with more behind them) and
`Overread`. `PrintsWhatWasRead` excepts numbers with an exponent and more than six
digits, of which the dump prints six.

`FoundByPath` says exactly which paths lead nowhere: those on which an identifier
follows itself, the name of the root included, since `toml_get_key` returns the
key it starts from when that has the identifier asked for.

### What the code does besides

Facts met on the way that are not runs of their own: a comment without a line end
behind it is an error, because the `\0` that stands for the end of the input
is a control character (src/parser/parse_values.c:699, `EndsInComment`), though
README.md:4 of the repository promises TOML v1.0.0, where a comment may end the
file; the third of the cached
characters is stale behind `backtrack` (src/parser/lib/tokenizer.c:74; no caller
reads it there, which is `PrevPrevFresh`); an indented key in the first line is
rejected (`FirstLineIndented`); `value->len` of an array of tables stays 0, its
length is `idx + 1` of the key; `toml_free` and every error path free the map of
a key but not the keys in it, unlike the comment at src/parser/lib/key.h:17 says.
That is a leak, but also the reason for `FreedOnce`: keys of an inline table are
in the maps of two containers. Two buffers are read beyond their end: that of a
multi-line string filled by its last quotes (src/parser/parse_values.c:39 and 130,
read by `strlen` at src/parser/lib/value.c:12) and that of a number that fills it as the
input ends (src/parser/parse_values.c:1033). They are the exceptions `FilledByQuotes`
and `Overread` above.

### Fairness

`Document`, `Strings` and `Literals` have weak fairness of `Next`: the program is
sequential and keeps executing. It is used by `Returns`, `StringEnds` and
`LiteralEnds` only. Nothing is
assumed about which letter comes next.

## Proofs

The theorems hold for every set of characters, identifiers and values, and for
every size of the inputs, heaps, maps and arrays. They assume what the modules
assume of their constants: limits are positive, the tree's `"none"` and `"array"`
are no values, the end of the input is no character of it. Two have a hypothesis besides:
`NewlineFlagRight` that no byte of the input is NUL, which TOML does not allow, and
`KeysFound` that no identifier is one of the indices of an array, which holds since
the one is a string and the other a number.

| module | theorem | property |
|---|---|---|
| `LookaheadProofs` | `LookaheadTyped` | `TypeOK` |
| | `TokenizerCoherent` | `Coherent` |
| | `PrevPrevRight` | `PrevPrevFresh` |
| | `FailedLookaheadUndone` | `LookaheadUndone` |
| | `NewlineFlagRight` | `NewlineFlag` |
| `KeyTreeProofs` | `TypeCorrect` | `TypeOK` |
| | `PointersForward` | `Acyclic`, the first half of `TreeShaped` |
| | `ArrayTablesSafe` | `ArrayTablesReady` |
| | `InlineKeysFresh` | `LeavesFresh` |
| | `NothingHidden` | `ValueOrSubkeys` |
| | `NoRedefinition` | `ValuesKept` |
| | `TreeStaysTree` | `TreeShaped` |
| | `MergesNeverFail` | `InlineMerges` |
| | `KeyTreeObeysTomlRules` | `ObeysTomlRules`, the refinement |
| | `KeyTreeSealed` | `ClosedSealed` of the heap |
| | `KeysFound` | `FoundByPath` |
| | `DumpComplete` | `DumpReadsBack` |
| `TomlRulesProofs` | `RulesSealClosed` | `ClosedSealed` of `TomlRules` |
| `MemoryProofs` | `MemoryTyped` | `TypeOK` |
| | `NothingFreedTwice` | `FreedOnce` |
| | `NothingInUseFreed` | `NothingDangles` |
| | `ArraysOfFailuresFreed` | `FailedArraysFreed` |
| `TomlLoadProofs` | `LoadBuildsTree` | `LoadSpec => Tree!Spec` |
| | `LoadKeepsTree`, `LoadObeysRules`, `LoadedKeysFound`, `LoadedTreeDumps` | the above, of `toml_load` |
| | `ReadingTyped` | `TypeOK` of `Document` |
| | `ReadingAdvances` | `NeverRereads` |
| | `LoadReadsOn` | both, of `LoadSpec` |
| | `OnlyDocumentsRead` | `AcceptsOnlyDocuments` |
| | `OnlyDocumentsLoaded` | the same, of `LoadSpec` |
| | `OnlyOthersRejected` | `RejectsOnlyOthers` |
| `StringsProofs` | `StringsTyped` | `TypeOK` |

### The tokenizer

`BacktracksTo` says what `backtrack` leaves: the tokenizer that has read up to the
character given back, but for `prev_prev` and the flag. It follows from `MovedType`
(the line lengths walked back over keep the record's types, whatever `stray` is)
and from two `ReadsOn`, which also shows that a line length is stored inside the
table or not at all. The properties then rest on `IInv`, with two
parts that no property states: `FreshInv`, that nothing read means `token` is NUL,
which the first `prev` of a coherent tokenizer needs; and `AheadInv`, that a
lookahead has moved the cursor by as much as it will give back, even if it ran
into the end, where `next_token` returns nothing. `FlagInv` is why `NewlineFlag`
holds: behind a backtrack the flag may be wrong, but only on a character that is
not blank, and the next read clears it. Here NUL matters: `next_token` tests `prev`
for being there by its value.

### The tree of keys

The first four theorems of `KeyTreeProofs` rest on one inductive invariant, `IInv`.
None is inductive alone.
`ArrayTablesReady` needs that the elements of array tables are of type `KEY`
(`ElementsPlain`), so that `add_subkey`, redirected to one, is not redirected
again; that `at` is never a leaf while a statement walks (`Somewhere`), so that
nothing is stored in a leaf; and that pointers lead to allocated keys.
`LeavesFresh` needs that open inline tables are nested (`Nested`): the key of each
is older than its container, which is older than every key inside, so that no
step on the innermost one, whose keys are new, reaches a key outside; acyclicity
then keeps them apart. Each action has its lemma (`DescendStep`, `CreateStep`,
`NewElementStep`, `SetValueStep`, `OpenInlineStep`, `CloseInlineStep`,
`QuietSteps` for those that leave the heap alone), and `Grown` says once what
allocating a key does.

`NothingHidden` and `NoRedefinition` rest on `Valued` on top of `IInv`: only leaves and array tables have
a value, and a key that has one has no subkeys. `StepKeeps` shows that a step
leaves a key's value alone or gives one to an empty leaf (or to an array table,
which then keeps it). That the value stays in the tree, too, is shown with the
paths below.

`TreeStaysTree` and `MergesNeverFail` rest on `ShapeInv`, again on top of `IInv`.
Its first half, `Unshared`, says that equal pointers are the same pointer and
that none leads to the container of an open inline table; a cardinality of
pointers, which is how `OneParent` states it, would not carry over a step.
`StillUnshared` is the argument for the actions that allocate: a step may drop
pointers and write the new key to at most one place. `CloseInlineShape` is the one
that moves pointers: the pairs leave a container whose map is emptied for a key
that, by `LeavesFresh`, has none of its own. The second half, `Bounded`, is that
every map is finite and within `MaxSubkeys`: `add_subkey` tests it before it
stores, and a container that holds its pairs within the limit fits into an empty
key.

### Paths

That `KeyTree` implements `TomlRules` means that every step maps to one the rules
allow, and the map goes through `Nodes`, a recursion over the heap. Two things make
it possible to reason about it. `Nodes` is the only set of nodes `Planted` for the
pointers (`OneTree`): it has the root, and another node if and only if it is
right below one of its nodes. So no proof about a step unfolds the recursion: it
builds the nodes after the step from those before, and shows that they are
planted. And `Charted` says once what follows from the keys being a tree: no two
nodes have the same key or the same path, and so the map from paths to kinds is a
function of the keys. `HeapInv` strengthens the invariants above for
this (only array tables have elements, keys not allocated lead nowhere, each open
inline table has a container of its own), and `Attached` says that the statement
and the open inline tables are in the tree, so that `base`, `at` and `open` of the
rules are paths. There is a lemma for each action, which names the step of
`TomlRules` it maps to, and `RulesStep` puts them together. `CloseInline` is the
hard one: the pairs change the container they hang from, and no path changes.

The same lemmas say of each action that every key in the tree stays at its path
(`PathsStay`). `NoRedefinition` needs besides that a key with a value is in the tree
(`Reached`): it gets its value while the statement stands at it, and `Attached` says
that this place is in the tree.

`ClosedSealed` is proved of the rules, where it needs no heap: `SealInv` says that
the places at which something may be defined next are not below anything closed,
that an array has its tables numbered without a gap, and that open inline tables
contain one another. `KeyTreeSealed` carries it over.

`KeysFound` needs that a loaded tree has no inline table open (`Outside`), and an
induction on paths: `toml_get_key` from key to key leads to the key of the path
(`Leads`), or, where an identifier follows itself, to one nearer to the root than
the path says; a path is found by exactly the identifiers on it.

### The dump

`DumpComplete` is about two loops that have no state in common: one writes tokens
from the keys, the other reads them and knows no keys. What joins them is `Tells`:
a text tells a node if the reader, wherever it stands at the node's path inside
whatever brackets, having found whatever it likes elsewhere (`Unread`), is at the
same path with the same brackets open behind the text and has found what is at the
node and below it (`Below`) besides, and nothing else. `AllTell` shows by downwards
induction over the keys, whose pointers lead to later keys, that each prints a text
that tells it: `LeafTells` for values, `BracesTell` for keys with subkeys and
`TablesTell` for arrays of tables. These two go over the loop in the order of the
hash map or of the indices; `ListRead` follows reader and writer from text to text
(`ReadInTurn`), with the comma behind each but the last, and `Gathered` shows that
at every turn the child to come has not been read and that at the end nothing is
missing, because the children of a node have different paths (`Gathers`) and all
that is below a node is below one of them (`BelowChild`). `PrintedIs` is what makes
the recursion of `Printed` one: what a key prints depends on later keys only
(`DumpDepends`). An array of tables without a table, on which the loop would not
end, is excluded by `ArrayTablesReady`, and a key with a value and subkeys, of which
only the value would be printed, by `ValueOrSubkeys`.

### toml_load

`TomlLoadProofs` carries all this over to the program that reads text.
`LoadBuildsTree` is `LoadSpec => Tree!Spec`: whatever step the reading functions
take, and with whatever the tree does along with it, the tree takes one of its
own steps or none (`StepBuilds`, action by action). `LoadKeepsTree`,
`LoadObeysRules`, `LoadedKeysFound` and `LoadedTreeDumps` conclude that `TreeShaped`,
`InlineMerges`, `ValueOrSubkeys`, `ValuesKept`, `ObeysTomlRules`, `ClosedSealed`,
`FoundByPath` and `DumpReadsBack` hold of `LoadSpec`, for texts of any length; the lemmas called `Same...` identify
the instance of the tree that `TomlLoad` uses with the one that has the theorems.

About the reading it shows `TypeOK` and `NeverRereads` of `Document`, and of
`LoadSpec`, where the tree may make a function give up besides. `NeverRereads` says
that the `backtrack` of `parse_value` goes back to exactly where the value starts.
But `backtrack` silently refuses when fewer than two characters stand in front of
the place it would go to, and at the beginning of the text it does (see
`LostReturn`). So the invariant, `ReadInv`, has to know how much has been read:
`Placed` says that a value has two characters in front of it, since the key above
it on the stack has read at least one of its own and a `=` follows; it counts what
`parse_key` and `parse_barekey` have read on the way there. `Framed` says that a
lookahead is never below another function, and that it has read on since it
started. `Sound`, in `TokenizerProofs`, relates the tokenizer to the buffer: `token`
is the character before the cursor, and the sentinel comes last. The actions have
one lemma each, named `...Onward`; `LookaheadReturns` is the one that goes back.

### What is accepted

`OnlyDocumentsRead` compares two programs that share nothing but the text: the
functions with their stack, and the automaton of `TomlSyntax`, whose stack is that
of the brackets. `OnlyDocumentsLoaded` is the same of `LoadSpec`, where a refusal of
the tree can only make the outcome `failed`. `Run` is a recursive function of the
text; `RunIs` is its recursion, and `RunOn` that one more letter is one more `Move`.
`Conf` is the configuration of the automaton over what the tokenizer has read,
without the character under the cursor. `AgreeInv` says that in all states but the
two below the stack and `Conf` agree: `Agrees`, with one disjunct for each function
that may be innermost, says what of the configuration follows from its locals, and
`Encloses` that the functions below it are those of the arrays and inline tables
the automaton is in, level by level, with the same `sep`, and with `len` and
`first` as its `size`. Two things make this less than a bisimulation:

* The automaton sees that a number is over one letter later than `parse_value`, which
  has returned by then. `Settled` is the configuration with the number finished,
  and `Quiet` that the next letter will finish it.
* A value that starts with a digit is read twice. `Lookahead_agrees` says nothing of
  what the lookahead has read; it says that the functions agreed with the automaton at
  the place it started from, to which the `backtrack` returns (`LookaheadReturns`).

The two exceptions have to do with a `\r` that `parse_newline` gives back because no
`\n` follows. Near the start of the text `backtrack` refuses, and the character is lost
(`LostAt`, from which `LostReturn` follows). Elsewhere the functions that skip white
space and line ends can return with a `\r` under the cursor where a value or key is to
start; the automaton is in error, and the functions still run (`Doomed`), but they
fail with the next step (`DoomedLands`).

`AgreeKept` shows `AgreeInv` of a step from one lemma per action, `...Lands`: the
step ends in the result `failed`, or stack and tokenizer agree again, or are one
of the exceptions. Most of a step is `LetterConsumed` (what is read is what the
automaton takes) and a `Move...` lemma for the phase it is in. `OnlyFinishAccepts`
and `FinishAccepts` are about the last step: the result `ok` comes from an empty stack
with all of the text read, where the automaton may end. Before it was proved,
`AgreeInv`, with an executable form of `Encloses`, was checked by TLC on all texts of up
to 6 letters (506,021 states).

### What is rejected

`OnlyOthersRejected` is the converse: when `toml_load` gives up, what it has read so far
is no beginning of a document, or one of the exceptions of `RejectsOnlyOthers`. The
automaton is the strict one here, in which a header needs a line of its own; it
moves like the lenient one until it is in error (`MoveStrict`, `StrictIs`), and an
error stays (`ErrorStays`). `Cause` of a text is that some prefix of it is in error, or
is one of the exceptions that speak of the text alone; once there, it is not
lost by reading on (`CauseKept`). `RejectInv` says that a run goes on with a
cause or with `AgreeInv` and `Exact`, and that it has failed with a cause or with a
full buffer (`TooLong`).

`AgreeInv` alone says what the functions have done, not that they had to. `Exact` adds
what they know of the character they look at: that `parse_key`, `parse_table` and
`parse_barekey` are called only where a key starts (`Opening`), that `parse_value` is
not called in front of a separator, a bracket that closes, or a comment, that a
number that goes on follows a digit, and that `toml_load` can tell from `prev`
and `newline` that a line starts (`LineStarts`). The last has a gap, which is the
exception `FirstLineIndented`: nothing sets `newline` before the first line end.

Each `...Exact` lemma shows of one action that it keeps `Exact`, or fails where a buffer is
full (`Pays`). The branches that fail are shown to be out of reach without a cause: the
`...Misses` lemmas list the characters at which the automaton is in error in each
phase, and whatever a branch of the code does not take is among them. A lone `\r`
needs no exception, as it is a cause by itself (`LoneCause`, `NotNewlineStays`).
`CauseRejects` leads back from a cause to the property. `RejectInv` too was
checked by TLC first, on all texts of up to 6 letters.

### Strings

`StringInv` is `TypeOK`, that the tokenizer is `Sound`, and that only values of
`parse_value` have more than one line, never a key; so the limit of the string that
closes with quotes of its own (`CloseLines`, which stores up to two bytes in one
step and tests for each) is `MaxString`, not `MaxIdLength`. All other actions
store one byte behind a test of `Full`, or the bytes of an escape, of which
`Stored` cuts off what does not fit (`StoredSteps`). That what is stored are bytes
needs that the end of the input is not a character that can be stored: it is NUL
to the parsers, and NUL is a control character (`PlainSteps`). For escapes it is
`EncodedBytes`: the remainders keep every part of an encoding below 256.

### Memory

The invariant is `MemInv`. `Pointers`: they lead to later objects of the right
kind, and an array has as many elements as its length says, all others NULL;
`delete_value` therefore stops at the end of what it is given, unless the array is
full (`undefined`, see `memory_full`). `Unshared`: only keys have two pointers to
them (the maps of the two containers of an inline table), never a value or a pseudo
key. `Calls`, `Waiting` and `Returned`: what the running calls hold is theirs, no
pointer leads to it, and inner calls hold later objects. `Released`: what has been
freed has no owner that has not been, and no call holds it. `Owned`: every value
has somebody who will free it. None is inductive alone: that a call frees nothing
twice needs that what it frees is loose, that needs that nothing points into it
from elsewhere, and that is an invariant of calls that have not failed.

What `delete_value` frees is a recursive function over arrays in arrays.
`DeletedIs` unfolds it one level (`ElementsAre`: its loop stops at the first NULL),
and `DeletedFacts` shows by downwards induction over the objects that it frees each
object below once and nothing else. `FreeingReleases` is then the step of
`Unwind`. For steps that only allocate, `PointersGrow` and `Sound` say what a step
may add so that nothing else is to be shown; there is an `...Effect` lemma for each.

### Only model-checked

* Liveness: `Returns`, `StringEnds` and `LiteralEnds`, and with them that
  parsing ends.
* The properties that compare `Strings` and `Literals` with a reference, and of
  `TomlLoad` the two that compare it with its text. They are statements about every
  prefix of every text, with a reference that is defined by recursion on the text,
  and would need for these parsers what `AgreeInv` and `RejectInv` are for `Document`.
* `TypeOK` of `Literals`.

The library's induction theorems have an operator as a parameter, which none of
the provers can instantiate. `Induction` has what the proofs need of them with
sets and functions in its place, from well-foundedness of the naturals.

## Not modelled

* **Formats of the dump**: `string_dump`'s escapes and the `strftime` formats of
  dates. The dump of numbers is in `Literals`, the order of everything else in
  `KeyTreeUse`.
* **Memory of headers and buffers**: what `[t]` and `[[t]]` allocate is never
  freed by anything but the end of the process; `Memory` has none of it. Nor has
  it what the tokenizer, `parse_number` and `parse_datetime` allocate for
  themselves (a malformed number leaks its record, src/parser/parse_values.c:1148
  frees NULL in its place).
* **Fractions of a second with more than nine digits**, where `%d` overflows.
* **The getters but three**: `toml_get_string`, `toml_get_float`,
  `toml_get_datetime` and `toml_get_array` test the type and return a pointer.
* **load_input** reads the file before anything else happens; the model starts
  with the buffer. A byte 0xFF, which it takes for the end, is left out.
* **Arrays in the tree**: an array is one value of `KeyTree`. An inline table in
  an array is a tree of its own below that value, which nothing outside reaches;
  it is built as every other inline table, and a clash in it fails as `Invalid`
  does.
* **khash** is vendored, a function from identifiers to pointers here; `main.c`
  and `tests/` are drivers.
* **The composition** has the bare keys and numbers of `Document`, and no inline
  table in an array. What a string, a number or a date is worth is left to
  `Strings` and `Literals`, which are not composed with it: each is one call that
  returns a value or fails, and touches no key.

## Plan

Done, in this order: `Tokenizer` and `Lookahead`; `KeyTree`, `TomlRules`,
`KeyTreeRules` and `KeyTreeProofs`; `Parsing`, `Document` and `TomlSyntax`;
`Strings` and `StringSyntax`; `Literals` and `LiteralSyntax`; `Memory`;
`KeyTreeUse`; `TomlLoad` and `TomlMeaning`, which put `Document` and `KeyTree`
together; `TomlLoadProofs`; `LookaheadProofs`; `TomlRulesProofs` and
the paths in `KeyTreeProofs`; `MemoryProofs`; `StringsProofs`; the dump in
`KeyTreeProofs`; what is accepted and
what is rejected in `TomlLoadProofs`.

Next:

1. Proofs: `TypeOK` of `Literals`, which bounds its buffer, from the lemmas of
   `TokenizerProofs`, in the way of `StringsProofs`.
2. Headers of tables in `Memory`.
