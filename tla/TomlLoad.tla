------------------------------- MODULE TomlLoad -------------------------------
(***************************************************************************)
(* toml_load as a whole: the functions of Document read the text, and with *)
(* the segments, values and brackets they find build the tree of KeyTree,  *)
(* which toml_json_dump prints.  A step of the one is a step of the other  *)
(* or leaves it alone, and what either cannot go on with ends both.        *)
(*                                                                         *)
(* An inline table in an array has a tree of its own, which this module    *)
(* leaves out: the scenarios have none.                                    *)
(***************************************************************************)
EXTENDS Document, TomlMeaning

CONSTANTS MaxSubkeys,       \* TOML_MAX_SUBKEYS
          MaxKeys           \* bound: how many keys are ever allocated

ASSUME MaxSubkeysAssumption == MaxSubkeys \in Nat \ {0}
ASSUME MaxKeysAssumption    == MaxKeys \in Nat \ {0}

VARIABLES keys, nkeys, mode, active, at, open       \* of KeyTree

tree == <<keys, nkeys, mode, active, at, open>>
load == <<vars, tree>>

Tree == INSTANCE KeyTreeUse WITH Values <- {"number", "list"}

LoadInit == Init /\ Tree!Init

-----------------------------------------------------------------------------
\* What happens to the tree along with a step of the functions that read.
Along(step) == IF result' = "failed" THEN Tree!Invalid ELSE step

\* The step calls a function.
Calls(fn)   == Len(stack') >= Len(stack) /\ stack' # <<>> /\ Head(stack').fn = fn

\* The value that is read belongs to a key, not to an array.
OfKey(below) == below # <<>> /\ Head(below).fn = "whitespace"

\* A mistake: behind a comment or an empty line keys go to the root.
LoadStatement_root ==
    /\ Statement
    /\ Along(CASE Calls("key") -> Tree!StartKey
               [] Calls("table") ->
                     Tree!StartTable
                     /\ mode' = IF Head(stack').double THEN "arraytable" ELSE "table"
               [] OTHER -> active' = 1 /\ UNCHANGED <<keys, nkeys, mode, at, open>>)

LoadStatement ==
    /\ Statement
    /\ Along(CASE Calls("key") -> Tree!StartKey
               [] Calls("table") ->
                     Tree!StartTable
                     /\ mode' = IF Head(stack').double THEN "arraytable" ELSE "table"
               [] OTHER -> UNCHANGED tree)

\* A segment ends: parse_barekey returns a key with its identifier, which
\* add_subkey takes or refuses.
SegmentEnds == /\ Loop("barekey") /\ ~IdFull(f.idx) /\ f.idx > 0
               /\ tok.token \in {".", f.end}
Final == tok.token = f.end
Id    == LET last == Max({i \in 1 .. tok.cursor - 1 : tok.stream[i] \in Bare})
         IN  Name[SubSeq(tok.stream, last - f.idx + 1, last)]

LoadSegment ==
    /\ SegmentEnds
    /\ \E id \in Ids :
          /\ id = Id
          /\ \/ BareKeyStep /\ (Tree!Descend(id, Final) \/ Tree!Create(id, Final))
             \/ Fail(tok)   /\ (Tree!Redefine(id, Final) \/ Tree!Overflow(id))

LoadBareKey == BareKeyStep /\ ~SegmentEnds /\ Along(UNCHANGED tree)

LoadKey == KeyStep /\ Along(UNCHANGED tree)

\* [[table]] is complete when its function returns.
LoadTable ==
    IF Loop("table") /\ f.double /\ tok.token = "]" /\ ~f.expecting
    THEN \/ TableStep /\ Along(Tree!NewElement)
         \/ \E t \in Reads(tok) : /\ t.token = "]"
                                  /\ \E u \in Reads(t) : Fail(u) /\ Tree!ArrayOverflow
    ELSE TableStep /\ Along(UNCHANGED tree)

LoadValue == ValueStep /\ Along(IF Calls("inline") /\ OfKey(Below) THEN Tree!OpenInline
                                ELSE UNCHANGED tree)

LoadLookahead == LookaheadStep /\ UNCHANGED tree

\* parse_number and parse_array return a value.
Stores(v)  == Tree!SetValue /\ keys'[at].value = v
LoadNumber == NumberStep /\ Along(IF stack' = Below /\ OfKey(Below) THEN Stores("number")
                                  ELSE UNCHANGED tree)
LoadArray  == ArrayStep /\ Along(IF stack' = Below /\ OfKey(Below) THEN Stores("list")
                                 ELSE UNCHANGED tree)

LoadInline ==
    IF Loop("inline") /\ tok.token = "}" /\ (f.sep => f.first)
    THEN Tree!CloseInline /\ IF mode' \in Tree!Stopped THEN Fail(tok) ELSE InlineStep
    ELSE InlineStep /\ Along(IF Calls("key") THEN Tree!InlineKey ELSE UNCHANGED tree)

LoadRest == (WhitespaceStep \/ CommentStep) /\ Along(UNCHANGED tree)

LoadFinish == Finish /\ Tree!Finish

LoadStopped == result # "running" /\ UNCHANGED load

LoadNext == \/ LoadStatement \/ LoadSegment \/ LoadBareKey \/ LoadKey \/ LoadTable
            \/ LoadValue \/ LoadLookahead \/ LoadNumber \/ LoadArray \/ LoadInline
            \/ LoadRest \/ LoadFinish \/ LoadStopped

LoadSpec == LoadInit /\ [][LoadNext]_load
-----------------------------------------------------------------------------
(***************************************************************************)
(* What toml_json_dump prints after toml_load is what the text means: the  *)
(* same paths with the same values under them, every table where its       *)
(* header or key has put it.                                               *)
(***************************************************************************)
DumpsWhatIsWritten ==
    result = "ok" =>
        LET meaning == Read(Text)
            dump    == Tree!ReadJson(Tree!toml_json_dump)
        IN  meaning.ok /\ dump.ok /\ dump.found = Contents(meaning)

\* Some table or array of tables has been given more than it may hold.
Within(r, p) == {q \in DOMAIN r.kind : q # <<>> /\ Front(q) = p}
Crowded(r)   == \E p \in DOMAIN r.kind :
                   Cardinality(Within(r, p)) > IF r.kind[p] = "array" THEN MaxArray
                                               ELSE MaxSubkeys

(***************************************************************************)
(* A redefinition is reported only where the text defines something again  *)
(* and its syntax is in order, an overflow only where the text puts more   *)
(* into a table or an array of tables than these may hold.                 *)
(***************************************************************************)
RefusesOnlyWithCause ==
    /\ mode = "redefined" => ~Read(Text).ok /\ Run(Text, TRUE).phase # "error"
    /\ mode = "overflow"  => Crowded(Read(Text))
=============================================================================
