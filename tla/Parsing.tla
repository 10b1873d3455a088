------------------------------ MODULE Parsing ------------------------------
(***************************************************************************)
(* What the functions that read the input share: the tokenizer they pass   *)
(* around, and the reading of an input that is chosen letter by letter as  *)
(* it is read.  (load_input has read all of it before, and nothing but the *)
(* parser looks at it.)                                                    *)
(***************************************************************************)
EXTENDS Tokenizer, SequencesExt

CONSTANTS Scenarios,        \* bound: how an input starts and which letters follow
          MaxLen            \* bound: how many letters follow

ASSUME MaxLenAssumption == MaxLen \in Nat

VARIABLES tok,              \* the tokenizer
          scenario          \* of the input: [start |-> ..., letters |-> ...]

ReadsFrom(t, letters) ==
    {next_token(i) : i \in
        IF t.cursor < Len(t.stream) \/ ~CanRead(t) THEN {t}
        ELSE {[t EXCEPT !.stream = Append(@, c)] :
                 c \in {EOF} \cup IF Len(t.stream) < Len(scenario.start) + MaxLen
                                  THEN letters ELSE {}}}

\* The tokenizers that next_token may leave behind.
Reads(t) == ReadsFrom(t, scenario.letters)

\* The tokenizer after count characters of the start.
Opened(count) ==
    LET opened[i \in 0 .. count] ==
            IF i = 0 THEN [new_tokenizer(<<>>) EXCEPT !.stream = scenario.start]
            ELSE next_token(opened[i - 1])
    IN  opened[count]

\* A mistake: the character that is under the cursor is counted too.
Back_far(t, count) == backtrack(t, count + 1, 0)

\* backtrack reads line lengths for line and col only, which nothing reads
\* here: one stray value stands for all.
Back(t, count) == backtrack(t, count, 0)

is_return(c) == c = "\r"

\* parse_newline: a '\r' is looked behind, and read again if it stands alone.
Newlines(t) ==
    IF is_return(t.token)
    THEN {[found |-> is_newline(r.token),
           tok   |-> IF is_newline(r.token) THEN r ELSE Back(r, Returned(t))] : r \in Reads(t)}
    ELSE {[found |-> is_newline(t.token), tok |-> t]}

NotNewline(t) == {n.tok : n \in {n \in Newlines(t) : ~n.found}}
AtNewline(t)  == {n.tok : n \in {n \in Newlines(t) : n.found}}

AllRead == tok.stream # <<>> /\ Last(tok.stream) = EOF

\* What has been read so far, without the sentinel.
Text == IF AllRead THEN Front(tok.stream) ELSE tok.stream
=============================================================================
