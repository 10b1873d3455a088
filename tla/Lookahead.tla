------------------------------ MODULE Lookahead ------------------------------
(***************************************************************************)
(* The tokenizer under the calls the parsers make.  Between reads a parser *)
(* may look ahead: it counts what its next_token calls return and then     *)
(* either goes on from there (the lookahead matched) or hands the count to *)
(* backtrack.  parse_newline looks one character past a '\r' and the       *)
(* escape handling gives back one character; parse_value looks two or four *)
(* past the start of a number; the multi-line strings look two past a      *)
(* quote and give back one less, so as to keep that quote.                 *)
(*                                                                         *)
(* A lookahead starts on a character that is neither white space nor a     *)
(* newline, which is what is_return, is_numberstart, is_escape and the     *)
(* quote tests select.  parse_newline may be called again on the same '\r' *)
(* and then repeats itself, so a position starts at most one lookahead.    *)
(***************************************************************************)
EXTENDS Tokenizer, FiniteSets

CONSTANTS Char,             \* the characters of the inputs
          MaxLen,           \* bound: the length of the inputs
          Stray             \* what a read outside the lines table may yield

ASSUME CharAssumption     == Char \subseteq STRING /\ EOF \notin Char
ASSUME MaxLenAssumption   == MaxLen \in Nat
ASSUME StrayAssumption    == Stray \subseteq Int /\ Stray # {}

VARIABLES tok,              \* the tokenizer
          asked,            \* next_token calls of the current lookahead, 0: none
          ahead,            \* the sum of what they returned
          mark,             \* where the latest lookahead started (a cursor)
          last              \* the latest call: "next" or "backtrack"

vars == <<tok, asked, ahead, mark, last>>

\* How many characters the parsers look ahead: one past a '\r' or an escape,
\* two past a quote or the start of a number, then two more for a date.
Depths   == {1, 2, 4}
MaxDepth == 4

Texts == UNION {[1 .. n -> Char] : n \in 0 .. MaxLen}

Init == /\ \E text \in Texts : tok = new_tokenizer(text)
        /\ asked = 0 /\ ahead = 0 /\ mark = 0 /\ last = "next"

\* A parser consumes a character.
Read == /\ asked = 0
        /\ tok' = next_token(tok)
        /\ last' = "next"
        /\ UNCHANGED <<asked, ahead, mark>>

\* A parser starts to look ahead, or looks one character further.
Start == /\ asked = 0
         /\ tok.has_token /\ tok.cursor > mark
         /\ ~is_whitespace(tok.token) /\ ~is_newline(tok.token)
         /\ asked' = 1 /\ ahead' = Returned(tok) /\ mark' = tok.cursor
         /\ tok' = next_token(tok)
         /\ last' = "next"

Further == /\ asked \in 1 .. MaxDepth - 1
           /\ asked' = asked + 1 /\ ahead' = ahead + Returned(tok)
           /\ tok' = next_token(tok)
           /\ UNCHANGED <<mark, last>>

\* The lookahead matched: the parser goes on where it has got to.
Accept == /\ asked \in Depths
          /\ asked' = 0 /\ ahead' = 0
          /\ UNCHANGED <<tok, mark, last>>

\* It did not: give back what was read, or all but kept characters of it.
GiveBack(kept) == /\ asked \in Depths
                  /\ kept = 1 => asked = 2
                  /\ \E stray \in Stray :
                        tok' = backtrack(tok, ahead - kept, stray)
                  /\ asked' = 0 /\ ahead' = 0 /\ last' = "backtrack"
                  /\ UNCHANGED mark

Next == Read \/ Start \/ Further \/ Accept \/ \E kept \in {0, 1} : GiveBack(kept)

Spec == Init /\ [][Next]_vars
-----------------------------------------------------------------------------
Size == Len(tok.stream)

\* The character at cursor position p: the p-th one read.
At(p) == tok.stream[p]

(***************************************************************************)
(* The fields of struct tokenizer keep their ranges, and the length of a   *)
(* line is stored inside the table of lines, which an input may outgrow.   *)
(***************************************************************************)
TypeOK ==
    /\ DOMAIN tok = {"stream", "cursor", "token", "prev", "prev_prev",
                     "has_token", "newline", "line", "col", "lines"}
    /\ tok.stream \in Seq(Char \cup {EOF}) /\ Size > 0
    /\ tok.cursor \in 0 .. Size
    /\ {tok.token, tok.prev, tok.prev_prev} \subseteq Char \cup {NUL}
    /\ tok.has_token \in BOOLEAN /\ tok.newline \in BOOLEAN
    /\ tok.line \in Nat /\ tok.col \in Nat
    /\ tok.lines \in [0 .. MaxNumLines - 1 -> Nat]
    /\ asked \in 0 .. MaxDepth /\ ahead \in 0 .. MaxDepth
    /\ mark \in Nat /\ last \in {"next", "backtrack"}

(***************************************************************************)
(* However reads, lookaheads and backtracks are mixed, the tokenizer stays *)
(* on its input: it never reads past the sentinel, has_token says whether  *)
(* the sentinel has been reached, and token and prev are the two           *)
(* characters before the cursor.                                           *)
(***************************************************************************)
Coherent ==
    /\ tok.cursor <= Size
    /\ tok.has_token <=> tok.cursor < Size
    /\ tok.has_token /\ tok.cursor >= 1 => tok.token = At(tok.cursor)
    /\ tok.has_token /\ tok.cursor >= 2 => tok.prev = At(tok.cursor - 1)
    /\ ~tok.has_token => tok.token = NUL

(***************************************************************************)
(* prev_prev is the character before prev whenever a parser has read since *)
(* the latest backtrack: parse_boolean, parse_number and parse_base_uint   *)
(* test it, and backtrack leaves a stale one behind.                       *)
(***************************************************************************)
PrevPrevFresh ==
    last = "next" /\ tok.has_token /\ tok.cursor >= 3
        => tok.prev_prev = At(tok.cursor - 2)

(***************************************************************************)
(* A lookahead that failed leaves no trace in what the parser reads next:  *)
(* from the third character on, backtrack returns to where the lookahead   *)
(* started, or one further when the quote was kept.  Nothing is re-read    *)
(* and nothing is skipped.                                                 *)
(***************************************************************************)
LookaheadUndone ==
    [][ asked > 0 /\ last' = "backtrack" /\ mark >= 3
          => \/ tok'.cursor = mark /\ tok'.has_token
             \/ asked = 2 /\ tok'.cursor = mark + 1
             \/ asked = 2 /\ ahead = 1 /\ ~tok'.has_token ]_vars

\* Every character between the latest newline and the one in token is blank.
OnNewline ==
    \E p \in 1 .. tok.cursor - 1 :
        /\ is_newline(At(p))
        /\ \A q \in p + 1 .. tok.cursor - 1 :
              is_whitespace(At(q)) \/ is_newline(At(q))

(***************************************************************************)
(* The newline flag, which parse_keyval consults to decide whether a key   *)
(* may start after white space, is right whenever a parser has just read a *)
(* character other than white space, lookaheads across line ends included. *)
(***************************************************************************)
NewlineFlag ==
    (/\ asked = 0 /\ last = "next" /\ tok.has_token /\ tok.cursor > 0
     /\ ~is_whitespace(tok.token) /\ ~is_newline(tok.token))
        => (tok.newline <=> OnNewline)

(***************************************************************************)
(* tokenizer.h:39 calls line the "line number in the stream", which        *)
(* toml_load prints with every error: it should count the newlines before  *)
(* the current character.  It does not after a backtrack across one.       *)
(***************************************************************************)
LineNumberTrue ==
    tok.has_token /\ tok.cursor >= 1
        => tok.line = Cardinality({p \in 1 .. tok.cursor - 1 : is_newline(At(p))})
=============================================================================
