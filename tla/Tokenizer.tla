------------------------------ MODULE Tokenizer ------------------------------
(***************************************************************************)
(* The tokenizer of parser/lib/tokenizer.c as a value: a record with the   *)
(* fields of struct tokenizer, and the functions of the file as operators  *)
(* that take the record and return the record they leave behind.  The      *)
(* characters are one-character strings; NUL is the '\0' that token holds  *)
(* before the first read and after the last one, and EOF is the sentinel   *)
(* load_input appends to the buffer.                                       *)
(***************************************************************************)
EXTENDS Integers, Sequences

CONSTANT MaxNumLines        \* MAX_NUM_LINES, the size of the lines table

ASSUME MaxNumLinesAssumption == MaxNumLines \in Nat \ {0}

NUL == "NUL"
EOF == "EOF"

is_whitespace(c) == c \in {" ", "\t"}
is_newline(c)    == c = "\n"

\* new_tokenizer followed by load_input of a file that holds text.
new_tokenizer(text) ==
    [ stream    |-> Append(text, EOF),
      cursor    |-> 0,
      token     |-> NUL,
      prev      |-> NUL,
      prev_prev |-> NUL,
      has_token |-> TRUE,
      newline   |-> FALSE,
      line      |-> 0,
      col       |-> 0,
      lines     |-> [l \in 0 .. MaxNumLines - 1 |-> 0] ]

CanRead(t) == t.has_token \/ t.cursor = 0

\* What next_token returns: 1 when it read a character, the EOF included.
Returned(t) == IF CanRead(t) THEN 1 ELSE 0

\* The character under the cursor (buffers are indexed from 0 in the code).
Under(t) == t.stream[t.cursor + 1]

\* A mistake: prev is shifted before prev_prev.
Shifted_swapped(t) == [t EXCEPT !.prev = t.token, !.prev_prev = t.token]

\* prev and prev_prev are shifted even when there is nothing left to read.
Shifted(t) == [t EXCEPT !.prev_prev = t.prev, !.prev = t.token]

\* A mistake: only a newline changes the flag.
StartsLine_sticky(t, c) == is_newline(c) \/ t.newline

\* The newline flag once c has been read: set by a newline, kept by white space.
StartsLine(t, c) ==
    \/ is_newline(c)
    \/ t.newline /\ (t.token = NUL \/ is_whitespace(t.token) \/ is_newline(t.token))

\* A mistake: one line more than the table has room for.
InTable_late(t) == t.line <= MaxNumLines

\* The length of a line is stored if the table has an entry for it.
InTable(t) == t.line < MaxNumLines

\* lines[line] = col.  Nothing but the test above keeps it inside the table.
Noted(t) == [l \in DOMAIN t.lines \cup {t.line} |-> IF l = t.line THEN t.col ELSE t.lines[l]]

next_token(t) ==
    LET c       == Under(t)
        newLine == is_newline(t.token)
    IN  IF ~CanRead(t) THEN Shifted(t)
        ELSE [Shifted(t) EXCEPT
                !.cursor    = @ + 1,
                !.token     = IF c = EOF THEN NUL ELSE c,
                !.has_token = @ /\ c # EOF,
                !.newline   = StartsLine(t, c),
                !.line      = IF newLine THEN @ + 1 ELSE @,
                !.col       = IF newLine THEN 0 ELSE @ + 1,
                !.lines     = IF newLine /\ InTable(t) THEN Noted(t) ELSE @]

\* Reading lines[l].  The code does not check l: outside the table the build
\* reads whatever lies there, which the caller passes as stray.
Length(t, l, stray) == IF l \in DOMAIN t.lines THEN t.lines[l] ELSE stray

\* The loop of backtrack that walks line and col back over pre characters.
Rewound(t, pre_count, stray) ==
    LET walk[w \in [line : Int, pre : Int, col : Int]] ==
            IF w.line >= 0 /\ w.pre > w.col
            THEN walk[[line |-> w.line - 1,
                       pre  |-> w.pre - w.col,
                       col  |-> Length(t, w.line - 1, stray)]]
            ELSE w
    IN  walk[[line |-> t.line, pre |-> pre_count, col |-> t.col]]

NotBelowZero(n) == IF n < 0 THEN 0 ELSE n

\* A mistake: has_token stays reset after the end was reached.
Moved_exhausted(t, pre_count, stray) ==
    LET w == Rewound(t, pre_count, stray)
    IN  [t EXCEPT !.cursor = @ - pre_count,
                  !.line   = NotBelowZero(w.line),
                  !.col    = NotBelowZero(w.col - w.pre)]

\* The cursor, line and col pre_count characters back.
Moved(t, pre_count, stray) ==
    LET w == Rewound(t, pre_count, stray)
    IN  [t EXCEPT !.cursor    = @ - pre_count,
                  !.has_token = TRUE,
                  !.line      = NotBelowZero(w.line),
                  !.col       = NotBelowZero(w.col - w.pre)]

\* A mistake: one character further than asked instead of two.
backtrack_short(t, count, stray) ==
    LET pre_count == count + 1
    IN  IF ~(count > 0 /\ t.cursor > pre_count) THEN t
        ELSE next_token(next_token(Moved(t, pre_count, stray)))

\* backtrack: two characters further than asked, then two reads to fill token
\* and prev again; refused when the input is too short for that.
backtrack(t, count, stray) ==
    LET pre_count == count + 2
    IN  IF ~(count > 0 /\ t.cursor > pre_count) THEN t
        ELSE next_token(next_token(Moved(t, pre_count, stray)))
=============================================================================
