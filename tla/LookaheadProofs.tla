--------------------------- MODULE LookaheadProofs ---------------------------
(***************************************************************************)
(* Proofs about Lookahead: the tokenizer stays coherent, its flags are     *)
(* right, and a lookahead that fails is undone, for every input.           *)
(***************************************************************************)
EXTENDS Lookahead, TokenizerProofs

Blank(c) == is_whitespace(c) \/ is_newline(c)

\* The variables have their types, and the sentinel is where the input ends.
TypedInv ==
    /\ tok \in Tokenizers(Char)
    /\ asked \in 0 .. MaxDepth /\ ahead \in Nat /\ mark \in Nat
    /\ last \in {"next", "backtrack"}
    /\ Size > 0 /\ At(Size) = EOF
    /\ \A i \in 1 .. Size - 1 : At(i) # EOF

\* Nothing has been read: token is still NUL.
FreshInv == tok.cursor = 0 => tok.token = NUL /\ ~tok.newline

(***************************************************************************)
(* A lookahead has read ahead characters from mark on, one with each call  *)
(* unless it ran into the end, and it started on a character that is not   *)
(* blank.                                                                  *)
(***************************************************************************)
AheadInv ==
    /\ asked = 0 => ahead = 0
    /\ asked > 0 =>
            /\ mark >= 1 /\ mark < Size /\ ~Blank(At(mark))
            /\ ahead >= 1 /\ ahead <= asked /\ tok.cursor = mark + ahead
            /\ tok.has_token => ahead = asked
            /\ last = "next"

(***************************************************************************)
(* The newline flag says whether token is a newline or only blanks lie     *)
(* between it and the latest one.  Behind a backtrack the flag may be set  *)
(* on a character that is not blank, which clears it with the next read.   *)
(***************************************************************************)
FlagInv ==
    tok.has_token /\ tok.cursor >= 1 =>
        \/ tok.newline <=> is_newline(At(tok.cursor)) \/ OnNewline
        \/ last = "backtrack" /\ ~Blank(At(tok.cursor))

IInv == TypedInv /\ FreshInv /\ Coherent /\ AheadInv /\ PrevPrevFresh
-----------------------------------------------------------------------------
\* What a next_token does, wherever the tokenizer stands.
LEMMA ReadStep ==
    ASSUME TypedInv, FreshInv, Coherent, tok' = next_token(tok)
    PROVE  /\ tok' \in Tokenizers(Char) /\ tok'.stream = tok.stream
           /\ tok'.cursor = tok.cursor + Returned(tok)
           /\ tok'.has_token => tok.has_token /\ tok'.cursor = tok.cursor + 1
           /\ FreshInv' /\ Coherent'
           /\ tok'.has_token /\ tok'.cursor >= 3 => tok'.prev_prev = tok'.stream[tok'.cursor - 2]
<1>1. tok \in Tokenizers(Char) /\ tok.cursor \in Nat /\ Size \in Nat
  BY DEF TypedInv, Size, Tokenizers
<1>2. PICK n : n = next_token(tok)
  OBVIOUS
<1>3. CASE tok.has_token
  <2>1. tok.cursor < Size /\ CanRead(tok) /\ Returned(tok) = 1
    BY <1>3 DEF Coherent, CanRead, Returned
  <2>2. /\ n \in Tokenizers(Char) /\ n.stream = tok.stream /\ n.cursor = tok.cursor + 1
        /\ n.token = IF Under(tok) = EOF THEN NUL ELSE Under(tok)
        /\ n.prev = tok.token /\ n.prev_prev = tok.prev
        /\ n.has_token <=> tok.has_token /\ Under(tok) # EOF
    BY <1>1, <1>2, <2>1, ReadsOn DEF Size
  <2>3. Under(tok) = tok.stream[n.cursor] /\ (Under(tok) = EOF <=> n.cursor = Size)
    <3>1. n.cursor \in 1 .. Size
      BY <1>1, <2>1, <2>2
    <3>2. \A i \in 1 .. Size : tok.stream[i] = EOF <=> i = Size
      BY <1>1 DEF TypedInv, At
    <3> QED
      BY <2>2, <3>1, <3>2 DEF Under
  <2>4. /\ n.cursor <= Size /\ n.cursor >= 1
        /\ n.has_token <=> n.cursor < Size
        /\ n.has_token => n.token = n.stream[n.cursor]
        /\ ~n.has_token => n.token = NUL
    BY <1>1, <1>3, <2>1, <2>2, <2>3
  <2>5. n.has_token /\ n.cursor >= 2 => n.prev = n.stream[n.cursor - 1]
    <3>1. n.cursor - 1 = tok.cursor
      BY <1>1, <2>2
    <3> QED
      BY <1>1, <1>3, <2>2, <3>1 DEF Coherent, At
  <2>6. n.has_token /\ n.cursor >= 3 => n.prev_prev = n.stream[n.cursor - 2]
    <3>1. n.cursor - 2 = tok.cursor - 1
      BY <1>1, <2>2
    <3> QED
      BY <1>1, <1>3, <2>2, <3>1 DEF Coherent, At
  <2>7. tok' = n /\ Size' = Size
    BY <1>2, <2>2 DEF Size
  <2>8. Coherent'
    BY <2>2, <2>4, <2>5, <2>7 DEF Coherent, At
  <2> QED
    BY <1>1, <1>3, <2>1, <2>2, <2>4, <2>6, <2>7, <2>8 DEF FreshInv
<1>4. CASE ~tok.has_token
  <2>1. tok.cursor >= 1 /\ tok.cursor = Size /\ tok.token = NUL
    BY <1>1, <1>4 DEF Coherent, TypedInv
  <2>2. ~CanRead(tok) /\ Returned(tok) = 0
    BY <1>4, <2>1 DEF CanRead, Returned
  <2>3. /\ n \in Tokenizers(Char) /\ n.stream = tok.stream /\ n.cursor = tok.cursor
        /\ n.token = tok.token /\ n.has_token = tok.has_token
    BY <1>1, <1>2, <2>2, ReadsNothing
  <2>4. tok' = n /\ Size' = Size
    BY <1>2, <2>3 DEF Size
  <2>5. Coherent'
    BY <1>1, <1>4, <2>1, <2>3, <2>4 DEF Coherent, At
  <2> QED
    BY <1>1, <1>4, <2>1, <2>2, <2>3, <2>4, <2>5 DEF FreshInv
<1> QED
  BY <1>3, <1>4

\* The parts of TypedInv about the tokenizer, for a step that keeps the stream.
LEMMA StreamKept ==
    ASSUME TypedInv, tok' \in Tokenizers(Char), tok'.stream = tok.stream,
           asked' \in 0 .. MaxDepth, ahead' \in Nat, mark' \in Nat,
           last' \in {"next", "backtrack"}
    PROVE  TypedInv' /\ Size' = Size /\ \A i : At(i)' = At(i)
BY DEF TypedInv, Size, At

\* What a backtrack does with a lookahead: nothing when it is refused.
LEMMA BackStep ==
    ASSUME IInv, asked \in Depths, NEW kept \in {0, 1}, kept = 1 => asked = 2,
           NEW stray \in Stray, tok' = backtrack(tok, ahead - kept, stray)
    PROVE  \/ tok' = tok /\ (mark < 3 \/ (kept = 1 /\ ahead = 1))
           \/ /\ tok' \in Tokenizers(Char) /\ tok'.stream = tok.stream
              /\ tok'.cursor = mark + kept /\ tok'.cursor >= 3 /\ tok'.has_token
              /\ Coherent'
              /\ kept = 0 => ~Blank(tok.stream[mark])
              /\ kept = 1 /\ NUL \notin Char =>
                     (tok'.newline <=> is_newline(tok'.stream[mark + 1]))
<1> DEFINE count == ahead - kept
           p     == mark + kept
<1>1. /\ tok \in Tokenizers(Char) /\ tok.cursor \in Nat /\ Size \in Nat /\ stray \in Int
      /\ mark \in Nat /\ ahead \in Nat /\ ahead >= 1 /\ ahead <= asked
      /\ mark >= 1 /\ mark < Size /\ ~Blank(At(mark))
      /\ tok.cursor = mark + ahead /\ tok.cursor <= Size
  BY StrayAssumption DEF IInv, TypedInv, AheadInv, Coherent, Depths, Size, Tokenizers
<1>2. CASE ~(count > 0 /\ tok.cursor > count + 2)
  <2>1. tok' = tok
    BY <1>2 DEF backtrack
  <2> QED
    BY <1>1, <1>2, <2>1
<1>3. CASE count > 0 /\ tok.cursor > count + 2
  <2>1. /\ count \in Nat \ {0} /\ p \in Nat /\ p = tok.cursor - count
        /\ p >= 3 /\ p < tok.cursor /\ p <= Size - 1
    BY <1>1, <1>3
  <2>2. \A i \in 1 .. tok.cursor - 1 : tok.stream[i] # EOF
    BY <1>1 DEF IInv, TypedInv, At
  <2>3. PICK b : b = backtrack(tok, count, stray)
    OBVIOUS
  <2> HIDE DEF count, p
  <2>4. /\ b \in Tokenizers(Char) /\ b.stream = tok.stream /\ b.cursor = p /\ b.has_token
        /\ b.token = tok.stream[p] /\ b.prev = tok.stream[p - 1]
        /\ is_newline(tok.stream[p]) => b.newline
        /\ b.newline => \/ is_newline(tok.stream[p]) \/ is_newline(tok.stream[p - 1])
                        \/ is_whitespace(tok.stream[p - 1]) \/ tok.stream[p - 1] = NUL
    <3>1. EOF \notin Char
      BY CharAssumption
    <3>2. tok.cursor <= Len(tok.stream) /\ tok \in Tokenizers(Char) /\ stray \in Int
      BY <1>1 DEF Size
    <3> QED
      BY <1>3, <2>1, <2>2, <2>3, <3>1, <3>2, BacktracksTo
  <2>5. tok' = b /\ Size' = Size
    BY <2>3, <2>4 DEF count, Size
  <2>6. Coherent'
    BY <1>1, <2>1, <2>4, <2>5 DEF Coherent, At
  <2>7. ASSUME kept = 1, NUL \notin Char
        PROVE  b.newline <=> is_newline(tok.stream[mark + 1])
    <3>1. p - 1 = mark /\ p = mark + 1
      BY <1>1, <2>7 DEF p
    <3>2. tok.stream[mark] # NUL
      <4>1. tok.stream \in Seq(Char \cup {EOF}) /\ mark \in 1 .. Len(tok.stream)
        BY <1>1 DEF Tokenizers, Size
      <4>2. tok.stream[mark] \in Char \cup {EOF}
        BY <4>1
      <4> QED
        BY <2>7, <4>2 DEF NUL, EOF
    <3> QED
      BY <1>1, <2>4, <3>1, <3>2 DEF Blank, At
  <2> QED
    BY <1>1, <2>1, <2>4, <2>5, <2>6, <2>7 DEF p, At
<1> QED
  BY <1>2, <1>3

-----------------------------------------------------------------------------
(* The inductive invariant. *)

LEMMA InitEstablishesIInv == Init => IInv /\ FlagInv
<1> SUFFICES ASSUME Init PROVE IInv /\ FlagInv
  OBVIOUS
<1>1. PICK n \in 0 .. MaxLen : \E text \in [1 .. n -> Char] : tok = new_tokenizer(text)
  BY DEF Init, Texts
<1>2. PICK text \in [1 .. n -> Char] : tok = new_tokenizer(text)
  BY <1>1
<1>3. text \in Seq(Char) /\ Len(text) = n /\ n \in Nat
  BY MaxLenAssumption
<1>4. /\ Append(text, EOF) \in Seq(Char \cup {EOF})
      /\ Len(Append(text, EOF)) = n + 1
      /\ Append(text, EOF)[n + 1] = EOF
      /\ \A i \in 1 .. n : Append(text, EOF)[i] \in Char
  BY <1>3
<1>5. tok.stream = Append(text, EOF) /\ tok.cursor = 0 /\ tok.token = NUL
      /\ tok.has_token = TRUE /\ tok.newline = FALSE
  BY <1>2 DEF new_tokenizer
<1>6. tok \in Tokenizers(Char)
  BY <1>2, <1>4, MaxNumLinesAssumption DEF new_tokenizer, Tokenizers
<1>7. Size = n + 1 /\ Size > 0 /\ Size - 1 = n /\ Size \in Nat
  BY <1>3, <1>4, <1>5 DEF Size
<1>8. At(Size) = EOF /\ \A i \in 1 .. Size - 1 : At(i) # EOF
  BY <1>4, <1>5, <1>7, CharAssumption DEF At
<1>9. TypedInv
  BY <1>6, <1>7, <1>8 DEF TypedInv, Init, MaxDepth
<1>10. FreshInv /\ Coherent /\ PrevPrevFresh /\ FlagInv
  BY <1>5, <1>7 DEF FreshInv, Coherent, PrevPrevFresh, FlagInv
<1>11. AheadInv
  BY DEF AheadInv, Init
<1> QED
  BY <1>9, <1>10, <1>11 DEF IInv

\* What every action but Accept leaves alone or does to the lookahead.
LEMMA ReadKeepsIInv ==
    ASSUME IInv, tok' = next_token(tok), last' = "next",
           asked' \in 0 .. MaxDepth, ahead' \in Nat, mark' \in Nat, AheadInv'
    PROVE  IInv'
<1>1. /\ tok' \in Tokenizers(Char) /\ tok'.stream = tok.stream /\ FreshInv' /\ Coherent'
      /\ tok'.has_token /\ tok'.cursor >= 3 => tok'.prev_prev = tok'.stream[tok'.cursor - 2]
  BY ReadStep DEF IInv
<1>2. TypedInv'
  BY <1>1, StreamKept DEF IInv
<1>3. PrevPrevFresh'
  BY <1>1 DEF PrevPrevFresh, At
<1> QED
  BY <1>1, <1>2, <1>3 DEF IInv

LEMMA NextKeepsIInv == IInv /\ [Next]_vars => IInv'
<1> SUFFICES ASSUME IInv, [Next]_vars PROVE IInv'
  OBVIOUS
<1> USE DEF MaxDepth
<1>1. /\ tok \in Tokenizers(Char) /\ tok.cursor \in Nat /\ Size \in Nat
      /\ mark \in Nat /\ ahead \in Nat /\ asked \in 0 .. 4
      /\ Returned(tok) \in {0, 1}
  BY DEF IInv, TypedInv, Size, Tokenizers, Returned
<1>2. CASE Read
  <2>1. AheadInv'
    BY <1>2 DEF Read, AheadInv, IInv
  <2> QED
    BY <1>1, <1>2, <2>1, ReadKeepsIInv DEF Read
<1>3. CASE Start
  <2>1. Returned(tok) = 1 /\ tok.cursor >= 1 /\ tok.cursor < Size
        /\ tok.token = At(tok.cursor)
    BY <1>1, <1>3 DEF Start, Returned, CanRead, IInv, Coherent
  <2>2. tok'.cursor = tok.cursor + 1 /\ tok'.stream = tok.stream
    BY <1>3, <2>1, ReadStep DEF Start, IInv
  <2>3. Size' = Size /\ \A i : At(i)' = At(i)
    BY <2>2 DEF Size, At
  <2>4. AheadInv'
    BY <1>1, <1>3, <2>1, <2>2, <2>3 DEF Start, AheadInv, Blank
  <2> QED
    BY <1>1, <1>3, <2>1, <2>4, ReadKeepsIInv DEF Start
<1>4. CASE Further
  <2>1. /\ tok'.cursor = tok.cursor + Returned(tok) /\ tok'.stream = tok.stream
        /\ tok'.has_token => tok.has_token /\ tok'.cursor = tok.cursor + 1
    BY <1>4, ReadStep DEF Further, IInv
  <2>2. Size' = Size /\ \A i : At(i)' = At(i)
    BY <2>1 DEF Size, At
  <2>3. asked > 0 /\ asked + 1 \in 0 .. 4
    BY <1>1, <1>4 DEF Further
  <2>4. AheadInv'
    BY <1>1, <1>4, <2>1, <2>2, <2>3 DEF Further, AheadInv, IInv
  <2>5. last' = "next"
    BY <1>4, <2>3 DEF Further, AheadInv, IInv
  <2> QED
    BY <1>1, <1>4, <2>3, <2>4, <2>5, ReadKeepsIInv DEF Further
<1>5. CASE Accept
  <2>1. AheadInv'
    BY <1>5 DEF Accept, AheadInv
  <2> QED
    BY <1>1, <1>5, <2>1 DEF Accept, IInv, TypedInv, FreshInv, Coherent, PrevPrevFresh, Size, At
<1>6. ASSUME NEW kept \in {0, 1}, GiveBack(kept) PROVE IInv'
  <2>1. PICK stray \in Stray : tok' = backtrack(tok, ahead - kept, stray)
    BY <1>6 DEF GiveBack
  <2>2. /\ asked \in Depths /\ (kept = 1 => asked = 2)
        /\ asked' = 0 /\ ahead' = 0 /\ last' = "backtrack" /\ mark' = mark
    BY <1>6 DEF GiveBack
  <2>3. AheadInv' /\ PrevPrevFresh'
    BY <2>2 DEF AheadInv, PrevPrevFresh
  <2>4. CASE tok' = tok
    BY <1>1, <2>2, <2>3, <2>4 DEF IInv, TypedInv, FreshInv, Coherent, Size, At
  <2>5. CASE /\ tok' \in Tokenizers(Char) /\ tok'.stream = tok.stream
             /\ tok'.cursor >= 3 /\ Coherent'
    <3>1. TypedInv'
      BY <1>1, <2>2, <2>5, StreamKept DEF IInv
    <3>2. FreshInv'
      BY <2>5 DEF FreshInv
    <3> QED
      BY <2>3, <2>5, <3>1, <3>2 DEF IInv
  <2> QED
    BY <2>1, <2>2, <2>4, <2>5, BackStep
<1>7. CASE UNCHANGED vars
  BY <1>7 DEF vars, IInv, TypedInv, FreshInv, Coherent, AheadInv, PrevPrevFresh, Size, At
<1> QED
  BY <1>2, <1>3, <1>4, <1>5, <1>6, <1>7 DEF Next

LEMMA IInvHolds == Spec => []IInv
<1>1. Init => IInv
  BY InitEstablishesIInv
<1> QED
  BY <1>1, NextKeepsIInv, PTL DEF Spec

-----------------------------------------------------------------------------
(* The theorems. *)

\* struct tokenizer: whatever is read and given back, its fields keep their ranges.
THEOREM LookaheadTyped == Spec => []TypeOK
<1>1. IInv => TypeOK
  <2> SUFFICES ASSUME IInv PROVE TypeOK
    OBVIOUS
  <2>1. tok.cursor \in 0 .. Size
    BY DEF IInv, TypedInv, Coherent, Size, Tokenizers
  <2>2. ahead \in 0 .. MaxDepth
    <3>1. CASE asked > 0
      BY <3>1 DEF IInv, TypedInv, AheadInv, MaxDepth
    <3>2. CASE asked = 0
      BY <3>2 DEF IInv, TypedInv, AheadInv, MaxDepth
    <3> QED
      BY <3>1, <3>2 DEF IInv, TypedInv, MaxDepth
  <2> QED
    BY <2>1, <2>2 DEF IInv, TypedInv, TypeOK, Tokenizers
<1> QED
  BY <1>1, IInvHolds, PTL

\* next_token and backtrack: the tokenizer stays on its input, has_token tells
\* whether the sentinel was read, token and prev are the two characters behind
\* the cursor.
THEOREM TokenizerCoherent == Spec => []Coherent
<1>1. IInv => Coherent
  BY DEF IInv
<1> QED
  BY <1>1, IInvHolds, PTL

\* prev_prev, which parse_number and parse_boolean test, is right after a read.
THEOREM PrevPrevRight == Spec => []PrevPrevFresh
<1>1. IInv => PrevPrevFresh
  BY DEF IInv
<1> QED
  BY <1>1, IInvHolds, PTL

\* backtrack: from the third character on, a lookahead that failed is undone.
THEOREM FailedLookaheadUndone == Spec => LookaheadUndone
<1>1. ASSUME IInv, [Next]_vars, asked > 0, last' = "backtrack", mark >= 3
      PROVE  \/ tok'.cursor = mark /\ tok'.has_token
             \/ asked = 2 /\ tok'.cursor = mark + 1
             \/ asked = 2 /\ ahead = 1 /\ ~tok'.has_token
  <2>1. last = "next" /\ asked # 0 /\ asked \in Nat /\ mark \in Nat
        /\ (tok.has_token => ahead = asked)
    BY <1>1 DEF IInv, TypedInv, AheadInv
  <2>2. PICK kept \in {0, 1} : GiveBack(kept)
    BY <1>1, <2>1 DEF Next, Read, Start, Further, Accept, vars
  <2>3. PICK stray \in Stray : tok' = backtrack(tok, ahead - kept, stray)
    BY <2>2 DEF GiveBack
  <2>4. asked \in Depths /\ (kept = 1 => asked = 2)
    BY <2>2 DEF GiveBack
  <2>5. \/ tok' = tok /\ (mark < 3 \/ (kept = 1 /\ ahead = 1))
        \/ tok'.cursor = mark + kept /\ tok'.has_token
    BY <1>1, <2>3, <2>4, BackStep
  <2> QED
    BY <1>1, <2>1, <2>4, <2>5
<1>2. IInv /\ [Next]_vars =>
        [ asked > 0 /\ last' = "backtrack" /\ mark >= 3
            => \/ tok'.cursor = mark /\ tok'.has_token
               \/ asked = 2 /\ tok'.cursor = mark + 1
               \/ asked = 2 /\ ahead = 1 /\ ~tok'.has_token ]_vars
  BY <1>1
<1> QED
  BY <1>2, IInvHolds, PTL DEF Spec, LookaheadUndone

-----------------------------------------------------------------------------
(* The newline flag.  next_token takes a NUL in the input for the NUL of a *)
(* tokenizer that has read nothing, so the inputs are those without one.   *)

Line(s, k) == \E p \in 1 .. k - 1 :
                 is_newline(s[p]) /\ \A q \in p + 1 .. k - 1 : Blank(s[q])

LEMMA LineGrows ==
    ASSUME NEW s, NEW k \in Nat \ {0}
    PROVE  Line(s, k + 1) <=> Blank(s[k]) /\ (is_newline(s[k]) \/ Line(s, k))
<1> HIDE DEF Blank
<1>1. ASSUME Line(s, k + 1) PROVE Blank(s[k]) /\ (is_newline(s[k]) \/ Line(s, k))
  <2>1. PICK p \in 1 .. k : is_newline(s[p]) /\ \A q \in p + 1 .. k : Blank(s[q])
    BY <1>1 DEF Line
  <2>2. CASE p = k
    BY <2>1, <2>2 DEF Blank
  <2>3. CASE p # k
    <3>1. p \in 1 .. k - 1 /\ k \in p + 1 .. k /\ \A q \in p + 1 .. k - 1 : q \in p + 1 .. k
      BY <2>3
    <3> QED
      BY <2>1, <3>1 DEF Line
  <2> QED
    BY <2>2, <2>3
<1>2. ASSUME is_newline(s[k]) PROVE Line(s, k + 1)
  <2>1. k \in 1 .. (k + 1) - 1 /\ \A q \in k + 1 .. (k + 1) - 1 : FALSE
    OBVIOUS
  <2> QED
    BY <1>2, <2>1 DEF Line
<1>3. ASSUME Blank(s[k]), Line(s, k) PROVE Line(s, k + 1)
  <2>1. PICK p \in 1 .. k - 1 : is_newline(s[p]) /\ \A q \in p + 1 .. k - 1 : Blank(s[q])
    BY <1>3 DEF Line
  <2>2. p \in 1 .. (k + 1) - 1
        /\ \A q \in p + 1 .. (k + 1) - 1 : q = k \/ q \in p + 1 .. k - 1
    OBVIOUS
  <2> QED
    BY <1>3, <2>1, <2>2 DEF Line
<1> QED
  BY <1>1, <1>2, <1>3

LEMMA ReadKeepsFlag ==
    ASSUME IInv, FlagInv, NUL \notin Char, tok' = next_token(tok)
    PROVE  FlagInv'
<1>1. CASE ~tok'.has_token
  BY <1>1 DEF FlagInv
<1>2. CASE tok'.has_token
  <2>1. /\ tok \in Tokenizers(Char) /\ tok.cursor \in Nat /\ Size \in Nat
        /\ tok.has_token /\ tok.cursor < Size /\ CanRead(tok)
    BY <1>2, ReadStep DEF IInv, TypedInv, Coherent, Size, Tokenizers, CanRead
  <2>2. PICK s, k : s = tok.stream /\ k = tok.cursor
    OBVIOUS
  <2>3. tok'.stream = s /\ tok'.cursor = k + 1
    BY <1>2, <2>2, ReadStep DEF IInv
  <2>4. Under(tok) = s[k + 1]
    BY <2>2 DEF Under
  <2>5. tok'.newline <=> StartsLine(tok, s[k + 1])
    BY <2>1, <2>4, ReadsOn DEF Size
  <2>6. OnNewline <=> Line(s, k)
    BY <2>2 DEF OnNewline, Line, At, Blank
  <2>7. OnNewline' <=> Line(s, k + 1)
    BY <2>3 DEF OnNewline, Line, At, Blank
  <2>8. tok'.newline <=> is_newline(s[k + 1]) \/ Line(s, k + 1)
    <3>1. CASE k = 0
      <4>1. ~tok.newline /\ ~Line(s, k + 1)
        BY <2>2, <3>1 DEF IInv, FreshInv, Line
      <4> QED
        BY <2>5, <4>1 DEF StartsLine
    <3>2. CASE k # 0
      <4>1. k \in Nat \ {0} /\ tok.cursor >= 1 /\ tok.token = s[k]
        BY <2>1, <2>2, <3>2 DEF IInv, Coherent, At
      <4>2. Line(s, k + 1) <=> Blank(s[k]) /\ (is_newline(s[k]) \/ Line(s, k))
        BY <4>1, LineGrows
      <4>3. s[k] # NUL
        <5>1. s \in Seq(Char \cup {EOF}) /\ k \in 1 .. Len(s)
          BY <2>1, <2>2, <4>1 DEF Tokenizers, Size
        <5>2. s[k] \in Char \cup {EOF}
          BY <5>1
        <5> QED
          BY <5>2 DEF NUL, EOF
      <4>4. \/ tok.newline <=> is_newline(s[k]) \/ Line(s, k)
            \/ ~Blank(s[k])
        BY <2>1, <2>2, <2>6, <4>1 DEF FlagInv, At
      <4>5. tok'.newline <=> is_newline(s[k + 1]) \/ (tok.newline /\ Blank(s[k]))
        BY <2>5, <4>1, <4>3 DEF StartsLine, Blank
      <4> QED
        BY <4>2, <4>4, <4>5
    <3> QED
      BY <3>1, <3>2
  <2>9. At(tok.cursor)' = s[k + 1]
    BY <2>3 DEF At
  <2> QED
    BY <2>7, <2>8, <2>9 DEF FlagInv
<1> QED
  BY <1>1, <1>2

LEMMA NextKeepsFlagInv ==
    ASSUME NUL \notin Char, IInv, IInv', FlagInv, [Next]_vars PROVE FlagInv'
<1>1. CASE Read \/ Start \/ Further
  BY <1>1, ReadKeepsFlag DEF Read, Start, Further
<1>2. CASE Accept \/ UNCHANGED vars
  BY <1>2 DEF Accept, vars, FlagInv, OnNewline, At
<1>3. ASSUME NEW kept \in {0, 1}, GiveBack(kept) PROVE FlagInv'
  <2>1. PICK stray \in Stray : tok' = backtrack(tok, ahead - kept, stray)
    BY <1>3 DEF GiveBack
  <2>2. /\ asked \in Depths /\ (kept = 1 => asked = 2) /\ last' = "backtrack"
    BY <1>3 DEF GiveBack
  <2>3. CASE tok' = tok
    BY <2>2, <2>3 DEF FlagInv, OnNewline, At
  <2>4. CASE /\ tok'.stream = tok.stream /\ tok'.cursor = mark + kept
             /\ kept = 0 => ~Blank(tok.stream[mark])
             /\ kept = 1 => (tok'.newline <=> is_newline(tok'.stream[mark + 1]))
    <3>1. mark \in Nat /\ mark >= 1 /\ ~Blank(tok.stream[mark])
      BY <2>2 DEF IInv, TypedInv, AheadInv, Depths, At
    <3>2. CASE kept = 0
      BY <2>2, <2>4, <3>1, <3>2 DEF FlagInv, At
    <3>3. CASE kept = 1
      <4>1. tok'.cursor = mark + 1 /\ tok'.stream = tok.stream
        BY <2>4, <3>3
      <4>2. ~Line(tok.stream, mark + 1)
        BY <3>1, LineGrows
      <4>3. OnNewline' <=> Line(tok.stream, mark + 1)
        BY <4>1 DEF OnNewline, Line, At, Blank
      <4>4. At(tok.cursor)' = tok'.stream[mark + 1]
        BY <4>1 DEF At
      <4> QED
        BY <2>4, <3>3, <4>2, <4>3, <4>4 DEF FlagInv
    <3> QED
      BY <3>2, <3>3
  <2> QED
    BY <2>1, <2>2, <2>3, <2>4, BackStep
<1> QED
  BY <1>1, <1>2, <1>3 DEF Next

\* tokenizer.c, next_token: the newline flag is right on every character but a
\* blank, lookaheads across line ends included, for inputs without a NUL.
THEOREM NewlineFlagRight == NUL \notin Char => (Spec => []NewlineFlag)
<1> SUFFICES ASSUME NUL \notin Char PROVE Spec => []NewlineFlag
  OBVIOUS
<1>1. Init => IInv /\ FlagInv
  BY InitEstablishesIInv
<1>2. (IInv /\ FlagInv) /\ [Next]_vars => (IInv /\ FlagInv)'
  BY NextKeepsIInv, NextKeepsFlagInv
<1>3. IInv /\ FlagInv => NewlineFlag
  <2> SUFFICES ASSUME IInv, FlagInv, last = "next", tok.has_token, tok.cursor > 0,
                      ~is_whitespace(tok.token), ~is_newline(tok.token)
               PROVE  tok.newline <=> OnNewline
    BY DEF NewlineFlag
  <2>1. tok.cursor \in Nat /\ tok.cursor >= 1
    BY DEF IInv, TypedInv, Tokenizers
  <2>2. tok.token = At(tok.cursor)
    BY <2>1 DEF IInv, Coherent
  <2> QED
    BY <2>1, <2>2 DEF FlagInv
<1> QED
  BY <1>1, <1>2, <1>3, PTL DEF Spec
=============================================================================
