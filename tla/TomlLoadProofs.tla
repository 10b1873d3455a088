---------------------------- MODULE TomlLoadProofs ----------------------------
(***************************************************************************)
(* What is proved about the reading: the functions of Document keep their  *)
(* locals in their ranges and go back in the text only where parse_value   *)
(* looks ahead; they accept nothing but documents, since their stack       *)
(* agrees with the automaton of TomlSyntax; and they refuse nothing but    *)
(* what is no document, the exceptions that Document names apart.  And at  *)
(* the end, what is proved about the tree of keys holds of toml_load as a  *)
(* whole: whatever these functions do to the tree is a step of KeyTree.    *)
(***************************************************************************)
EXTENDS TomlLoad, TokenizerProofs, SequenceTheorems, TLAPS

-----------------------------------------------------------------------------
(* The functions that read the text.                                       *)

LEMMA CharsAre == EOF \notin Char /\ NUL \notin Char
  BY DEF Char, Bare, Blank, EOF, NUL

\* What a read leaves behind, and a look for a line end.
LEMMA ReadsSound ==
    ASSUME NEW t, Sound(Char, t), NEW letters \in SUBSET Char, NEW u \in ReadsFrom(t, letters)
    PROVE  /\ Sound(Char, u)
           /\ u.cursor = IF t.has_token THEN t.cursor + 1 ELSE t.cursor
           /\ u.prev = t.token /\ u.prev_prev = t.prev
           /\ KeepsText(t, u)
           /\ t.has_token => (u.newline <=> is_newline(u.token) \/ OnBlankLine(t))
<1>1. PICK L : L = IF Len(t.stream) < Len(scenario.start) + MaxLen THEN letters ELSE {}
  OBVIOUS
<1>2. L \in SUBSET Char
  BY <1>1
<1>3. PICK i \in Offered(t, L) : u = next_token(i)
  BY <1>1 DEF ReadsFrom, Offered, Grown
<1> QED
  BY <1>2, <1>3, SoundOffers

LEMMA NewlinesSound ==
    ASSUME scenario.letters \in SUBSET Char, NEW t, Sound(Char, t),
           NEW n \in NotNewline(t) \cup AtNewline(t)
    PROVE  Sound(Char, n) /\ n.cursor >= t.cursor /\ KeepsText(t, n)
<1>1. t.cursor \in Nat
  BY SoundToken
<1>2. CASE n = t
  BY <1>1, <1>2, TextKept
<1>3. CASE n # t
  <2>1. PICK r \in Reads(t) : is_return(t.token) /\ (n = r \/ n = Back(r, Returned(t)))
    BY <1>3 DEF NotNewline, AtNewline, Newlines
  <2>2. t.has_token /\ Returned(t) = 1
    BY <2>1, SoundToken DEF is_return, NUL
  <2>3. Sound(Char, r) /\ r.cursor = t.cursor + 1 /\ KeepsText(t, r)
    BY <2>1, <2>2, ReadsSound DEF Reads
  <2>4. CASE n = r
    BY <1>1, <2>3, <2>4
  <2>5. CASE n = backtrack(r, 1, 0)
    <3>1. Sound(Char, n) /\ n.cursor = IF Refuses(r, 1) THEN r.cursor ELSE r.cursor - 1
      BY <2>3, <2>5, CharsAre, SoundBacks
    <3>2. n.stream = r.stream
      BY <2>3, <2>5, CharsAre, SoundBacks
    <3>3. KeepsText(t, n)
      BY <2>3, <3>2 DEF KeepsText
    <3> QED
      BY <1>1, <2>3, <3>1, <3>3
  <2> QED
    BY <2>1, <2>2, <2>4, <2>5 DEF Back
<1> QED
  BY <1>2, <1>3

LEMMA OpenedSound ==
    ASSUME scenario \in Scenarios, NEW count \in 0 .. Len(scenario.start)
    PROVE  Sound(Char, Opened(count)) /\ Opened(count).cursor = count
           /\ Opened(count).has_token
<1>1. PICK s \in Seq(Char) : s = scenario.start
  BY ScenarioAssumption
<1>2. PICK x : x = [new_tokenizer(<<>>) EXCEPT !.stream = s]
  OBVIOUS
<1>3. s \in Seq(Char \cup {EOF}) /\ \A i \in 1 .. Len(s) : s[i] # EOF
  <2>1. \A i \in 1 .. Len(s) : s[i] \in Char
    OBVIOUS
  <2>2. s \in Seq(Char \cup {EOF})
    OBVIOUS
  <2> QED
    BY <2>1, <2>2, CharsAre
<1>4. x.stream = s /\ x.cursor = 0 /\ x.has_token /\ x.token = NUL
  BY <1>2 DEF new_tokenizer
<1>5. x \in Tokenizers(Char)
  BY <1>2, <1>3, MaxNumLinesAssumption DEF new_tokenizer, Tokenizers
<1>6. Sound(Char, x)
  BY <1>3, <1>4, <1>5 DEF Sound, is_newline, NUL
<1>7. Opened(count) = AfterReads(x, count)
  BY <1>1, <1>2 DEF Opened, AfterReads
<1> QED
  BY <1>1, <1>3, <1>4, <1>6, <1>7, SoundOpens

(***************************************************************************)
(* The frames that stay where they are, and the one of a lookahead, which  *)
(* is always the innermost.                                                *)
(***************************************************************************)
Fixed == [fn : {"key"}, expecting : BOOLEAN]
         \cup [fn : {"table"}, expecting : BOOLEAN, double : BOOLEAN]
         \cup [fn : {"barekey"}, end : {"=", "]"}, idx : 0 .. MaxIdLength, done : BOOLEAN]
         \cup [fn : {"value"}, num_end : NumEnds]
         \cup [fn : {"number"}, num_end : NumEnds, as : {"int", "frac", "garbage"}]
         \cup [fn : {"array"}, sep : BOOLEAN, len : 0 .. MaxArray]
         \cup [fn : {"inline"}, sep : BOOLEAN, first : BOOLEAN]
         \cup {Whitespace, Comment}
Looking == [fn : {"lookahead"}, num_end : NumEnds, from : Nat, count : 0 .. 4]

\* A lookahead starts behind two characters, which backtrack needs.
LooksFrom(g, t) == /\ g.from >= 3
                   /\ g.count = 0 => t.cursor = g.from /\ t.has_token
                   /\ g.count > 0 => t.cursor > g.from

Framed(s, t) == \/ s \in Seq(Fixed)
                \/ \E g \in Looking : \E below \in Seq(Fixed) :
                      s = <<g>> \o below /\ LooksFrom(g, t)

(***************************************************************************)
(* So much has been read at least: a key and a '=' before a value, and a   *)
(* character of a key that does not expect one.                            *)
(***************************************************************************)
InValue == {"value", "number", "array", "inline"}

Placed(s, cursor) ==
    /\ cursor >= 1
    /\ cursor < 3 => \A i \in 1 .. Len(s) :
          s[i].fn \in InValue => \E j \in 1 .. i - 1 : s[j].fn = "key"
    /\ cursor < 2 => \A i \in 1 .. Len(s) :
          /\ s[i].fn = "key" /\ ~s[i].expecting => \E j \in 1 .. i - 1 : s[j].fn = "barekey"
          /\ s[i].fn = "barekey" => s[i].idx = 0

ReadInv == /\ scenario \in Scenarios /\ Sound(Char, tok)
           /\ result \in {"running", "ok", "failed"}
           /\ Framed(stack, tok) /\ Placed(stack, tok.cursor)

LEMMA ScenarioLetters ==
    ASSUME scenario \in Scenarios
    PROVE  scenario.letters \in SUBSET Char /\ CommentLetters \in SUBSET Char
  BY ScenarioAssumption DEF CommentLetters

LEMMA InitReads == Init => ReadInv
<1> SUFFICES ASSUME Init PROVE ReadInv
  OBVIOUS
<1>1. scenario \in Scenarios /\ tok \in Reads(Opened(0)) /\ stack = <<>> /\ result = "running"
  BY DEF Init
<1>2. 0 \in 0 .. Len(scenario.start)
  BY <1>1, ScenarioAssumption
<1>3. Sound(Char, Opened(0)) /\ Opened(0).cursor = 0 /\ Opened(0).has_token
  BY <1>1, <1>2, OpenedSound
<1>4. Sound(Char, tok) /\ tok.cursor = 1
  BY <1>1, <1>3, ReadsSound, ScenarioLetters DEF Reads
<1>5. Framed(stack, tok) /\ Placed(stack, tok.cursor)
  BY <1>1, <1>4 DEF Framed, Placed
<1> QED
  BY <1>1, <1>4, <1>5 DEF ReadInv

-----------------------------------------------------------------------------
(* Frames on the stack. *)

LEMMA Pushed ==
    ASSUME NEW S, NEW p \in Seq(S), NEW s \in Seq(S)
    PROVE  p \o s \in Seq(S)
  BY ConcatProperties

LEMMA OnTop ==
    ASSUME NEW S, NEW g \in S, NEW s \in Seq(S)
    PROVE  /\ <<g>> \o s \in Seq(S) /\ <<g>> \o s # <<>>
           /\ Len(<<g>> \o s) = Len(s) + 1 /\ (<<g>> \o s)[1] = g
           /\ Head(<<g>> \o s) = g /\ Tail(<<g>> \o s) = s
           /\ \A i \in 1 .. Len(s) : (<<g>> \o s)[i + 1] = s[i]
  OBVIOUS

LEMMA OffTop ==
    ASSUME NEW S, NEW s \in Seq(S), s # <<>>
    PROVE  /\ Head(s) = s[1] /\ s[1] \in S /\ Tail(s) \in Seq(S)
           /\ Len(s) \in Nat \ {0} /\ Len(Tail(s)) = Len(s) - 1
           /\ \A i \in 1 .. Len(s) - 1 : Tail(s)[i] = s[i + 1]
  OBVIOUS

LEMMA Few ==
    ASSUME NEW S, NEW a \in S, NEW b \in S, NEW c \in S, NEW d \in S
    PROVE  /\ <<a>> \in Seq(S) /\ <<a, b>> \in Seq(S) /\ <<a, b, c>> \in Seq(S)
           /\ <<a, b, c, d>> \in Seq(S) /\ Len(<<a, b, c>>) = 3
  OBVIOUS

\* A function other than a lookahead runs.
LEMMA Running ==
    ASSUME ReadInv, NEW fn, fn # "lookahead", In(fn)
    PROVE  /\ stack \in Seq(Fixed) /\ stack # <<>> /\ Below \in Seq(Fixed)
           /\ f \in Fixed /\ f = stack[1] /\ f.fn = fn
<1>1. ASSUME NEW g \in Looking, NEW below \in Seq(Fixed), stack = <<g>> \o below PROVE FALSE
  <2>1. g \in Looking \cup Fixed /\ below \in Seq(Looking \cup Fixed)
    OBVIOUS
  <2>2. Head(stack) = g
    BY <1>1, <2>1, OnTop
  <2>3. g.fn = "lookahead"
    BY DEF Looking
  <2> QED
    BY <2>2, <2>3 DEF In, f
<1>2. stack \in Seq(Fixed) /\ stack # <<>> /\ f.fn = fn
  BY <1>1 DEF ReadInv, Framed, In
<1> QED
  BY <1>2, OffTop DEF f, Below

LEMMA PlacedFar == ASSUME NEW s, NEW c \in Nat, c >= 3 PROVE Placed(s, c)
  BY DEF Placed

LEMMA PlacedOn ==
    ASSUME NEW s, NEW c \in Nat, Placed(s, c), NEW d \in Nat, d >= c PROVE Placed(s, d)
  BY DEF Placed

LEMMA PlacedPush ==
    ASSUME NEW s \in Seq(Fixed), NEW c \in Nat, Placed(s, c), NEW g \in {Whitespace, Comment}
    PROVE  Placed(<<g>> \o s, c)
<1> PICK n \in Nat : n = Len(s)
  OBVIOUS
<1>1. g \in Fixed /\ g.fn \notin InValue \cup {"key", "barekey"}
  BY DEF Fixed, InValue, Whitespace, Comment
<1>2. PICK r \in Seq(Fixed) : r = <<g>> \o s
  BY <1>1, OnTop
<1>3. Len(r) = n + 1 /\ r[1] = g /\ \A i \in 1 .. n : r[i + 1] = s[i]
  BY <1>1, <1>2, OnTop
<1>4. ASSUME NEW i \in 1 .. Len(r), i # 1
      PROVE  i - 1 \in 1 .. Len(s) /\ r[i] = s[i - 1]
             /\ \A j \in 1 .. (i - 1) - 1 : j + 1 \in 1 .. i - 1 /\ r[j + 1] = s[j]
  BY <1>3, <1>4
<1>5. ASSUME NEW i \in 1 .. Len(r), i # 1, NEW fn, \E j \in 1 .. (i - 1) - 1 : s[j].fn = fn
      PROVE  \E j \in 1 .. i - 1 : r[j].fn = fn
  <2>1. PICK j \in 1 .. (i - 1) - 1 : s[j].fn = fn
    BY <1>5
  <2>2. j + 1 \in 1 .. i - 1 /\ r[j + 1] = s[j]
    BY <1>4, <1>5, <2>1
  <2> QED
    BY <2>1, <2>2
<1>6. ASSUME c < 3, NEW i \in 1 .. Len(r), r[i].fn \in InValue
      PROVE  \E j \in 1 .. i - 1 : r[j].fn = "key"
  <2>1. i # 1
    BY <1>1, <1>3, <1>6
  <2>2. \E j \in 1 .. (i - 1) - 1 : s[j].fn = "key"
    BY <1>4, <1>6, <2>1 DEF Placed
  <2> QED
    BY <1>5, <2>1, <2>2
<1>7. ASSUME c < 2, NEW i \in 1 .. Len(r)
      PROVE  /\ r[i].fn = "key" /\ ~r[i].expecting => \E j \in 1 .. i - 1 : r[j].fn = "barekey"
             /\ r[i].fn = "barekey" => r[i].idx = 0
  <2>1. CASE i = 1
    BY <1>1, <1>3, <2>1
  <2>2. CASE i # 1
    <3>1. i - 1 \in 1 .. Len(s) /\ r[i] = s[i - 1]
      BY <1>4, <2>2
    <3>2. r[i].fn = "key" /\ ~r[i].expecting
             => \E j \in 1 .. (i - 1) - 1 : s[j].fn = "barekey"
      BY <1>7, <3>1 DEF Placed
    <3>3. r[i].fn = "barekey" => r[i].idx = 0
      BY <1>7, <3>1 DEF Placed
    <3> QED
      BY <1>5, <2>2, <3>2, <3>3
  <2> QED
    BY <2>1, <2>2
<1> QED
  BY <1>2, <1>6, <1>7 DEF Placed

LEMMA PlacedPop ==
    ASSUME NEW s \in Seq(Fixed), s # <<>>, NEW c \in Nat, Placed(s, c),
           s[1].fn # "key", s[1].fn = "barekey" => c >= 2
    PROVE  Placed(Tail(s), c)
<1>1. PICK r \in Seq(Fixed) : r = Tail(s)
  BY OffTop
<1>2. ASSUME NEW i \in 1 .. Len(r) PROVE i + 1 \in 1 .. Len(s) /\ r[i] = s[i + 1]
  BY <1>1, <1>2, OffTop
<1>3. ASSUME NEW i \in 1 .. Len(r), NEW fn, fn # s[1].fn,
             \E j \in 1 .. (i + 1) - 1 : s[j].fn = fn
      PROVE  \E j \in 1 .. i - 1 : r[j].fn = fn
  <2>1. PICK j \in 1 .. i : s[j].fn = fn
    BY <1>3
  <2>2. j # 1 /\ j - 1 \in 1 .. i - 1 /\ j - 1 \in 1 .. Len(r)
    BY <1>3, <2>1
  <2>3. r[j - 1] = s[j]
    BY <1>2, <2>2
  <2> QED
    BY <2>1, <2>2, <2>3
<1>4. c < 3 => \A i \in 1 .. Len(r) :
          r[i].fn \in InValue => \E j \in 1 .. i - 1 : r[j].fn = "key"
  <2> SUFFICES ASSUME c < 3, NEW i \in 1 .. Len(r), r[i].fn \in InValue
               PROVE  \E j \in 1 .. i - 1 : r[j].fn = "key"
    OBVIOUS
  <2>1. \E j \in 1 .. (i + 1) - 1 : s[j].fn = "key"
    BY <1>2 DEF Placed
  <2> QED
    BY <1>3, <2>1
<1>5. c < 2 => \A i \in 1 .. Len(r) :
          /\ r[i].fn = "key" /\ ~r[i].expecting => \E j \in 1 .. i - 1 : r[j].fn = "barekey"
          /\ r[i].fn = "barekey" => r[i].idx = 0
  <2> SUFFICES ASSUME c < 2, NEW i \in 1 .. Len(r)
               PROVE  /\ r[i].fn = "key" /\ ~r[i].expecting
                            => \E j \in 1 .. i - 1 : r[j].fn = "barekey"
                      /\ r[i].fn = "barekey" => r[i].idx = 0
    OBVIOUS
  <2>1. s[1].fn # "barekey"
    OBVIOUS
  <2>2. ASSUME r[i].fn = "key" /\ ~r[i].expecting
        PROVE  \E j \in 1 .. (i + 1) - 1 : s[j].fn = "barekey"
    BY <1>2, <2>2 DEF Placed
  <2>3. r[i].fn = "barekey" => r[i].idx = 0
    BY <1>2 DEF Placed
  <2> QED
    BY <1>3, <2>1, <2>2, <2>3
<1> QED
  BY <1>1, <1>4, <1>5 DEF Placed

\* The innermost function goes on with other locals.
LEMMA PlacedTop ==
    ASSUME NEW s \in Seq(Fixed), s # <<>>, NEW c \in Nat, Placed(s, c),
           NEW g \in Fixed, g.fn = s[1].fn,
           g.fn = "key" => g.expecting, g.fn = "barekey" => g.idx = 0 \/ c >= 2
    PROVE  Placed(<<g>> \o Tail(s), c)
<1>1. PICK r \in Seq(Fixed) : r = <<g>> \o Tail(s)
  BY OffTop, OnTop
<1>2. Len(r) = Len(s) /\ r[1] = g /\ \A i \in 2 .. Len(s) : r[i] = s[i]
  <2>1. Tail(s) \in Seq(Fixed) /\ Len(Tail(s)) = Len(s) - 1 /\ Len(s) \in Nat \ {0}
    BY OffTop
  <2>2. Len(r) = Len(Tail(s)) + 1 /\ r[1] = g
    BY <1>1, <2>1, OnTop
  <2>3. ASSUME NEW i \in 2 .. Len(s) PROVE r[i] = s[i]
    <3>1. i - 1 \in 1 .. Len(Tail(s)) /\ i - 1 \in 1 .. Len(s) - 1 /\ (i - 1) + 1 = i
      BY <2>1
    <3>2. r[(i - 1) + 1] = Tail(s)[i - 1] /\ Tail(s)[i - 1] = s[(i - 1) + 1]
      BY <1>1, <2>1, <3>1, OnTop, OffTop
    <3> QED
      BY <3>1, <3>2
  <2> QED
    BY <2>1, <2>2, <2>3
<1>3. Len(s) \in Nat /\ \A i \in 1 .. Len(s) : r[i].fn = s[i].fn
  <2>1. \A i \in 1 .. Len(s) : i = 1 \/ i \in 2 .. Len(s)
    OBVIOUS
  <2> QED
    BY <1>2, <2>1
<1>4. \A i \in 1 .. Len(s) : \A j \in 1 .. i - 1 : j \in 1 .. Len(s)
  OBVIOUS
<1>5. c < 3 => \A i \in 1 .. Len(r) :
          r[i].fn \in InValue => \E j \in 1 .. i - 1 : r[j].fn = "key"
  BY <1>2, <1>3, <1>4 DEF Placed
<1>6. ASSUME c < 2, NEW i \in 1 .. Len(r)
      PROVE  /\ r[i].fn = "key" /\ ~r[i].expecting => \E j \in 1 .. i - 1 : r[j].fn = "barekey"
             /\ r[i].fn = "barekey" => r[i].idx = 0
  <2>1. CASE i = 1
    BY <1>2, <1>6, <2>1
  <2>2. CASE i # 1
    <3>1. i \in 1 .. Len(s) /\ i \in 2 .. Len(s)
      BY <1>2, <2>2
    <3>2. r[i] = s[i]
      BY <1>2, <3>1
    <3> QED
      BY <1>3, <1>4, <1>6, <3>1, <3>2 DEF Placed
  <2> QED
    BY <2>1, <2>2
<1> QED
  BY <1>1, <1>5, <1>6 DEF Placed

-----------------------------------------------------------------------------
(* The steps. *)

Onward == ReadInv' /\ tok'.cursor >= tok.cursor /\ KeepsText(tok, tok')

\* Where a function may be once it has read on, or looked for a line end.
Ahead(t) == Sound(Char, t) /\ t.cursor >= tok.cursor /\ KeepsText(tok, t)

LEMMA Here ==
    ASSUME ReadInv
    PROVE  /\ Ahead(tok) /\ tok.cursor \in Nat /\ tok.cursor >= 1
           /\ \A t : Ahead(t) => t.cursor \in Nat
           /\ \A t : Ahead(t) => \A u \in Reads(t) : Ahead(u)
           /\ \A t : Ahead(t) => \A u \in NotNewline(t) \cup AtNewline(t) : Ahead(u)
           /\ tok.has_token => \A u \in Reads(tok) : u.cursor = tok.cursor + 1
<1>1. scenario.letters \in SUBSET Char /\ Sound(Char, tok)
  BY ScenarioLetters DEF ReadInv
<1>2. tok.cursor \in Nat
  BY <1>1, SoundToken
<1>3. \A t : Ahead(t) => t.cursor \in Nat
  BY SoundToken DEF Ahead
<1>4. ASSUME NEW t, Ahead(t), NEW u \in Reads(t) PROVE Ahead(u)
  <2>1. Sound(Char, u) /\ KeepsText(t, u) /\ (u.cursor = t.cursor + 1 \/ u.cursor = t.cursor)
    BY <1>1, <1>4, ReadsSound DEF Reads, Ahead
  <2>2. u.cursor >= tok.cursor
    BY <1>2, <1>3, <1>4, <2>1 DEF Ahead
  <2>3. KeepsText(tok, u)
    BY <1>1, <1>4, <2>1, TextKept DEF Ahead
  <2> QED
    BY <2>1, <2>2, <2>3 DEF Ahead
<1>5. ASSUME NEW t, Ahead(t), NEW u \in NotNewline(t) \cup AtNewline(t) PROVE Ahead(u)
  <2>1. Sound(Char, u) /\ u.cursor >= t.cursor /\ KeepsText(t, u)
    BY <1>1, <1>5, NewlinesSound DEF Ahead
  <2>2. u.cursor \in Nat
    BY <2>1, SoundToken
  <2>3. KeepsText(tok, u)
    BY <1>1, <1>5, <2>1, TextKept DEF Ahead
  <2>4. u.cursor >= tok.cursor
    BY <1>2, <1>3, <1>5, <2>1, <2>2 DEF Ahead
  <2> QED
    BY <2>1, <2>3, <2>4 DEF Ahead
<1>6. tok.has_token => \A u \in Reads(tok) : u.cursor = tok.cursor + 1
  BY <1>1, ReadsSound DEF Reads
<1>7. tok.cursor >= 1
  BY DEF ReadInv, Placed
<1>8. KeepsText(tok, tok)
  BY <1>1, TextKept
<1> QED
  BY <1>1, <1>2, <1>3, <1>4, <1>5, <1>6, <1>7, <1>8 DEF Ahead

LEMMA GoOn ==
    ASSUME ReadInv, NEW t, Ahead(t), NEW s \in Seq(Fixed), Placed(s, t.cursor), Go(t, s)
    PROVE  Onward
<1>1. tok' = t /\ stack' = s /\ result' = result /\ scenario' = scenario
  BY DEF Go
<1> QED
  BY <1>1 DEF ReadInv, Framed, Ahead, Onward

LEMMA FailsOnward ==
    ASSUME ReadInv, stack \in Seq(Fixed), NEW t, Ahead(t), Fail(t)
    PROVE  Onward
<1>1. tok' = t /\ stack' = stack /\ result' = "failed" /\ scenario' = scenario
  BY DEF Fail
<1>2. Placed(stack, t.cursor)
  BY Here, PlacedOn DEF ReadInv, Ahead
<1> QED
  BY <1>1, <1>2 DEF ReadInv, Framed, Ahead, Onward

\* In a value enough has been read for any step.
LEMMA FarOnward ==
    ASSUME ReadInv, In("value") \/ In("number") \/ In("array") \/ In("inline")
    PROVE  /\ stack \in Seq(Fixed) /\ Below \in Seq(Fixed) /\ f \in Fixed
           /\ tok.cursor >= 3
           /\ \A t : Ahead(t) => \A s \in Seq(Fixed) : Go(t, s) => Onward
           /\ \A t : Ahead(t) => (Fail(t) => Onward)
<1>1. /\ stack \in Seq(Fixed) /\ stack # <<>> /\ Below \in Seq(Fixed) /\ f \in Fixed
      /\ f = stack[1] /\ f.fn \in InValue
  BY Running DEF InValue
<1>2. tok.cursor >= 3
  <2>1. 1 \in 1 .. Len(stack)
    BY <1>1, OffTop
  <2> QED
    BY <1>1, <2>1, Here DEF ReadInv, Placed
<1>3. ASSUME NEW t, Ahead(t), NEW s \in Seq(Fixed), Go(t, s) PROVE Onward
  <2>1. t.cursor \in Nat /\ t.cursor >= 3
    BY <1>2, <1>3, Here DEF Ahead
  <2> QED
    BY <1>3, <2>1, PlacedFar, GoOn
<1>4. ASSUME NEW t, Ahead(t), Fail(t) PROVE Onward
  BY <1>1, <1>4, FailsOnward
<1> QED
  BY <1>1, <1>2, <1>3, <1>4

\* White space, a comment or nothing is read on top of what is there.
LEMMA PushOnward ==
    ASSUME ReadInv, stack \in Seq(Fixed), NEW t, Ahead(t), NEW g \in {Whitespace, Comment},
           Go(t, <<g>> \o stack) \/ Go(t, stack)
    PROVE  Onward
<1>1. Placed(stack, t.cursor) /\ t.cursor \in Nat
  BY Here, PlacedOn DEF ReadInv, Ahead
<1>2. g \in Fixed
  BY DEF Fixed, Whitespace, Comment
<1>3. Placed(<<g>> \o stack, t.cursor) /\ <<g>> \o stack \in Seq(Fixed)
  BY <1>1, <1>2, PlacedPush, OnTop
<1> QED
  BY <1>1, <1>3, GoOn

\* The innermost function returns.
LEMMA PopOnward ==
    ASSUME ReadInv, NEW fn \in {"whitespace", "comment", "barekey", "table"}, In(fn),
           NEW t, Ahead(t), fn = "barekey" => t.cursor >= 2, Go(t, Below)
    PROVE  Onward
<1>1. /\ stack \in Seq(Fixed) /\ stack # <<>> /\ Below \in Seq(Fixed)
      /\ stack[1].fn = fn
  BY Running
<1>2. Placed(stack, t.cursor) /\ t.cursor \in Nat
  BY Here, PlacedOn DEF ReadInv, Ahead
<1>3. Placed(Below, t.cursor)
  BY <1>1, <1>2, PlacedPop DEF Below
<1> QED
  BY <1>1, <1>3, GoOn

LEMMA WhitespaceOnward == ASSUME ReadInv, WhitespaceStep PROVE Onward
<1>1. In("whitespace") /\ stack \in Seq(Fixed)
  BY Running DEF WhitespaceStep
<1>2. CASE tok.has_token /\ is_whitespace(tok.token)
  <2>1. PICK t \in Reads(tok) : Go(t, stack)
    BY <1>2 DEF WhitespaceStep, Next1
  <2> QED
    BY <1>1, <2>1, Here, PushOnward
<1>3. CASE ~(tok.has_token /\ is_whitespace(tok.token))
  <2>1. Go(tok, Below)
    BY <1>3 DEF WhitespaceStep, Return
  <2> QED
    BY <1>1, <2>1, Here, PopOnward
<1> QED
  BY <1>2, <1>3

LEMMA CommentOnward == ASSUME ReadInv, CommentStep PROVE Onward
<1>1. In("comment") /\ stack \in Seq(Fixed)
  BY Running DEF CommentStep, Loop
<1>2. PICK r \in ReadsFrom(tok, CommentLetters) :
          \/ \E n \in AtNewline(r) : \E t \in Reads(n) : Return(t)
          \/ \E n \in NotNewline(r) : IF is_control(n.token) THEN Fail(n) ELSE Go(n, stack)
  BY DEF CommentStep
<1>3. Ahead(r)
  <2>1. Sound(Char, tok) /\ CommentLetters \in SUBSET Char
    BY ScenarioLetters DEF ReadInv
  <2>2. /\ Sound(Char, r) /\ (r.cursor = tok.cursor + 1 \/ r.cursor = tok.cursor)
        /\ KeepsText(tok, r)
    BY <2>1, ReadsSound
  <2> QED
    BY <2>2, Here DEF Ahead
<1>4. ASSUME NEW n \in AtNewline(r), NEW t \in Reads(n), Return(t) PROVE Onward
  BY <1>1, <1>3, <1>4, Here, PopOnward DEF Return
<1>5. ASSUME NEW n \in NotNewline(r), Fail(n) \/ Go(n, stack) PROVE Onward
  BY <1>1, <1>3, <1>5, Here, FailsOnward, PushOnward
<1> QED
  BY <1>2, <1>4, <1>5

\* A key or header goes on behind a segment, which is read on top of it.
LEMMA PlacedSegment ==
    ASSUME NEW s \in Seq(Fixed), s # <<>>, NEW c \in Nat, Placed(s, c),
           NEW b \in Fixed, b.fn = "barekey", b.idx = 0,
           NEW g \in Fixed, g.fn = s[1].fn, g.fn \in {"key", "table"}
    PROVE  Placed(<<b, g>> \o Tail(s), c)
<1>1. Tail(s) \in Seq(Fixed) /\ <<b, g>> \in Seq(Fixed)
  BY OffTop
<1>2. PICK n \in Nat : Len(s) = n + 1 /\ Len(Tail(s)) = n
  BY OffTop
<1>3. PICK r : r = <<b, g>> \o Tail(s)
  OBVIOUS
<1>4. r \in Seq(Fixed) /\ Len(r) = n + 2
  BY <1>1, <1>2, <1>3, ConcatProperties
<1>5. r[1] = b /\ r[2] = g
  BY <1>1, <1>2, <1>3, ConcatProperties
<1>6. \A i \in 3 .. n + 2 : r[i] = s[i - 1]
  <2> TAKE i \in 3 .. n + 2
  <2>1. i > 2 /\ i <= 2 + n /\ i - 2 \in 1 .. Len(s) - 1 /\ (i - 2) + 1 = i - 1
    BY <1>2
  <2>2. r[i] = Tail(s)[i - 2]
    BY <1>1, <1>2, <1>3, <2>1
  <2>3. Tail(s)[i - 2] = s[(i - 2) + 1]
    BY <2>1, OffTop
  <2> QED
    BY <2>1, <2>2, <2>3
<1>7. \A i \in 2 .. n + 2 : r[i].fn = s[i - 1].fn /\ i - 1 \in 1 .. Len(s)
  <2> TAKE i \in 2 .. n + 2
  <2>1. CASE i = 2
    BY <1>2, <1>5, <2>1
  <2>2. CASE i # 2
    <3>1. i \in 3 .. n + 2
      BY <2>2
    <3> QED
      BY <1>2, <1>6, <3>1
  <2> QED
    BY <2>1, <2>2
<1>8. ASSUME c < 3, NEW i \in 1 .. Len(r), r[i].fn \in InValue
      PROVE  \E j \in 1 .. i - 1 : r[j].fn = "key"
  <2>1. i # 1 /\ i \in 2 .. n + 2
    BY <1>4, <1>5, <1>8 DEF InValue
  <2>2. PICK j \in 1 .. (i - 1) - 1 : s[j].fn = "key"
    BY <1>7, <1>8, <2>1 DEF Placed
  <2>3. j + 1 \in 1 .. i - 1 /\ j + 1 \in 2 .. n + 2 /\ (j + 1) - 1 = j
    BY <2>1, <2>2
  <2> QED
    BY <1>7, <2>2, <2>3
<1>9. ASSUME c < 2, NEW i \in 1 .. Len(r)
      PROVE  /\ r[i].fn = "key" /\ ~r[i].expecting => \E j \in 1 .. i - 1 : r[j].fn = "barekey"
             /\ r[i].fn = "barekey" => r[i].idx = 0
  <2>1. i # 1 => 1 \in 1 .. i - 1
    BY <1>4
  <2>2. r[i].fn = "key" /\ ~r[i].expecting => \E j \in 1 .. i - 1 : r[j].fn = "barekey"
    BY <1>5, <2>1
  <2>3. ASSUME r[i].fn = "barekey" PROVE r[i].idx = 0
    <3>1. CASE i = 1
      BY <1>5, <3>1
    <3>2. CASE i # 1
      <4>1. i # 2 /\ i \in 3 .. n + 2 /\ i \in 2 .. n + 2
        BY <1>4, <1>5, <2>3, <3>2
      <4>2. r[i] = s[i - 1] /\ i - 1 \in 1 .. Len(s)
        BY <1>6, <1>7, <4>1
      <4> QED
        BY <1>9, <2>3, <4>2 DEF Placed
    <3> QED
      BY <3>1, <3>2
  <2> QED
    BY <2>2, <2>3
<1>10. c >= 1
  BY DEF Placed
<1>11. Placed(r, c)
  BY <1>8, <1>9, <1>10 DEF Placed
<1> QED
  BY <1>3, <1>11

LEMMA ConstantFrames ==
    /\ Whitespace \in Fixed /\ Comment \in Fixed
    /\ \A b, c \in BOOLEAN : /\ Key(b) \in Fixed /\ Key(b).fn = "key" /\ Key(b).expecting = b
                             /\ Table(b, c) \in Fixed /\ Inline(b, c) \in Fixed
    /\ \A end \in {"=", "]"} : /\ BareKey(end) \in Fixed /\ BareKey(end).fn = "barekey"
                               /\ BareKey(end).idx = 0
    /\ \A e \in NumEnds : Value(e) \in Fixed /\ Number(e) \in Fixed
    /\ \A b \in BOOLEAN : \A n \in 0 .. MaxArray : Array(b, n) \in Fixed
  BY MaxIdAssumption, MaxArrayAssumption
     DEF Fixed, Key, Table, Inline, BareKey, Value, Number, Array

\* The locals that a step changes.
LEMMA KeyFrame ==
    ASSUME NEW g \in Fixed, g.fn \in {"key", "table"}, NEW b \in BOOLEAN
    PROVE  /\ [g EXCEPT !.expecting = b] \in Fixed
           /\ [g EXCEPT !.expecting = b].fn = g.fn
           /\ [g EXCEPT !.expecting = b].expecting = b
<1>1. CASE g.fn = "key"
  <2>1. g \in [fn : {"key"}, expecting : BOOLEAN]
    BY <1>1 DEF Fixed, Whitespace, Comment
  <2>2. [g EXCEPT !.expecting = b] \in [fn : {"key"}, expecting : BOOLEAN]
    BY <2>1
  <2> QED
    BY <1>1, <2>1, <2>2 DEF Fixed
<1>2. CASE g.fn = "table"
  <2>1. g \in [fn : {"table"}, expecting : BOOLEAN, double : BOOLEAN]
    BY <1>2 DEF Fixed, Whitespace, Comment
  <2>2. [g EXCEPT !.expecting = b] \in [fn : {"table"}, expecting : BOOLEAN, double : BOOLEAN]
    BY <2>1
  <2> QED
    BY <1>2, <2>1, <2>2 DEF Fixed
<1> QED
  BY <1>1, <1>2

LEMMA BareKeyFrame ==
    ASSUME NEW g \in Fixed, g.fn = "barekey"
    PROVE  /\ g.idx \in 0 .. MaxIdLength
           /\ /\ [g EXCEPT !.done = TRUE] \in Fixed
              /\ [g EXCEPT !.done = TRUE].fn = "barekey"
              /\ [g EXCEPT !.done = TRUE].idx = g.idx
           /\ g.idx < MaxIdLength => /\ [g EXCEPT !.idx = @ + 1] \in Fixed
                                     /\ [g EXCEPT !.idx = @ + 1].fn = "barekey"
<1> DEFINE F == [fn : {"barekey"}, end : {"=", "]"}, idx : 0 .. MaxIdLength, done : BOOLEAN]
<1>1. g \in F
  BY DEF Fixed, Whitespace, Comment
<1>2. [g EXCEPT !.done = TRUE] \in F /\ [g EXCEPT !.done = TRUE].idx = g.idx
  BY <1>1
<1>3. g.idx < MaxIdLength => g.idx + 1 \in 0 .. MaxIdLength
  BY <1>1, MaxIdAssumption
<1>4. g.idx < MaxIdLength => [g EXCEPT !.idx = @ + 1] \in F
  BY <1>1, <1>3
<1>5. F \subseteq Fixed /\ \A h \in F : h.fn = "barekey"
  BY DEF Fixed
<1> QED
  BY <1>1, <1>2, <1>4, <1>5

LEMMA BareKeyOnward == ASSUME ReadInv, BareKeyStep PROVE Onward
<1>1. In("barekey")
  BY DEF BareKeyStep, Ended, Loop
<1>2. /\ stack \in Seq(Fixed) /\ stack # <<>> /\ Below \in Seq(Fixed) /\ f \in Fixed
      /\ f = stack[1] /\ f.fn = "barekey" /\ f.idx \in 0 .. MaxIdLength
  BY <1>1, Running, BareKeyFrame
<1>3. Placed(stack, tok.cursor) /\ Ahead(tok) /\ tok.cursor \in Nat /\ tok.cursor >= 1
  BY Here DEF ReadInv
<1>4. f.idx # 0 => tok.cursor >= 2
  <2>1. 1 \in 1 .. Len(stack)
    BY <1>2, OffTop
  <2> QED
    BY <1>2, <1>3, <2>1 DEF Placed
<1>5. CASE Fail(tok)
  BY <1>2, <1>3, <1>5, FailsOnward
<1>6. CASE f.idx # 0 /\ Return(tok)
  BY <1>1, <1>3, <1>4, <1>6, PopOnward DEF Return
<1>7. CASE Go(tok, <<Whitespace, [f EXCEPT !.done = TRUE]>> \o Below)
  <2>1. PICK g \in Fixed : g = [f EXCEPT !.done = TRUE] /\ g.fn = "barekey" /\ g.idx = f.idx
    BY <1>2, BareKeyFrame
  <2>2. PICK s \in Seq(Fixed) : s = <<g>> \o Below
    BY <1>2, OnTop
  <2>3. Placed(s, tok.cursor)
    BY <1>2, <1>3, <1>4, <2>1, <2>2, PlacedTop DEF Below
  <2>4. <<Whitespace, g>> \o Below = <<Whitespace>> \o s
    BY <1>2, <2>2, ConstantFrames
  <2>5. Placed(<<Whitespace>> \o s, tok.cursor) /\ <<Whitespace>> \o s \in Seq(Fixed)
    BY <1>3, <2>3, PlacedPush, OnTop, ConstantFrames
  <2> QED
    BY <1>3, <1>7, <2>1, <2>4, <2>5, GoOn
<1>8. CASE tok.has_token /\ ~IdFull(f.idx) /\ Next1(<<[f EXCEPT !.idx = @ + 1]>> \o Below)
  <2>1. f.idx < MaxIdLength
    BY <1>2, <1>8, MaxIdAssumption DEF IdFull
  <2>2. PICK g \in Fixed : g = [f EXCEPT !.idx = @ + 1] /\ g.fn = "barekey"
    BY <1>2, <2>1, BareKeyFrame
  <2>3. PICK t \in Reads(tok) : Go(t, <<g>> \o Below)
    BY <1>8, <2>2 DEF Next1
  <2>4. Ahead(t) /\ t.cursor = tok.cursor + 1 /\ t.cursor \in Nat
    BY <1>3, <1>8, Here
  <2>5. t.cursor >= 2 /\ Placed(stack, t.cursor)
    BY <1>3, <2>4, PlacedOn
  <2>6. Placed(<<g>> \o Below, t.cursor) /\ <<g>> \o Below \in Seq(Fixed)
    BY <1>2, <2>2, <2>4, <2>5, PlacedTop, OnTop DEF Below
  <2> QED
    BY <2>3, <2>4, <2>6, GoOn
<1> QED
  BY <1>5, <1>6, <1>7, <1>8 DEF BareKeyStep, Loop

\* A '.', white space or a segment in parse_key and in the functions of headers.
LEMMA SegmentOnward ==
    ASSUME ReadInv, NEW fn \in {"key", "table"}, In(fn), tok.has_token,
           NEW end \in {"=", "]"}, Segment(end)
    PROVE  Onward
<1>1. /\ stack \in Seq(Fixed) /\ stack # <<>> /\ Below \in Seq(Fixed) /\ f \in Fixed
      /\ f = stack[1] /\ f.fn = fn
  BY Running
<1>2. Placed(stack, tok.cursor) /\ Ahead(tok) /\ tok.cursor \in Nat /\ tok.cursor >= 1
  BY Here DEF ReadInv
<1>3. CASE Fail(tok)
  BY <1>1, <1>2, <1>3, FailsOnward
<1>4. CASE Next1(<<[f EXCEPT !.expecting = TRUE]>> \o Below)
  <2>1. PICK g \in Fixed : g = [f EXCEPT !.expecting = TRUE] /\ g.fn = fn /\ g.expecting
    BY <1>1, KeyFrame
  <2>2. PICK t \in Reads(tok) : Go(t, <<g>> \o Below)
    BY <1>4, <2>1 DEF Next1
  <2>3. Ahead(t) /\ t.cursor \in Nat /\ Placed(stack, t.cursor)
    BY <1>2, Here, PlacedOn DEF Ahead
  <2>4. <<g>> \o Below \in Seq(Fixed)
    BY <1>1, <2>1, OnTop
  <2>5. g.fn = stack[1].fn /\ g.fn # "barekey"
    BY <1>1, <2>1
  <2>6. Placed(<<g>> \o Tail(stack), t.cursor)
    BY <1>1, <2>1, <2>3, <2>5, PlacedTop
  <2> QED
    BY <2>2, <2>3, <2>4, <2>6, GoOn DEF Below
<1>5. CASE Go(tok, <<Whitespace>> \o stack)
  BY <1>1, <1>2, <1>5, PushOnward
<1>6. CASE Go(tok, <<BareKey(end), [f EXCEPT !.expecting = FALSE]>> \o Below)
  <2>1. PICK g \in Fixed : g = [f EXCEPT !.expecting = FALSE] /\ g.fn = fn
    BY <1>1, KeyFrame
  <2>2. PICK b \in Fixed : b = BareKey(end) /\ b.fn = "barekey" /\ b.idx = 0
    BY ConstantFrames
  <2>3. PICK s \in Seq(Fixed) : s = <<b, g>> \o Below
    <3>1. <<b, g>> \in Seq(Fixed)
      OBVIOUS
    <3> QED
      BY <1>1, <3>1, Pushed
  <2>4. Placed(s, tok.cursor)
    BY <1>1, <1>2, <2>1, <2>2, <2>3, PlacedSegment DEF Below
  <2> QED
    BY <1>2, <1>6, <2>1, <2>2, <2>3, <2>4, GoOn
<1> QED
  BY <1>3, <1>4, <1>5, <1>6 DEF Segment

LEMMA KeyOnward == ASSUME ReadInv, KeyStep PROVE Onward
<1>1. In("key")
  BY DEF KeyStep, Ended, Loop
<1>2. /\ stack \in Seq(Fixed) /\ stack # <<>> /\ Below \in Seq(Fixed)
      /\ f = stack[1] /\ f.fn = "key"
  BY <1>1, Running
<1>3. Ahead(tok) /\ tok.cursor \in Nat /\ Placed(stack, tok.cursor)
  BY Here DEF ReadInv
<1>4. CASE Fail(tok)
  BY <1>2, <1>3, <1>4, FailsOnward
<1>5. CASE tok.has_token /\ Segment("=")
  BY <1>1, <1>5, SegmentOnward
<1>6. CASE tok.has_token /\ ~f.expecting /\ Next1(Below)
  <2>1. 1 \in 1 .. Len(stack)
    BY <1>2, OffTop
  <2>2. tok.cursor >= 2
    BY <1>2, <1>3, <1>6, <2>1 DEF Placed
  <2>3. PICK t \in Reads(tok) : Go(t, Below)
    BY <1>6 DEF Next1
  <2>4. Ahead(t) /\ t.cursor = tok.cursor + 1
    BY <1>3, <1>6, Here
  <2>5. t.cursor \in Nat /\ t.cursor >= 3
    BY <1>3, <2>2, <2>4
  <2>6. Placed(Below, t.cursor)
    BY <2>5, PlacedFar
  <2> QED
    BY <1>2, <2>3, <2>4, <2>6, GoOn
<1> QED
  BY <1>4, <1>5, <1>6 DEF KeyStep, Loop

LEMMA TableOnward == ASSUME ReadInv, TableStep PROVE Onward
<1>1. In("table")
  BY DEF TableStep, Ended, Loop
<1>2. stack \in Seq(Fixed)
  BY <1>1, Running
<1>3. Ahead(tok)
  BY Here
<1>4. CASE Fail(tok)
  BY <1>2, <1>3, <1>4, FailsOnward
<1>5. CASE tok.has_token /\ Segment("]")
  BY <1>1, <1>5, SegmentOnward
<1>6. ASSUME NEW t, Ahead(t), Go(t, Below) PROVE Onward
  BY <1>1, <1>6, PopOnward
<1>7. CASE Next1(Below)
  <2>1. PICK t \in Reads(tok) : Go(t, Below)
    BY <1>7 DEF Next1
  <2> QED
    BY <1>3, <1>6, <2>1, Here
<1>8. ASSUME NEW t \in Reads(tok),
             IF t.token # "]" THEN Fail(t) ELSE \E u \in Reads(t) : Return(u)
      PROVE  Onward
  <2>1. Ahead(t)
    BY <1>3, Here
  <2>2. CASE Fail(t)
    BY <1>2, <2>1, <2>2, FailsOnward
  <2>3. ASSUME NEW u \in Reads(t), Return(u) PROVE Onward
    BY <1>6, <2>1, <2>3, Here DEF Return
  <2> QED
    BY <1>8, <2>2, <2>3
<1> QED
  BY <1>4, <1>5, <1>7, <1>8 DEF TableStep, Loop

LEMMA NumEndsOf ==
    /\ TopEnd \in NumEnds /\ ArrayEnd \in NumEnds /\ InlineEnd \in NumEnds
    /\ \A g \in Fixed : g.fn = "value" => g.num_end \in NumEnds
    /\ \A g \in Looking : g.num_end \in NumEnds
  BY DEF NumEnds, Fixed, Looking, Whitespace, Comment

LEMMA ValueOnward == ASSUME ReadInv, ValueStep PROVE Onward
<1>1. In("value")
  BY DEF ValueStep, Ended, Loop
<1>2. /\ stack \in Seq(Fixed) /\ Below \in Seq(Fixed) /\ f \in Fixed /\ f.fn = "value"
      /\ tok.cursor >= 3
  BY <1>1, FarOnward DEF In
<1>3. \A t : Ahead(t) => (Fail(t) => Onward)
  BY <1>1, FarOnward
<1>4. ASSUME NEW t, Ahead(t), NEW g \in Fixed, NEW s \in {stack, Below}, Go(t, <<g>> \o s)
      PROVE  Onward
  <2>1. <<g>> \o s \in Seq(Fixed)
    BY <1>2, OnTop
  <2> QED
    BY <1>1, <1>4, <2>1, FarOnward
<1>5. Ahead(tok) /\ tok.cursor \in Nat
  BY Here
<1>6. ASSUME NEW n \in AtNewline(tok), Fail(n) PROVE Onward
  BY <1>3, <1>5, <1>6, Here
<1>7. ASSUME NEW n \in NotNewline(tok), is_digit(n.token),
             Go(n, <<Lookahead(f.num_end, n.cursor)>> \o Below)
      PROVE  Onward
  <2>1. Ahead(n)
    BY <1>5, Here
  <2>2. n.cursor \in Nat /\ n.cursor >= 3
    BY <1>2, <1>5, <2>1, Here DEF Ahead
  <2>3. n.has_token
    <3>1. n.token # NUL
      BY <1>7 DEF is_digit, NUL
    <3> QED
      BY <2>1, <3>1, SoundToken DEF Ahead
  <2>4. PICK g : g = Lookahead(f.num_end, n.cursor)
    OBVIOUS
  <2>5. g \in Looking /\ LooksFrom(g, n)
    <3>1. f.num_end \in NumEnds
      BY <1>2, NumEndsOf
    <3> QED
      BY <2>2, <2>3, <2>4, <3>1 DEF Lookahead, Looking, LooksFrom
  <2>6. Framed(<<g>> \o Below, n)
    BY <1>2, <2>5 DEF Framed
  <2>7. Placed(<<g>> \o Below, n.cursor)
    BY <2>2, PlacedFar
  <2>8. tok' = n /\ stack' = <<g>> \o Below /\ result' = result /\ scenario' = scenario
    BY <1>7, <2>4 DEF Go
  <2> QED
    BY <2>1, <2>6, <2>7, <2>8 DEF ReadInv, Ahead, Onward
<1>8. ASSUME NEW n \in NotNewline(tok), Go(n, <<Whitespace>> \o stack) PROVE Onward
  BY <1>4, <1>5, <1>8, Here, ConstantFrames
<1>9. ASSUME NEW n \in NotNewline(tok), NEW t \in Reads(n),
             \/ Go(t, <<Array(TRUE, 0)>> \o Below)
             \/ Go(t, <<Inline(TRUE, TRUE)>> \o Below)
      PROVE  Onward
  <2>1. Ahead(t)
    BY <1>5, Here
  <2>2. 0 \in 0 .. MaxArray
    BY MaxArrayAssumption
  <2>3. Array(TRUE, 0) \in Fixed /\ Inline(TRUE, TRUE) \in Fixed
    BY <2>2, ConstantFrames
  <2> QED
    BY <1>4, <1>9, <2>1, <2>3
<1>10. ASSUME NEW n \in NotNewline(tok), Fail(n) PROVE Onward
  BY <1>3, <1>5, <1>10, Here
<1>11. CASE Fail(tok)
  BY <1>3, <1>5, <1>11
<1>12. ASSUME NEW n \in NotNewline(tok),
              CASE is_whitespace(n.token) -> Go(n, <<Whitespace>> \o stack)
                [] is_digit(n.token) -> Go(n, <<Lookahead(f.num_end, n.cursor)>> \o Below)
                [] n.token = "[" -> \E t \in Reads(n) : Go(t, <<Array(TRUE, 0)>> \o Below)
                [] n.token = "{" -> \E t \in Reads(n) : Go(t, <<Inline(TRUE, TRUE)>> \o Below)
                [] OTHER -> Fail(n)
       PROVE  Onward
  BY <1>7, <1>8, <1>9, <1>10, <1>12
<1> QED
  BY <1>6, <1>11, <1>12 DEF ValueStep

\* The step that reads again: it goes back to where the value starts.
LEMMA LookaheadReturns ==
    ASSUME ReadInv, LookaheadStep
    PROVE  /\ ReadInv'
           /\ EnoughSeen => tok'.cursor = f.from
           /\ ~EnoughSeen => tok'.cursor >= tok.cursor
           /\ KeepsText(tok, tok')
<1>1. PICK g, below : /\ g \in Looking /\ below \in Seq(Fixed)
                      /\ stack = <<g>> \o below /\ LooksFrom(g, tok)
  <2>1. stack # <<>> /\ f.fn = "lookahead"
    BY DEF LookaheadStep, In
  <2>2. stack \notin Seq(Fixed)
    <3>1. ASSUME stack \in Seq(Fixed) PROVE Head(stack) \in Fixed
      BY <2>1, <3>1, OffTop
    <3>2. \A h \in Fixed : h.fn # "lookahead"
      BY DEF Fixed, Whitespace, Comment
    <3> QED
      BY <2>1, <3>1, <3>2 DEF f
  <2> QED
    BY <2>2 DEF ReadInv, Framed
<1>2. f = g /\ Below = below
  <2>1. g \in Looking \cup Fixed /\ below \in Seq(Looking \cup Fixed)
    BY <1>1
  <2>2. Head(stack) = g /\ Tail(stack) = below
    BY <1>1, <2>1, OnTop
  <2> QED
    BY <2>2 DEF f, Below
<1>3. /\ g.from \in Nat /\ g.from >= 3 /\ g.count \in 0 .. 4 /\ g.num_end \in NumEnds
  BY <1>1 DEF Looking, LooksFrom
<1>4. Ahead(tok) /\ tok.cursor \in Nat /\ Sound(Char, tok)
  BY Here DEF Ahead
<1>5. CASE EnoughSeen
  <2>1. g.count > 0 /\ tok.cursor > g.from
    BY <1>1, <1>2, <1>3, <1>5 DEF EnoughSeen, LooksFrom
  <2>2. PICK n \in Nat : n = tok.cursor - g.from
    BY <1>3, <1>4, <2>1
  <2>3. n > 0 /\ tok.cursor > n + 2 /\ tok.cursor - n = g.from
    BY <1>3, <1>4, <2>1, <2>2
  <2>4. PICK t : t = backtrack(tok, n, 0)
    OBVIOUS
  <2>5. Sound(Char, t) /\ t.cursor = g.from /\ t.stream = tok.stream
    BY <1>4, <2>3, <2>4, CharsAre, SoundBacks DEF Refuses
  <2>6. Go(t, <<Number(g.num_end)>> \o below)
    BY <1>2, <1>5, <2>2, <2>4 DEF LookaheadStep, Back
  <2>7. <<Number(g.num_end)>> \o below \in Seq(Fixed)
    BY <1>1, <1>3, ConstantFrames, OnTop
  <2>8. Placed(<<Number(g.num_end)>> \o below, t.cursor)
    BY <1>3, <2>5, PlacedFar
  <2>9. /\ tok' = t /\ stack' = <<Number(g.num_end)>> \o below
        /\ result' = result /\ scenario' = scenario
    BY <2>6 DEF Go
  <2>10. ReadInv'
    BY <2>5, <2>7, <2>8, <2>9 DEF ReadInv, Framed
  <2>11. KeepsText(tok, t)
    BY <1>4, <2>5 DEF Ahead, KeepsText
  <2> QED
    BY <1>2, <1>5, <2>5, <2>9, <2>10, <2>11
<1>6. CASE ~EnoughSeen
  <2>1. g.count # 4
    BY <1>2, <1>6 DEF EnoughSeen
  <2>2. PICK h : h = [g EXCEPT !.count = @ + 1]
    OBVIOUS
  <2>3. h \in Looking /\ h.count > 0 /\ h.from = g.from
    <3>1. g.count + 1 \in 0 .. 4 /\ g.count + 1 > 0
      BY <1>3, <2>1
    <3> QED
      BY <1>1, <2>2, <3>1 DEF Looking
  <2>4. PICK t \in Reads(tok) : Go(t, <<h>> \o below)
    BY <1>2, <1>6, <2>2 DEF LookaheadStep, Next1
  <2>5. /\ Sound(Char, t) /\ t.cursor \in Nat /\ t.cursor >= tok.cursor
        /\ tok.has_token => t.cursor = tok.cursor + 1
        /\ KeepsText(tok, t)
    BY <1>4, <2>4, Here DEF Ahead
  <2>6. t.cursor > g.from
    <3>1. CASE g.count = 0
      BY <1>1, <1>3, <1>4, <2>5, <3>1 DEF LooksFrom
    <3>2. CASE g.count > 0
      BY <1>1, <1>3, <1>4, <2>5, <3>2 DEF LooksFrom
    <3> QED
      BY <1>3, <3>1, <3>2
  <2>7. LooksFrom(h, t)
    BY <1>3, <2>3, <2>6 DEF LooksFrom
  <2>8. Framed(<<h>> \o below, t)
    BY <1>1, <2>3, <2>7 DEF Framed
  <2>9. Placed(<<h>> \o below, t.cursor)
    BY <1>3, <2>5, <2>6, PlacedFar
  <2>10. /\ tok' = t /\ stack' = <<h>> \o below
         /\ result' = result /\ scenario' = scenario
    BY <2>4 DEF Go
  <2>11. ReadInv'
    BY <2>5, <2>8, <2>9, <2>10 DEF ReadInv
  <2> QED
    BY <1>6, <2>5, <2>10, <2>11
<1> QED
  BY <1>5, <1>6

LEMMA NumberFrame ==
    ASSUME NEW g \in Fixed, g.fn = "number", NEW as \in {"int", "frac", "garbage"}
    PROVE  /\ [g EXCEPT !.as = as] \in Fixed
           /\ g.as \in {"int", "frac", "garbage"}
<1> DEFINE F == [fn : {"number"}, num_end : NumEnds, as : {"int", "frac", "garbage"}]
<1>1. g \in F
  BY DEF Fixed, Whitespace, Comment
<1>2. [g EXCEPT !.as = as] \in F /\ g.as \in {"int", "frac", "garbage"}
  BY <1>1
<1>3. F \subseteq Fixed
  BY DEF Fixed
<1> QED
  BY <1>2, <1>3

LEMMA NumberOnward == ASSUME ReadInv, NumberStep PROVE Onward
<1>1. In("number")
  BY DEF NumberStep, Loop
<1>2. Below \in Seq(Fixed) /\ f \in Fixed /\ f.fn = "number"
  BY <1>1, FarOnward DEF In
<1>3. Ahead(tok)
  BY Here
<1>4. \A t : Ahead(t) => (Fail(t) \/ Go(t, Below) => Onward)
  BY <1>1, <1>2, FarOnward
<1>5. ASSUME NEW t, Ahead(t), NEW as \in {"int", "frac", "garbage"},
             Go(t, <<[f EXCEPT !.as = as]>> \o Below)
      PROVE  Onward
  <2>1. <<[f EXCEPT !.as = as]>> \o Below \in Seq(Fixed)
    BY <1>2, NumberFrame, OnTop
  <2> QED
    BY <1>1, <1>5, <2>1, FarOnward
<1>6. CASE Fail(tok) \/ Return(tok)
  BY <1>3, <1>4, <1>6 DEF Return
<1>7. ASSUME NEW t \in Reads(tok),
             IF is_digit(t.token) /\ is_digit(t.prev_prev)
             THEN \E u \in Reads(t) :
                     Go(u, <<[f EXCEPT !.as = IF @ = "int" THEN "frac" ELSE "garbage"]>> \o Below)
             ELSE Fail(t)
      PROVE  Onward
  <2>1. Ahead(t)
    BY <1>3, Here
  <2>2. CASE Fail(t)
    BY <1>4, <2>1, <2>2
  <2>3. ASSUME NEW u \in Reads(t),
               Go(u, <<[f EXCEPT !.as = IF @ = "int" THEN "frac" ELSE "garbage"]>> \o Below)
        PROVE  Onward
    <3>1. PICK as \in {"int", "frac", "garbage"} : as = IF f.as = "int" THEN "frac" ELSE "garbage"
      OBVIOUS
    <3>2. Ahead(u)
      BY <2>1, Here
    <3> QED
      BY <1>5, <2>3, <3>1, <3>2
  <2> QED
    BY <1>7, <2>2, <2>3
<1>8. ASSUME Next1(<<[f EXCEPT !.as = IF is_digit(tok.token) THEN @ ELSE "garbage"]>> \o Below)
      PROVE  Onward
  <2>1. PICK as \in {"int", "frac", "garbage"} :
             as = IF is_digit(tok.token) THEN f.as ELSE "garbage"
    BY <1>2, NumberFrame
  <2>2. PICK t \in Reads(tok) : Go(t, <<[f EXCEPT !.as = as]>> \o Below)
    BY <1>8, <2>1 DEF Next1
  <2> QED
    BY <1>3, <1>5, <2>2, Here
<1> QED
  BY <1>6, <1>7, <1>8 DEF NumberStep

LEMMA ListFrame ==
    ASSUME NEW g \in Fixed, g.fn \in {"array", "inline"}
    PROVE  /\ [g EXCEPT !.sep = TRUE] \in Fixed
           /\ g.fn = "array" /\ g.len < MaxArray => g.len + 1 \in 0 .. MaxArray
<1> DEFINE A == [fn : {"array"}, sep : BOOLEAN, len : 0 .. MaxArray]
           I == [fn : {"inline"}, sep : BOOLEAN, first : BOOLEAN]
<1>1. A \subseteq Fixed /\ I \subseteq Fixed
  BY DEF Fixed
<1>2. CASE g.fn = "array"
  <2>1. g \in A
    BY <1>2 DEF Fixed, Whitespace, Comment
  <2>2. [g EXCEPT !.sep = TRUE] \in A
    BY <2>1
  <2>3. g.len < MaxArray => g.len + 1 \in 0 .. MaxArray
    BY <2>1, MaxArrayAssumption
  <2> QED
    BY <1>1, <2>2, <2>3
<1>3. CASE g.fn = "inline"
  <2>1. g \in I
    BY <1>3 DEF Fixed, Whitespace, Comment
  <2>2. [g EXCEPT !.sep = TRUE] \in I
    BY <2>1
  <2> QED
    BY <1>1, <1>3, <2>2
<1> QED
  BY <1>2, <1>3

\* What the loops of parse_array and parse_inlinetable may do.
LEMMA ListOnward ==
    ASSUME ReadInv, NEW fn \in {"array", "inline"}, In(fn)
    PROVE  /\ f \in Fixed /\ f.fn = fn /\ Below \in Seq(Fixed) /\ Ahead(tok)
           /\ \A t : Ahead(t) => (Fail(t) \/ Go(t, stack) \/ Go(t, Below) => Onward)
           /\ \A t : Ahead(t) => \A p \in Seq(Fixed) : \A s \in {stack, Below} :
                 Go(t, p \o s) => Onward
           /\ Next1(Below) \/ Next1(<<[f EXCEPT !.sep = TRUE]>> \o Below) => Onward
<1>1. /\ f \in Fixed /\ f.fn = fn /\ stack \in Seq(Fixed) /\ Below \in Seq(Fixed)
      /\ \A t : Ahead(t) => \A s \in Seq(Fixed) : Go(t, s) => Onward
      /\ \A t : Ahead(t) => (Fail(t) => Onward)
  BY FarOnward DEF In
<1>2. Ahead(tok)
  BY Here
<1>3. ASSUME NEW t, Ahead(t), NEW p \in Seq(Fixed), NEW s \in {stack, Below}, Go(t, p \o s)
      PROVE  Onward
  <2>1. p \o s \in Seq(Fixed)
    BY <1>1, Pushed
  <2> QED
    BY <1>1, <1>3, <2>1
<1>4. ASSUME Next1(Below) PROVE Onward
  <2>1. PICK t \in Reads(tok) : Go(t, Below)
    BY <1>4 DEF Next1
  <2> QED
    BY <1>1, <1>2, <2>1, Here
<1>5. ASSUME Next1(<<[f EXCEPT !.sep = TRUE]>> \o Below) PROVE Onward
  <2>1. PICK g \in Fixed : g = [f EXCEPT !.sep = TRUE]
    BY <1>1, ListFrame
  <2>2. PICK t \in Reads(tok) : Go(t, <<g>> \o Below)
    BY <1>5, <2>1 DEF Next1
  <2>3. <<g>> \in Seq(Fixed)
    OBVIOUS
  <2> QED
    BY <1>2, <1>3, <2>2, <2>3, Here
<1> QED
  BY <1>1, <1>2, <1>3, <1>4, <1>5

LEMMA ArrayOnward == ASSUME ReadInv, ArrayStep PROVE Onward
<1>1. In("array")
  BY DEF ArrayStep, Ended, Loop
<1>2. f \in Fixed /\ f.fn = "array" /\ Ahead(tok)
  BY <1>1, ListOnward
<1>3. /\ \A t : Ahead(t) => (Fail(t) \/ Go(t, stack) \/ Go(t, Below) => Onward)
      /\ Next1(Below) \/ Next1(<<[f EXCEPT !.sep = TRUE]>> \o Below) => Onward
  BY <1>1, ListOnward
<1>4. ASSUME NEW t, Ahead(t), NEW p \in Seq(Fixed), NEW s \in {stack, Below}, Go(t, p \o s)
      PROVE  Onward
  BY <1>1, <1>4, ListOnward
<1>5. CASE Fail(tok)
  BY <1>2, <1>3, <1>5
<1>6. ASSUME NEW n \in AtNewline(tok), NEW t \in Reads(n), Go(t, stack) PROVE Onward
  <2>1. Ahead(t)
    BY <1>2, Here
  <2> QED
    BY <1>3, <1>6, <2>1
<1>7. ASSUME f.len < MaxArray, NEW n \in NotNewline(tok),
             \/ Go(n, <<Whitespace>> \o stack)
             \/ Go(n, <<Comment>> \o stack)
             \/ Fail(n)
             \/ Go(n, <<Value(ArrayEnd), Array(FALSE, f.len + 1)>> \o Below)
      PROVE  Onward
  <2>1. Ahead(n)
    BY <1>2, <1>7, Here
  <2>2. Array(FALSE, f.len + 1) \in Fixed
    BY <1>2, <1>7, ListFrame, ConstantFrames
  <2>3. Whitespace \in Fixed /\ Comment \in Fixed /\ Value(ArrayEnd) \in Fixed
    BY ConstantFrames, NumEndsOf
  <2>4. /\ <<Whitespace>> \in Seq(Fixed) /\ <<Comment>> \in Seq(Fixed)
        /\ <<Value(ArrayEnd), Array(FALSE, f.len + 1)>> \in Seq(Fixed)
    BY <2>2, <2>3, Few
  <2> QED
    BY <1>3, <1>4, <1>7, <2>1, <2>4
<1> QED
  BY <1>3, <1>5, <1>6, <1>7 DEF ArrayStep

LEMMA InlineOnward == ASSUME ReadInv, InlineStep PROVE Onward
<1>1. In("inline")
  BY DEF InlineStep, Ended, Loop
<1>2. Ahead(tok)
  BY Here
<1>3. /\ \A t : Ahead(t) => (Fail(t) \/ Go(t, stack) \/ Go(t, Below) => Onward)
      /\ Next1(Below) \/ Next1(<<[f EXCEPT !.sep = TRUE]>> \o Below) => Onward
  BY <1>1, ListOnward
<1>4. ASSUME NEW t, Ahead(t), NEW p \in Seq(Fixed), NEW s \in {stack, Below}, Go(t, p \o s)
      PROVE  Onward
  BY <1>1, <1>4, ListOnward
<1>5. CASE Fail(tok)
  BY <1>2, <1>3, <1>5
<1>6. ASSUME NEW n \in AtNewline(tok), Fail(n) PROVE Onward
  BY <1>2, <1>3, <1>6, Here
<1>7. ASSUME NEW n \in NotNewline(tok),
             \/ Go(n, <<Whitespace>> \o stack)
             \/ Fail(n)
             \/ Go(n, <<Key(TRUE), Value(InlineEnd), Whitespace, Inline(FALSE, FALSE)>> \o Below)
      PROVE  Onward
  <2>1. Ahead(n)
    BY <1>2, <1>7, Here
  <2>2. /\ Whitespace \in Fixed /\ Key(TRUE) \in Fixed /\ Value(InlineEnd) \in Fixed
        /\ Inline(FALSE, FALSE) \in Fixed
    BY ConstantFrames, NumEndsOf
  <2>3. /\ <<Whitespace>> \in Seq(Fixed)
        /\ <<Key(TRUE), Value(InlineEnd), Whitespace, Inline(FALSE, FALSE)>> \in Seq(Fixed)
    BY <2>2, Few
  <2> QED
    BY <1>3, <1>4, <1>7, <2>1, <2>3
<1> QED
  BY <1>3, <1>5, <1>6, <1>7 DEF InlineStep

\* The stacks that toml_load and parse_keyval start with.
LEMMA StartPlaced ==
    ASSUME NEW c \in Nat, c >= 1
    PROVE  \A s \in {<<>>, <<Comment>>, <<Whitespace>>,
                     <<Table(TRUE, FALSE)>>, <<Table(TRUE, TRUE)>>,
                     <<Key(TRUE), Value(TopEnd), Whitespace>>} :
              s \in Seq(Fixed) /\ Placed(s, c)
<1>1. /\ Comment \in Fixed /\ Whitespace \in Fixed /\ Table(TRUE, FALSE) \in Fixed
      /\ Table(TRUE, TRUE) \in Fixed /\ Key(TRUE) \in Fixed /\ Value(TopEnd) \in Fixed
  BY ConstantFrames, NumEndsOf
<1>2. ASSUME NEW g \in {Comment, Whitespace, Table(TRUE, FALSE), Table(TRUE, TRUE)}
      PROVE  <<g>> \in Seq(Fixed) /\ Placed(<<g>>, c)
  <2>1. g \in Fixed
    BY <1>1
  <2>2. g.fn \notin InValue \cup {"key", "barekey"}
    BY DEF Comment, Whitespace, Table, InValue
  <2>3. \A i \in 1 .. Len(<<g>>) : <<g>>[i] = g
    OBVIOUS
  <2>4. Placed(<<g>>, c)
    BY <2>2, <2>3 DEF Placed
  <2> QED
    BY <2>1, <2>4
<1>3. <<>> \in Seq(Fixed) /\ Placed(<<>>, c)
  BY DEF Placed
<1>4. PICK s : s = <<Key(TRUE), Value(TopEnd), Whitespace>>
  OBVIOUS
<1>5. s \in Seq(Fixed) /\ Len(s) = 3
  BY <1>1, <1>4, Few
<1>6. /\ s[1].fn = "key" /\ s[1].expecting
      /\ s[2].fn = "value" /\ s[3].fn = "whitespace"
  BY <1>4 DEF Key, Value, Whitespace
<1>7. \A i \in 1 .. Len(s) : i \in {1, 2, 3}
  BY <1>5
<1>8. \A i \in 1 .. Len(s) : s[i].fn \in InValue => i = 2
  BY <1>6, <1>7 DEF InValue
<1>9. \A i \in 1 .. Len(s) : /\ ~(s[i].fn = "key" /\ ~s[i].expecting)
                             /\ s[i].fn # "barekey"
  BY <1>6, <1>7
<1>10. 1 \in 1 .. 2 - 1
  OBVIOUS
<1>11. Placed(s, c)
  BY <1>6, <1>8, <1>9, <1>10 DEF Placed
<1> QED
  BY <1>2, <1>3, <1>4, <1>5, <1>11

LEMMA StatementOnward == ASSUME ReadInv, Statement PROVE Onward
<1>1. stack = <<>> /\ stack \in Seq(Fixed)
  BY DEF Statement, Load
<1>2. Ahead(tok) /\ tok.cursor \in Nat /\ tok.cursor >= 1
  BY Here
<1>3. ASSUME NEW t, Ahead(t),
             NEW s \in {<<>>, <<Comment>>, <<Whitespace>>,
                        <<Table(TRUE, FALSE)>>, <<Table(TRUE, TRUE)>>,
                        <<Key(TRUE), Value(TopEnd), Whitespace>>},
             Go(t, s)
      PROVE  Onward
  <2>1. t.cursor \in Nat /\ t.cursor >= 1
    BY <1>2, <1>3, Here DEF Ahead
  <2>2. s \in Seq(Fixed) /\ Placed(s, t.cursor)
    BY <2>1, StartPlaced
  <2> QED
    BY <1>3, <2>2, GoOn
<1>4. CASE Go(tok, <<Comment>>) \/ Go(tok, <<Whitespace>>)
  BY <1>2, <1>3, <1>4
<1>5. ASSUME NEW n \in AtNewline(tok), NEW t \in Reads(n), Go(t, <<>>) PROVE Onward
  BY <1>2, <1>3, <1>5, Here
<1>6. ASSUME NEW n \in NotNewline(tok), NEW t \in Reads(n),
             IF t.token # "[" THEN Go(t, <<Table(TRUE, FALSE)>>)
             ELSE \E u \in Reads(t) : Go(u, <<Table(TRUE, TRUE)>>)
      PROVE  Onward
  <2>1. Ahead(t) /\ \A u \in Reads(t) : Ahead(u)
    BY <1>2, <1>6, Here
  <2> QED
    BY <1>3, <1>6, <2>1
<1>7. ASSUME NEW n \in NotNewline(tok),
             Fail(n) \/ Go(n, <<Key(TRUE), Value(TopEnd), Whitespace>>)
      PROVE  Onward
  <2>1. Ahead(n)
    BY <1>2, <1>7, Here
  <2>2. CASE Fail(n)
    BY <1>1, <2>1, <2>2, FailsOnward
  <2> QED
    BY <1>3, <1>7, <2>1, <2>2
<1> QED
  BY <1>4, <1>5, <1>6, <1>7 DEF Statement

LEMMA FinishOnward == ASSUME ReadInv, Finish PROVE Onward
<1>1. tok' = tok /\ stack' = stack /\ scenario' = scenario /\ result' = "ok"
  BY DEF Finish
<1>2. tok.cursor \in Nat /\ KeepsText(tok, tok)
  BY Here DEF Ahead
<1> QED
  BY <1>1, <1>2 DEF ReadInv, Onward

LEMMA StillOnward == ASSUME ReadInv, UNCHANGED vars PROVE Onward
<1>1. tok' = tok /\ stack' = stack /\ scenario' = scenario /\ result' = result
  BY DEF vars
<1>2. tok.cursor \in Nat /\ KeepsText(tok, tok)
  BY Here DEF Ahead
<1> QED
  BY <1>1, <1>2 DEF ReadInv, Onward

-----------------------------------------------------------------------------
(* The theorems about the reading. *)

\* What NeverRereads says of one step.
Advances == IF In("lookahead") /\ EnoughSeen THEN tok'.cursor = f.from
            ELSE tok'.cursor >= tok.cursor

LEMMA OnwardAdvances ==
    ASSUME Onward, ~In("lookahead")
    PROVE  ReadInv' /\ Advances /\ KeepsText(tok, tok')
  BY DEF Onward, Advances

LEMMA OnlyOneRuns ==
    /\ \A fn \in {"key", "table", "barekey", "value", "number", "array", "inline",
                  "whitespace", "comment"} :
          In(fn) \/ Ended(fn) \/ Loop(fn) => ~In("lookahead")
    /\ Statement \/ Finish => ~In("lookahead")
    /\ Stopped => ~In("lookahead") /\ UNCHANGED vars
  BY DEF In, Ended, Loop, Statement, Finish, Load, Stopped

LEMMA NextGoesOn ==
    ASSUME ReadInv, [Next]_vars
    PROVE  ReadInv' /\ [Advances]_vars /\ KeepsText(tok, tok')
<1>1. CASE Statement
  BY <1>1, StatementOnward, OnwardAdvances, OnlyOneRuns
<1>2. CASE Finish
  BY <1>2, FinishOnward, OnwardAdvances, OnlyOneRuns
<1>3. CASE KeyStep
  <2>1. ~In("lookahead")
    BY <1>3, OnlyOneRuns DEF KeyStep
  <2> QED
    BY <1>3, <2>1, KeyOnward, OnwardAdvances
<1>4. CASE TableStep
  <2>1. ~In("lookahead")
    BY <1>4, OnlyOneRuns DEF TableStep
  <2> QED
    BY <1>4, <2>1, TableOnward, OnwardAdvances
<1>5. CASE BareKeyStep
  <2>1. ~In("lookahead")
    BY <1>5, OnlyOneRuns DEF BareKeyStep
  <2> QED
    BY <1>5, <2>1, BareKeyOnward, OnwardAdvances
<1>6. CASE ValueStep
  <2>1. ~In("lookahead")
    BY <1>6, OnlyOneRuns DEF ValueStep
  <2> QED
    BY <1>6, <2>1, ValueOnward, OnwardAdvances
<1>7. CASE LookaheadStep
  <2>1. ReadInv' /\ Advances /\ KeepsText(tok, tok')
    BY <1>7, LookaheadReturns DEF Advances, LookaheadStep
  <2> QED
    BY <2>1
<1>8. CASE NumberStep
  <2>1. ~In("lookahead")
    BY <1>8, OnlyOneRuns DEF NumberStep
  <2> QED
    BY <1>8, <2>1, NumberOnward, OnwardAdvances
<1>9. CASE ArrayStep
  <2>1. ~In("lookahead")
    BY <1>9, OnlyOneRuns DEF ArrayStep
  <2> QED
    BY <1>9, <2>1, ArrayOnward, OnwardAdvances
<1>10. CASE InlineStep
  <2>1. ~In("lookahead")
    BY <1>10, OnlyOneRuns DEF InlineStep
  <2> QED
    BY <1>10, <2>1, InlineOnward, OnwardAdvances
<1>11. CASE WhitespaceStep
  <2>1. ~In("lookahead")
    BY <1>11, OnlyOneRuns DEF WhitespaceStep
  <2> QED
    BY <1>11, <2>1, WhitespaceOnward, OnwardAdvances
<1>12. CASE CommentStep
  <2>1. ~In("lookahead")
    BY <1>12, OnlyOneRuns DEF CommentStep
  <2> QED
    BY <1>12, <2>1, CommentOnward, OnwardAdvances
<1>13. CASE Stopped \/ UNCHANGED vars
  <2>1. UNCHANGED vars
    BY <1>13, OnlyOneRuns
  <2> QED
    BY <2>1, StillOnward DEF Onward
<1> QED
  BY <1>1, <1>2, <1>3, <1>4, <1>5, <1>6, <1>7, <1>8, <1>9, <1>10, <1>11, <1>12, <1>13
     DEF Next

LEMMA NextReads == ReadInv /\ [Next]_vars => ReadInv' /\ [Advances]_vars
  BY NextGoesOn

LEMMA ReadTypes == ReadInv => TypeOK
<1> SUFFICES ASSUME ReadInv PROVE TypeOK
  OBVIOUS
<1>1. /\ tok.stream \in Seq(Char \cup {EOF}) /\ tok.cursor \in 0 .. Len(tok.stream)
      /\ tok.cursor \in Nat /\ result \in {"running", "ok", "failed"}
  BY SoundToken DEF ReadInv
<1>2. Fixed \subseteq Frames
  BY DEF Fixed, Frames
<1>3. stack \in Seq(Frames)
  <2>1. CASE stack \in Seq(Fixed)
    BY <1>2, <2>1
  <2>2. ASSUME NEW g \in Looking, NEW below \in Seq(Fixed), stack = <<g>> \o below,
               LooksFrom(g, tok)
        PROVE  stack \in Seq(Frames)
    <3>1. g.from \in Nat /\ g.count \in 0 .. 4
      BY <2>2 DEF Looking
    <3>2. g.from >= 1 /\ g.from <= tok.cursor
      BY <1>1, <2>2, <3>1 DEF LooksFrom
    <3>3. g.from \in 1 .. tok.cursor
      BY <1>1, <3>1, <3>2
    <3>4. g \in [fn : {"lookahead"}, num_end : NumEnds, from : 1 .. tok.cursor, count : 0 .. 4]
      BY <2>2, <3>3 DEF Looking
    <3>5. g \in Frames
      BY <3>4 DEF Frames
    <3>6. below \in Seq(Frames)
      BY <1>2, <2>2
    <3> QED
      BY <2>2, <3>5, <3>6, OnTop
  <2> QED
    BY <2>1, <2>2 DEF ReadInv, Framed
<1> QED
  BY <1>1, <1>3 DEF TypeOK

(***************************************************************************)
(* Whatever the input and the sizes of the buffers, the functions that     *)
(* read a document keep their locals within their ranges: in parse_barekey *)
(* idx never exceeds TOML_MAX_ID_LENGTH, in parse_array the number of      *)
(* values never exceeds TOML_MAX_ARRAY_LENGTH, and the cursor stays in the *)
(* buffer.                                                                 *)
(***************************************************************************)
THEOREM ReadingTyped == Spec => []TypeOK
<1>1. Spec => []ReadInv
  BY InitReads, NextReads, PTL DEF Spec
<1> QED
  BY <1>1, ReadTypes, PTL

(***************************************************************************)
(* Whatever the input, no step of the parser goes back in it but the       *)
(* backtrack of parse_value, and that one goes back to exactly where the   *)
(* value starts: it is never refused, since at least a key and a '=' stand *)
(* before a value.                                                         *)
(***************************************************************************)
THEOREM ReadingAdvances == Spec => NeverRereads
<1>1. Spec => []ReadInv
  BY InitReads, NextReads, PTL DEF Spec
<1>2. ReadInv /\ [Next]_vars => [Advances]_vars
  BY NextReads
<1>3. Spec => [][Advances]_vars
  BY <1>1, <1>2, PTL DEF Spec
<1> QED
  BY <1>3 DEF NeverRereads, Advances

-----------------------------------------------------------------------------
(* The same of toml_load as a whole, where the tree may refuse as well.    *)

LEMMA RefusalAdvances ==
    ASSUME ReadInv, NEW fn \in {"table", "barekey", "inline"}, Loop(fn),
           NEW t, Ahead(t), Fail(t)
    PROVE  ReadInv' /\ Advances
<1>1. In(fn) /\ ~In("lookahead")
  BY OnlyOneRuns DEF Loop
<1>2. stack \in Seq(Fixed)
  BY <1>1, Running
<1> QED
  BY <1>1, <1>2, FailsOnward, OnwardAdvances

LEMMA LoadNextReads == ReadInv /\ [LoadNext]_load => ReadInv' /\ [Advances]_vars
<1> SUFFICES ASSUME ReadInv, [LoadNext]_load PROVE ReadInv' /\ [Advances]_vars
  OBVIOUS
<1>1. CASE [Next]_vars
  BY <1>1, NextReads
<1>2. Ahead(tok)
  BY Here
<1>3. CASE LoadSegment
  <2>1. Loop("barekey") /\ (BareKeyStep \/ Fail(tok))
    BY <1>3 DEF LoadSegment, SegmentEnds
  <2>2. CASE BareKeyStep
    BY <1>1, <2>2 DEF Next
  <2> QED
    BY <1>2, <2>1, <2>2, RefusalAdvances
<1>4. CASE LoadTable
  <2>1. CASE TableStep
    BY <1>1, <2>1 DEF Next
  <2>2. CASE ~TableStep
    <3>1. Loop("table")
      BY <1>4, <2>2 DEF LoadTable
    <3>2. PICK t \in Reads(tok) : \E u \in Reads(t) : Fail(u)
      BY <1>4, <2>2 DEF LoadTable
    <3>3. PICK u \in Reads(t) : Fail(u)
      BY <3>2
    <3>4. Ahead(u)
      BY <1>2, <3>2, <3>3, Here
    <3> QED
      BY <3>1, <3>3, <3>4, RefusalAdvances
  <2> QED
    BY <2>1, <2>2
<1>5. CASE LoadInline
  <2>1. CASE InlineStep
    BY <1>1, <2>1 DEF Next
  <2>2. CASE ~InlineStep
    <3>1. Loop("inline") /\ Fail(tok)
      BY <1>5, <2>2 DEF LoadInline
    <3> QED
      BY <1>2, <3>1, RefusalAdvances
  <2> QED
    BY <2>1, <2>2
<1>6. CASE \/ LoadStatement \/ LoadBareKey \/ LoadKey \/ LoadValue \/ LoadLookahead
           \/ LoadNumber \/ LoadArray \/ LoadRest \/ LoadFinish
  <2>1. Next
    BY <1>6 DEF LoadStatement, LoadBareKey, LoadKey, LoadValue, LoadLookahead, LoadNumber,
                LoadArray, LoadRest, LoadFinish, Next
  <2> QED
    BY <1>1, <2>1
<1>7. CASE LoadStopped \/ UNCHANGED load
  <2>1. UNCHANGED vars
    BY <1>7 DEF LoadStopped, load
  <2> QED
    BY <1>1, <2>1
<1> QED
  BY <1>3, <1>4, <1>5, <1>6, <1>7 DEF LoadNext

(***************************************************************************)
(* toml_load with its tree keeps the locals of its functions in their      *)
(* ranges and reads nothing again but what parse_value has looked ahead    *)
(* at, also where add_subkey, parse_arraytable or parse_inlinetable give   *)
(* up because of what they find in the tree.                               *)
(***************************************************************************)
THEOREM LoadReadsOn == LoadSpec => []TypeOK /\ NeverRereads
<1>1. LoadInit => ReadInv
  BY InitReads DEF LoadInit
<1>2. LoadSpec => []ReadInv
  BY <1>1, LoadNextReads, PTL DEF LoadSpec
<1>3. ReadInv /\ [LoadNext]_load => [Advances]_vars
  BY LoadNextReads
<1>4. LoadSpec => [][Advances]_vars
  BY <1>2, <1>3, PTL DEF LoadSpec
<1>5. LoadSpec => []TypeOK
  BY <1>2, ReadTypes, PTL
<1> QED
  BY <1>4, <1>5 DEF NeverRereads, Advances

-----------------------------------------------------------------------------
(* The automaton of TomlSyntax. *)

Levels == [kind : {"array", "inline"}, sep : BOOLEAN, size : Nat]

\* The configurations that a text goes through.
Runs(run, text, lenient) ==
    run = [i \in 0 .. Len(text) |-> IF i = 0 THEN Begun ELSE Move(run[i - 1], text[i], lenient)]

LEMMA RunsExist ==
    ASSUME NEW lenient, NEW text, Len(text) \in Nat
    PROVE  \E run : Runs(run, text, lenient)
<1> DEFINE Turn(g, i) == IF i = 0 THEN Begun ELSE Move(g[i - 1], text[i], lenient)
           Right(g, n) == \A i \in 0 .. n : g[i] = Turn(g, i)
           T == {n \in Nat : \E g : Right(g, n)}
<1>1. 0 \in T
  <2>1. Right([i \in 0 .. 0 |-> Begun], 0)
    OBVIOUS
  <2> HIDE DEF Right
  <2> QED
    BY <2>1
<1>2. ASSUME NEW n \in Nat, n \in T PROVE n + 1 \in T
  <2>1. PICK g : Right(g, n)
    <3> HIDE DEF Right
    <3> QED
      BY <1>2
  <2>2. PICK last : last = Move(g[n], text[n + 1], lenient)
    OBVIOUS
  <2>3. PICK h : h = [i \in 0 .. n + 1 |-> IF i = n + 1 THEN last ELSE g[i]]
    OBVIOUS
  <2>4. ASSUME NEW i \in 0 .. n + 1 PROVE h[i] = Turn(h, i)
    <3>1. CASE i = n + 1
      <4>1. h[i] = last /\ h[i - 1] = g[n] /\ i # 0
        BY <2>3, <3>1
      <4> QED
        BY <2>2, <3>1, <4>1
    <3>2. CASE i = 0
      <4>1. i \in 0 .. n /\ i # n + 1
        BY <3>2
      <4>2. h[i] = g[i]
        BY <2>3, <4>1
      <4>3. g[i] = Turn(g, i)
        BY <2>1, <4>1
      <4> QED
        BY <3>2, <4>2, <4>3
    <3>3. CASE i # 0 /\ i # n + 1
      <4>1. i \in 0 .. n /\ i - 1 \in 0 .. n + 1 /\ i - 1 # n + 1
        BY <3>3
      <4>2. h[i] = g[i] /\ h[i - 1] = g[i - 1]
        BY <2>3, <3>3, <4>1
      <4>3. g[i] = Turn(g, i)
        BY <2>1, <4>1
      <4> QED
        BY <3>3, <4>2, <4>3
    <3> QED
      BY <3>1, <3>2, <3>3
  <2>5. Right(h, n + 1)
    BY <2>4
  <2> HIDE DEF Right
  <2> QED
    BY <2>5
<1>3. Len(text) \in T
  <2>1. Nat \subseteq T
    <3> HIDE DEF T
    <3> QED
      BY <1>1, <1>2, NatInducts
  <2> QED
    BY <2>1
<1>4. PICK g : Right(g, Len(text))
  <2> HIDE DEF Right
  <2> QED
    BY <1>3
<1>5. PICK h : h = [i \in 0 .. Len(text) |-> g[i]]
  OBVIOUS
<1>6. ASSUME NEW i \in 0 .. Len(text) PROVE h[i] = Turn(h, i)
  <2>1. i # 0 => i - 1 \in 0 .. Len(text)
    OBVIOUS
  <2>2. h[i] = g[i] /\ (i # 0 => h[i - 1] = g[i - 1])
    BY <1>5, <2>1
  <2>3. g[i] = Turn(g, i)
    BY <1>4
  <2> QED
    BY <2>2, <2>3
<1>7. h = [i \in 0 .. Len(text) |-> Turn(h, i)]
  BY <1>5, <1>6
<1> QED
  BY <1>7 DEF Runs

LEMMA RunIs ==
    ASSUME NEW lenient, NEW text, Len(text) \in Nat
    PROVE  \E run : Runs(run, text, lenient) /\ Run(text, lenient) = run[Len(text)]
<1> DEFINE run == CHOOSE run : run = [i \in 0 .. Len(text) |->
                      IF i = 0 THEN Begun ELSE Move(run[i - 1], text[i], lenient)]
<1>1. \E g : g = [i \in 0 .. Len(text) |->
                      IF i = 0 THEN Begun ELSE Move(g[i - 1], text[i], lenient)]
  <2>1. PICK g : Runs(g, text, lenient)
    BY RunsExist
  <2> QED
    BY <2>1, Zenon DEF Runs
<1>2. run = [i \in 0 .. Len(text) |->
                      IF i = 0 THEN Begun ELSE Move(run[i - 1], text[i], lenient)]
  BY <1>1, Zenon
<1>3. Run(text, lenient) = run[Len(text)]
  BY Zenon DEF Run
<1> HIDE DEF run
<1> QED
  BY <1>2, <1>3 DEF Runs

\* What is before the first letter, and after one more.
LEMMA RunNone == \A lenient : Run(<<>>, lenient) = Begun
<1> TAKE lenient
<1>1. PICK run : Runs(run, <<>>, lenient) /\ Run(<<>>, lenient) = run[Len(<<>>)]
  BY RunIs
<1> QED
  BY <1>1 DEF Runs

LEMMA RunOn ==
    ASSUME NEW lenient, NEW S, NEW s \in Seq(S), NEW n \in Nat, n < Len(s)
    PROVE  Run(SubSeq(s, 1, n + 1), lenient) = Move(Run(SubSeq(s, 1, n), lenient), s[n + 1], lenient)
<1>1. PICK u : u = SubSeq(s, 1, n)
  OBVIOUS
<1>2. PICK v : v = SubSeq(s, 1, n + 1)
  OBVIOUS
<1>3. /\ Len(u) = n /\ Len(v) = n + 1 /\ Len(v) \in Nat
      /\ \A i \in 1 .. n : v[i] = u[i]
      /\ v[n + 1] = s[n + 1]
  <2>1. Len(s) \in Nat /\ n + 1 \in Nat /\ n <= Len(s) /\ n + 1 <= Len(s)
    OBVIOUS
  <2>2. Len(u) = n /\ \A i \in 1 .. n : u[i] = s[i]
    BY <1>1, <2>1
  <2>3. Len(v) = n + 1 /\ \A i \in 1 .. n + 1 : v[i] = s[i]
    BY <1>2, <2>1
  <2>4. \A i \in 1 .. n : i \in 1 .. n + 1
    OBVIOUS
  <2> QED
    BY <2>1, <2>2, <2>3, <2>4
<1>4. PICK g : Runs(g, u, lenient) /\ Run(u, lenient) = g[n]
  BY <1>3, RunIs
<1>5. PICK h : Runs(h, v, lenient) /\ Run(v, lenient) = h[n + 1]
  <2>1. PICK h : Runs(h, v, lenient) /\ Run(v, lenient) = h[Len(v)]
    BY <1>3, RunIs
  <2> QED
    BY <1>3, <2>1
<1>6. \A i \in 0 .. n : g[i] = IF i = 0 THEN Begun ELSE Move(g[i - 1], u[i], lenient)
  BY <1>3, <1>4 DEF Runs
<1>7. \A i \in 0 .. n + 1 : h[i] = IF i = 0 THEN Begun ELSE Move(h[i - 1], v[i], lenient)
  BY <1>3, <1>5 DEF Runs
<1> DEFINE A == {i \in Nat : i > n \/ h[i] = g[i]}
<1>8. 0 \in A
  <2>1. 0 \in 0 .. n /\ 0 \in 0 .. n + 1
    OBVIOUS
  <2>2. g[0] = Begun
    BY <1>6, <2>1
  <2>3. h[0] = Begun
    BY <1>7, <2>1
  <2> QED
    BY <2>2, <2>3
<1>9. ASSUME NEW i \in Nat, i \in A PROVE i + 1 \in A
  <2>1. CASE i + 1 <= n
    <3>1. i + 1 \in 0 .. n /\ i + 1 \in 0 .. n + 1 /\ i + 1 # 0 /\ (i + 1) - 1 = i
          /\ i + 1 \in 1 .. n
      BY <2>1
    <3>2. g[i + 1] = Move(g[i], u[i + 1], lenient)
      BY <1>6, <3>1
    <3>3. h[i + 1] = Move(h[i], v[i + 1], lenient)
      BY <1>7, <3>1
    <3>4. h[i] = g[i] /\ u[i + 1] = v[i + 1]
      BY <1>3, <1>9, <2>1, <3>1
    <3>5. h[i + 1] = g[i + 1] /\ i + 1 \in Nat
      BY <3>2, <3>3, <3>4
    <3> QED
      BY <3>5
  <2>2. CASE i + 1 > n
    BY <2>2
  <2>3. i + 1 \in Nat
    OBVIOUS
  <2> QED
    BY <2>1, <2>2, <2>3
<1>10. n \in A
  <2> HIDE DEF A
  <2>1. Nat \subseteq A
    BY <1>8, <1>9, NatInducts
  <2> QED
    BY <2>1
<1>11. h[n] = g[n]
  BY <1>10
<1>12. h[n + 1] = Move(h[n], v[n + 1], lenient)
  <2>1. n + 1 \in 0 .. n + 1 /\ n + 1 # 0 /\ (n + 1) - 1 = n
    OBVIOUS
  <2> QED
    BY <1>7, <2>1
<1> QED
  BY <1>1, <1>2, <1>3, <1>4, <1>5, <1>11, <1>12

\* A level more, and which it is.
LEMMA Grows ==
    ASSUME NEW S, NEW m \in Seq(S), NEW l \in S
    PROVE  /\ Append(m, l) \in Seq(S) /\ Append(m, l) # <<>>
           /\ Len(Append(m, l)) = Len(m) + 1
           /\ Append(m, l)[Len(Append(m, l))] = l
           /\ Front(Append(m, l)) = m
<1>1. PICK n : n = Append(m, l)
  OBVIOUS
<1>2. n \in Seq(S) /\ Len(n) = Len(m) + 1 /\ Len(m) \in Nat /\ n[Len(m) + 1] = l
      /\ \A i \in 1 .. Len(m) : n[i] = m[i]
  BY <1>1
<1>3. PICK u : u = SubSeq(n, 1, Len(n) - 1)
  OBVIOUS
<1>4. u \in Seq(S) /\ Len(u) = Len(m) /\ \A i \in 1 .. Len(m) : u[i] = m[i]
  BY <1>2, <1>3
<1>5. u = m
  BY <1>4
<1>6. Front(n) = m /\ n # <<>>
  BY <1>2, <1>3, <1>5 DEF Front
<1> QED
  BY <1>1, <1>2, <1>6

\* The letters that may follow a number.
Enders == TopEnd \cup ArrayEnd \cup InlineEnd

\* Between two lines or values: where a number may have ended as well.
Finished(c) == IF c.phase \in {"int", "frac"} THEN ValueEnd(c) ELSE c

LEMMA FinishedMoves ==
    ASSUME NEW lenient, NEW c, NEW ch, c.phase \in {"int", "frac"} => ch \in Enders
    PROVE  Move(c, ch, lenient) = Move(Finished(c), ch, lenient)
<1>1. CASE c.phase \in {"int", "frac"}
  <2>1. PICK d : d = ValueEnd(c)
    OBVIOUS
  <2>2. d.phase \in {"after", "in"}
    BY <2>1 DEF ValueEnd, To, SetTop, Config
  <2>3. ch # "1" /\ ch # "." /\ ch # "["
    BY <1>1 DEF Enders, TopEnd, ArrayEnd, InlineEnd
  <2>4. Move(c, ch, lenient) = After(d, ch, lenient)
    BY <1>1, <2>1, <2>3 DEF Move
  <2>5. Move(d, ch, lenient) = After(d, ch, lenient)
    BY <2>2 DEF Move
  <2>6. Finished(c) = d
    BY <1>1, <2>1 DEF Finished
  <2> QED
    BY <2>4, <2>5, <2>6
<1>2. CASE c.phase \notin {"int", "frac"}
  BY <1>2 DEF Finished
<1> QED
  BY <1>1, <1>2

\* The start of a line, the rest of it, and a comment.
LEMMA MoveStart ==
    ASSUME NEW c, c.phase = "start"
    PROVE  /\ \A ch \in Blank : Move(c, ch, TRUE) = c
           /\ Move(c, "[", TRUE) = Config("header", c.form, c.nest)
           /\ \A ch \in Bare : Move(c, ch, TRUE) = Config("bare", "key", c.nest)
           /\ Move(c, "\n", TRUE) = LineEnd(c)
           /\ Move(c, "\r", TRUE) = Config("cr", c.form, c.nest)
           /\ Move(c, "#", TRUE) = Config("comment", c.form, c.nest)
  BY DEF Move, To, EndLine, Blank, Bare

LEMMA MoveAfter ==
    ASSUME NEW c, c.phase = "after"
    PROVE  /\ \A ch \in Blank : Move(c, ch, TRUE) = c
           /\ Move(c, "[", TRUE) = Config("header", c.form, c.nest)
           /\ Move(c, "\n", TRUE) = LineEnd(c)
           /\ Move(c, "\r", TRUE) = Config("cr", c.form, c.nest)
           /\ Move(c, "#", TRUE) = Config("comment", c.form, c.nest)
  BY DEF Move, After, To, EndLine, Blank

LEMMA MoveLineEnd ==
    ASSUME NEW c, c.phase = "cr" \/ c.phase = "comment"
    PROVE  /\ Move(c, "\n", TRUE) = LineEnd(c)
           /\ c.phase = "comment" => /\ Move(c, "\r", TRUE) = Config("cr", c.form, c.nest)
                                     /\ \A ch \in Char \ {"\n", "\r", "x"} : Move(c, ch, TRUE) = c
<1>1. CASE c.phase = "cr"
  BY <1>1 DEF Move
<1>2. CASE c.phase = "comment"
  BY <1>2 DEF Move, EndLine, To
<1> QED
  BY <1>1, <1>2

\* Inside of an array or of an inline table.
LEMMA MoveIn ==
    ASSUME NEW c, c.phase = "in", NEW m \in Seq(Levels), NEW l \in Levels,
           c.nest = Append(m, l), c.form = "key"
    PROVE  /\ \A ch \in Blank : Move(c, ch, TRUE) = c
           /\ ~l.sep => Move(c, ",", TRUE) =
                 Config("in", "key", Append(m, [l EXCEPT !.sep = TRUE]))
           /\ l.kind = "array" =>
                 /\ Move(c, "]", TRUE) = ValueEnd(Config("in", "key", m))
                 /\ Move(c, "\n", TRUE) = LineEnd(c)
                 /\ Move(c, "\r", TRUE) = Config("cr", "key", c.nest)
                 /\ Move(c, "#", TRUE) = Config("comment", "key", c.nest)
           /\ l.kind = "array" /\ l.sep =>
                 /\ Move(c, "1", TRUE) = Config("int", "key", c.nest)
                 /\ Move(c, "[", TRUE) = Enter(c, "array")
                 /\ Move(c, "{", TRUE) = Enter(c, "inline")
           /\ l.kind = "inline" /\ (l.sep => l.size = 0) =>
                 Move(c, "}", TRUE) = ValueEnd(Config("in", "key", m))
           /\ l.kind = "inline" /\ l.sep =>
                 \A ch \in Bare : Move(c, ch, TRUE) = Config("bare", "key", c.nest)
<1>1. Top(c) = l /\ Front(c.nest) = m
  <2>1. Len(c.nest) = Len(m) + 1 /\ c.nest[Len(m) + 1] = l /\ Len(m) \in Nat
    OBVIOUS
  <2>2. Front(c.nest) = m
    BY Grows
  <2> QED
    BY <2>1, <2>2 DEF Top
<1>2. \A ch : Move(c, ch, TRUE) = Between(c, ch)
  <2> TAKE ch
  <2>1. Move(c, ch, TRUE) = After(c, ch, TRUE)
    BY DEF Move
  <2>2. After(c, ch, TRUE) = Between(c, ch)
    BY DEF After
  <2> QED
    BY <2>1, <2>2
<1>3. l.kind \in {"array", "inline"} /\ l.sep \in BOOLEAN /\ l.size \in Nat
  BY DEF Levels
<1>4. \A ch \in Blank : Between(c, ch) = c
  BY <1>1, <1>3 DEF Between, Blank
<1>5. ~l.sep => Between(c, ",") = Config("in", "key", Append(m, [l EXCEPT !.sep = TRUE]))
  BY <1>1, <1>3 DEF Between, Blank, SetTop
<1>6. l.kind = "array" => /\ Between(c, "]") = ValueEnd(Config("in", "key", m))
                          /\ Between(c, "\n") = LineEnd(c)
                          /\ Between(c, "\r") = Config("cr", "key", c.nest)
                          /\ Between(c, "#") = Config("comment", "key", c.nest)
  <2> SUFFICES ASSUME l.kind = "array"
               PROVE  /\ Between(c, "]") = ValueEnd(Config("in", "key", m))
                      /\ Between(c, "\n") = LineEnd(c)
                      /\ Between(c, "\r") = Config("cr", "key", c.nest)
                      /\ Between(c, "#") = Config("comment", "key", c.nest)
    OBVIOUS
  <2>1. Between(c, "]") = Leave(c)
    BY <1>1 DEF Between, Blank
  <2>2. Leave(c) = ValueEnd(Config("in", "key", m))
    BY <1>1 DEF Leave
  <2>3. \A ch \in {"\n", "\r", "#"} : Between(c, ch) = EndLine(c, ch)
    BY <1>1 DEF Between, Blank
  <2>4. /\ EndLine(c, "\n") = LineEnd(c)
        /\ EndLine(c, "\r") = Config("cr", "key", c.nest)
        /\ EndLine(c, "#") = Config("comment", "key", c.nest)
    BY DEF EndLine, To
  <2> QED
    BY <2>1, <2>2, <2>3, <2>4
<1>7. l.kind = "array" /\ l.sep => /\ Between(c, "1") = Config("int", "key", c.nest)
                                   /\ Between(c, "[") = Enter(c, "array")
                                   /\ Between(c, "{") = Enter(c, "inline")
  BY <1>1 DEF Between, Blank, StartValue, To
<1>8. l.kind = "inline" /\ (l.sep => l.size = 0) =>
          Between(c, "}") = ValueEnd(Config("in", "key", m))
  <2> SUFFICES ASSUME l.kind = "inline", l.sep => l.size = 0
               PROVE  Between(c, "}") = ValueEnd(Config("in", "key", m))
    OBVIOUS
  <2>1. Between(c, "}") = Leave(c)
    BY <1>1, <1>3 DEF Between, Blank
  <2>2. Leave(c) = ValueEnd(Config("in", "key", m))
    BY <1>1 DEF Leave
  <2> QED
    BY <2>1, <2>2
<1>9. l.kind = "inline" /\ l.sep =>
          \A ch \in Bare : Between(c, ch) = Config("bare", "key", c.nest)
  BY <1>1 DEF Between, Blank, Bare, To
<1> QED
  BY <1>2, <1>4, <1>5, <1>6, <1>7, <1>8, <1>9

\* Keys, headers and values.
LEMMA MoveHeader ==
    ASSUME NEW c, c.phase = "header"
    PROVE  /\ \A ch \in Blank : Move(c, ch, TRUE) = Config("segment", "table", c.nest)
           /\ \A ch \in Bare : Move(c, ch, TRUE) = Config("bare", "table", c.nest)
           /\ Move(c, "[", TRUE) = Config("segment", "arraytable", c.nest)
  BY DEF Move, Blank, Bare

LEMMA MoveSegment ==
    ASSUME NEW c, c.phase = "segment"
    PROVE  /\ \A ch \in Blank : Move(c, ch, TRUE) = c
           /\ \A ch \in Bare : Move(c, ch, TRUE) = Config("bare", c.form, c.nest)
  BY DEF Move, Blank, Bare, To

LEMMA MoveBare ==
    ASSUME NEW c, c.phase = "bare" \/ c.phase = "dot"
    PROVE  /\ \A ch \in Blank : Move(c, ch, TRUE) = Config("dot", c.form, c.nest)
           /\ c.phase = "bare" => \A ch \in Bare : Move(c, ch, TRUE) = c
           /\ Move(c, ".", TRUE) = Config("segment", c.form, c.nest)
           /\ c.form = "key" => Move(c, "=", TRUE) = Config("value", "key", c.nest)
           /\ c.form = "table" => Move(c, "]", TRUE) = Config("after", "table", c.nest)
           /\ c.form = "arraytable" => Move(c, "]", TRUE) = Config("close", "arraytable", c.nest)
  BY DEF Move, Blank, Bare, To, Closing, KeyEnd

LEMMA MoveClose ==
    ASSUME NEW c, c.phase = "close"
    PROVE  Move(c, "]", TRUE) = Config("after", c.form, c.nest)
  BY DEF Move, To

LEMMA MoveValue ==
    ASSUME NEW c, c.phase = "value"
    PROVE  /\ \A ch \in Blank : Move(c, ch, TRUE) = c
           /\ Move(c, "1", TRUE) = Config("int", c.form, c.nest)
           /\ Move(c, "[", TRUE) = Enter(c, "array")
           /\ Move(c, "{", TRUE) = Enter(c, "inline")
  BY DEF Move, Blank, StartValue, To

LEMMA MoveNumber ==
    ASSUME NEW c
    PROVE  /\ c.phase \in {"int", "frac"} => Move(c, "1", TRUE) = c
           /\ c.phase = "int" => Move(c, ".", TRUE) = Config("point", c.form, c.nest)
           /\ c.phase = "point" => Move(c, "1", TRUE) = Config("frac", c.form, c.nest)
  BY DEF Move, To
-----------------------------------------------------------------------------
(* The functions below a value: those that go on with the array or inline  *)
(* table around it, with what is around that, and white space at last.     *)

Frame(l) == IF l.kind = "array" THEN <<Array(FALSE, l.size + 1)>>
            ELSE <<Whitespace>> \o <<Inline(FALSE, FALSE)>>

Layers(h, nest) == /\ nest \in Seq(Levels) /\ h \in [0 .. Len(nest) -> Seq(Fixed)]
                   /\ h[0] = <<Whitespace>>
                   /\ \A i \in 1 .. Len(nest) : h[i] = Frame(nest[i]) \o h[i - 1]

Encloses(b, nest) == \E h : Layers(h, nest) /\ b = h[Len(nest)]

LEMMA EnclosesTyped ==
    ASSUME NEW b, NEW n, Encloses(b, n)
    PROVE  b \in Seq(Fixed) /\ n \in Seq(Levels)
<1>1. PICK h : Layers(h, n) /\ b = h[Len(n)]
  BY DEF Encloses
<1>2. n \in Seq(Levels) /\ Len(n) \in 0 .. Len(n) /\ h \in [0 .. Len(n) -> Seq(Fixed)]
  BY <1>1 DEF Layers
<1> QED
  BY <1>1, <1>2

LEMMA EnclosesNone ==
    /\ Encloses(<<Whitespace>>, <<>>)
    /\ \A b : Encloses(b, <<>>) => b = <<Whitespace>>
<1>1. PICK h : h = [i \in 0 .. 0 |-> <<Whitespace>>]
  OBVIOUS
<1>2. Len(<<>>) = 0 /\ <<>> \in Seq(Levels) /\ <<Whitespace>> \in Seq(Fixed)
  BY ConstantFrames
<1>3. h \in [0 .. 0 -> Seq(Fixed)] /\ h[0] = <<Whitespace>>
  BY <1>1, <1>2
<1>4. Layers(h, <<>>)
  BY <1>2, <1>3 DEF Layers
<1>5. Encloses(<<Whitespace>>, <<>>)
  BY <1>2, <1>3, <1>4, Zenon DEF Encloses
<1>6. ASSUME NEW b, Encloses(b, <<>>) PROVE b = <<Whitespace>>
  <2>1. PICK g : Layers(g, <<>>) /\ b = g[Len(<<>>)]
    BY <1>6 DEF Encloses
  <2> QED
    BY <1>2, <2>1 DEF Layers
<1> QED
  BY <1>5, <1>6

LEMMA EnclosesMore ==
    ASSUME NEW a, NEW m, Encloses(a, m), NEW l \in Levels, Frame(l) \in Seq(Fixed)
    PROVE  Encloses(Frame(l) \o a, Append(m, l))
<1>1. PICK h : Layers(h, m) /\ a = h[Len(m)]
  BY DEF Encloses
<1>2. PICK k \in Nat : k = Len(m)
  BY <1>1 DEF Layers
<1>3. /\ m \in Seq(Levels) /\ h \in [0 .. k -> Seq(Fixed)] /\ h[0] = <<Whitespace>>
      /\ \A i \in 1 .. k : h[i] = Frame(m[i]) \o h[i - 1]
  BY <1>1, <1>2 DEF Layers
<1>4. PICK n \in Seq(Levels) : n = Append(m, l)
  BY <1>3, Grows
<1>5. Len(n) = k + 1 /\ n[k + 1] = l /\ \A i \in 1 .. k : n[i] = m[i]
  BY <1>2, <1>3, <1>4
<1>6. a \in Seq(Fixed)
  BY <1>1, <1>2, <1>3
<1>7. PICK b \in Seq(Fixed) : b = Frame(l) \o a
  BY <1>6, Pushed
<1>8. PICK g : g = [i \in 0 .. k + 1 |-> IF i = k + 1 THEN b ELSE h[i]]
  OBVIOUS
<1>9. g \in [0 .. k + 1 -> Seq(Fixed)]
  BY <1>3, <1>8
<1>10. g[0] = <<Whitespace>> /\ g[k + 1] = b
  <2>1. 0 \in 0 .. k + 1 /\ k + 1 \in 0 .. k + 1 /\ 0 # k + 1
    OBVIOUS
  <2> QED
    BY <1>3, <1>8, <2>1
<1>11. ASSUME NEW i \in 1 .. k + 1 PROVE g[i] = Frame(n[i]) \o g[i - 1]
  <2>1. i \in 0 .. k + 1 /\ i - 1 \in 0 .. k + 1 /\ i - 1 # k + 1
    OBVIOUS
  <2>2. g[i - 1] = h[i - 1]
    BY <1>8, <2>1
  <2>3. CASE i = k + 1
    <3>1. g[i - 1] = a
      BY <1>1, <1>2, <2>2, <2>3
    <3> QED
      BY <1>5, <1>7, <1>10, <2>3, <3>1
  <2>4. CASE i # k + 1
    <3>1. i \in 1 .. k
      BY <2>4
    <3>2. g[i] = h[i]
      BY <1>8, <2>1, <2>4
    <3>3. h[i] = Frame(m[i]) \o h[i - 1] /\ n[i] = m[i]
      BY <1>3, <1>5, <3>1
    <3> QED
      BY <2>2, <3>2, <3>3
  <2> QED
    BY <2>3, <2>4
<1>12. Layers(g, n)
  BY <1>5, <1>9, <1>10, <1>11 DEF Layers
<1>13. Encloses(b, n)
  BY <1>5, <1>10, <1>12 DEF Encloses
<1> QED
  BY <1>4, <1>7, <1>13

LEMMA EnclosedIn ==
    ASSUME NEW b, NEW m \in Seq(Levels), NEW l \in Levels, Encloses(b, Append(m, l))
    PROVE  \E a \in Seq(Fixed) : Encloses(a, m) /\ b = Frame(l) \o a
<1>1. PICK n \in Seq(Levels) : n = Append(m, l)
  BY Grows
<1>2. PICK h : Layers(h, n) /\ b = h[Len(n)]
  BY <1>1 DEF Encloses
<1>3. PICK k \in Nat : k = Len(m)
  OBVIOUS
<1>4. Len(n) = k + 1 /\ n[k + 1] = l /\ \A i \in 1 .. k : n[i] = m[i]
  BY <1>1, <1>3
<1>5. /\ h \in [0 .. k + 1 -> Seq(Fixed)] /\ h[0] = <<Whitespace>>
      /\ \A i \in 1 .. k + 1 : h[i] = Frame(n[i]) \o h[i - 1]
  BY <1>2, <1>4 DEF Layers
<1>6. PICK g : g = [i \in 0 .. k |-> h[i]]
  OBVIOUS
<1>7. g \in [0 .. k -> Seq(Fixed)]
  BY <1>5, <1>6
<1>8. g[0] = <<Whitespace>> /\ g[k] = h[k]
  <2>1. 0 \in 0 .. k /\ k \in 0 .. k
    OBVIOUS
  <2> QED
    BY <1>5, <1>6, <2>1
<1>9. ASSUME NEW i \in 1 .. k PROVE g[i] = Frame(m[i]) \o g[i - 1]
  <2>1. i \in 0 .. k /\ i - 1 \in 0 .. k /\ i \in 1 .. k + 1
    OBVIOUS
  <2>2. g[i] = h[i] /\ g[i - 1] = h[i - 1]
    BY <1>6, <2>1
  <2>3. h[i] = Frame(n[i]) \o h[i - 1]
    BY <1>5, <2>1
  <2> QED
    BY <1>4, <2>2, <2>3
<1>10. Layers(g, m)
  BY <1>3, <1>7, <1>8, <1>9 DEF Layers
<1>11. g[k] \in Seq(Fixed) /\ Encloses(g[k], m)
  <2>1. k \in 0 .. k
    OBVIOUS
  <2>2. g[k] \in Seq(Fixed)
    BY <1>7, <2>1
  <2>3. Encloses(g[k], m)
    BY <1>3, <1>10 DEF Encloses
  <2> QED
    BY <2>2, <2>3
<1>12. h[k + 1] = Frame(l) \o h[k]
  <2>1. k + 1 \in 1 .. k + 1 /\ (k + 1) - 1 = k
    OBVIOUS
  <2>2. h[k + 1] = Frame(n[k + 1]) \o h[(k + 1) - 1]
    BY <1>5, <2>1
  <2> QED
    BY <1>4, <2>1, <2>2
<1> QED
  BY <1>2, <1>4, <1>8, <1>11, <1>12

-----------------------------------------------------------------------------
(* The configuration before the character that is looked at. *)

ConfAt(s, n) == Run(SubSeq(s, 1, n), TRUE)
Conf(t)      == ConfAt(t.stream, t.cursor - 1)

LEMMA StreamTyped ==
    ASSUME NEW t, Sound(Char, t)
    PROVE  /\ t.stream \in Seq(Char \cup {EOF}) /\ Len(t.stream) \in Nat
           /\ t.cursor \in Nat /\ t.cursor <= Len(t.stream)
<1>1. t \in Tokenizers(Char) /\ t.cursor <= Len(t.stream)
  BY DEF Sound
<1>2. PICK s \in Seq(Char \cup {EOF}) : s = t.stream
  BY <1>1 DEF Tokenizers
<1>3. Len(s) \in Nat
  BY <1>2, LenProperties
<1> QED
  BY <1>1, <1>2, <1>3 DEF Tokenizers

\* What has been read stays the same text.
LEMMA PrefixKept ==
    ASSUME NEW t, Sound(Char, t), NEW u, Sound(Char, u), KeepsText(t, u),
           NEW n \in Nat, n <= Len(t.stream)
    PROVE  SubSeq(u.stream, 1, n) = SubSeq(t.stream, 1, n)
<1>1. /\ t.stream \in Seq(Char \cup {EOF}) /\ u.stream \in Seq(Char \cup {EOF})
      /\ Len(t.stream) \in Nat /\ Len(u.stream) \in Nat
  BY StreamTyped
<1>2. PICK v : v = SubSeq(t.stream, 1, n)
  OBVIOUS
<1>3. PICK w : w = SubSeq(u.stream, 1, n)
  OBVIOUS
<1>4. n <= Len(u.stream) /\ \A i \in 1 .. n : u.stream[i] = t.stream[i]
  BY <1>1 DEF KeepsText
<1>5. v \in Seq(Char \cup {EOF}) /\ Len(v) = n /\ \A i \in 1 .. n : v[i] = t.stream[i]
  BY <1>1, <1>2
<1>6. w \in Seq(Char \cup {EOF}) /\ Len(w) = n /\ \A i \in 1 .. n : w[i] = u.stream[i]
  BY <1>1, <1>3, <1>4
<1>7. v = w
  BY <1>4, <1>5, <1>6
<1> QED
  BY <1>2, <1>3, <1>7

LEMMA ConfKept ==
    ASSUME NEW t, Sound(Char, t), NEW u, Sound(Char, u), KeepsText(t, u),
           NEW n \in Nat, n <= Len(t.stream)
    PROVE  ConfAt(u.stream, n) = ConfAt(t.stream, n)
  BY PrefixKept, Zenon DEF ConfAt

\* A character is read: what is left behind it.
Consumed(t, u) ==
    /\ Sound(Char, u) /\ KeepsText(t, u) /\ u.cursor = t.cursor + 1
    /\ u.prev = t.token /\ u.prev_prev = t.prev
    /\ Conf(u) = Move(Conf(t), t.token, TRUE)
    /\ u.newline <=> is_newline(u.token) \/ OnBlankLine(t)

LEMMA ReadsConsume ==
    ASSUME NEW t, Sound(Char, t), t.has_token, t.cursor >= 1,
           NEW letters \in SUBSET Char, NEW u \in ReadsFrom(t, letters)
    PROVE  Consumed(t, u)
<1>1. /\ Sound(Char, u) /\ KeepsText(t, u) /\ u.cursor = t.cursor + 1
      /\ u.prev = t.token /\ u.prev_prev = t.prev
      /\ u.newline <=> is_newline(u.token) \/ OnBlankLine(t)
  BY ReadsSound
<1>2. /\ t.cursor \in Nat /\ t.cursor <= Len(t.stream) /\ Len(t.stream) \in Nat
      /\ u.stream \in Seq(Char \cup {EOF}) /\ Len(u.stream) \in Nat
      /\ Len(t.stream) <= Len(u.stream)
  BY <1>1, StreamTyped DEF KeepsText
<1>3. PICK n \in Nat : t.cursor = n + 1
  BY <1>2
<1>4. n < Len(u.stream) /\ n <= Len(t.stream) /\ t.cursor - 1 = n /\ u.cursor - 1 = n + 1
      /\ n + 1 \in 1 .. Len(t.stream)
  BY <1>1, <1>2, <1>3
<1>5. Run(SubSeq(u.stream, 1, n + 1), TRUE) =
      Move(Run(SubSeq(u.stream, 1, n), TRUE), u.stream[n + 1], TRUE)
  BY <1>2, <1>4, RunOn
<1>6. u.stream[n + 1] = t.token
  BY <1>1, <1>3, <1>4 DEF KeepsText, Sound, Letter
<1>7. ConfAt(u.stream, n) = ConfAt(t.stream, n)
  BY <1>1, <1>4, ConfKept
<1>8. Conf(u) = Move(Conf(t), t.token, TRUE)
  BY <1>4, <1>5, <1>6, <1>7 DEF Conf, ConfAt
<1> QED
  BY <1>1, <1>8 DEF Consumed

LEMMA LastLevel ==
    ASSUME NEW n \in Seq(Levels), n # <<>>
    PROVE  \E m, l : m \in Seq(Levels) /\ l \in Levels /\ n = Append(m, l)
  BY SequenceEmptyOrAppend

LEMMA HeadIs ==
    ASSUME NEW S, NEW s \in Seq(S), NEW g
    PROVE  <<g>> \o s # <<>> /\ Head(<<g>> \o s) = g /\ Tail(<<g>> \o s) = s
<1>1. g \in S \cup {g} /\ s \in Seq(S \cup {g})
  OBVIOUS
<1> QED
  BY <1>1, OnTop

LEMMA TwoOnTop ==
    ASSUME NEW S, NEW s \in Seq(S), NEW g \in S, NEW h \in S
    PROVE  /\ (<<g>> \o <<h>>) \o s = <<g>> \o (<<h>> \o s)
           /\ <<g, h>> \o s = <<g>> \o (<<h>> \o s)
<1>1. <<g>> \in Seq(S) /\ <<h>> \in Seq(S)
  OBVIOUS
<1>2. <<g, h>> = <<g>> \o <<h>>
  <2>1. PICK u : u = <<g>> \o <<h>>
    OBVIOUS
  <2>2. u \in Seq(S) /\ Len(u) = 2 /\ u[1] = g /\ u[2] = h
    BY <2>1
  <2>3. u = <<g, h>>
    BY <2>2
  <2> QED
    BY <2>1, <2>3
<1>3. (<<g>> \o <<h>>) \o s = <<g>> \o (<<h>> \o s)
  BY <1>1, ConcatAssociative
<1> QED
  BY <1>2, <1>3
-----------------------------------------------------------------------------
(***************************************************************************)
(* The functions on the stack and the configuration of the automaton agree *)
(* about what has been read and what may follow.  Where a number may have  *)
(* ended, the automaton is not between two values yet, but it will be with *)
(* the next letter.                                                        *)
(***************************************************************************)
Settled(t) == Finished(Conf(t))
Quiet(t)   == Conf(t).phase \in {"int", "frac"} /\ t.has_token => t.token \in Enders

\* A key does not start here.
Used(t) == t.prev \notin {NUL, "\n"} /\ (t.newline => is_newline(t.token))

\* The innermost array or inline table, and what is around it.
Inside(c, kind, m, l) == /\ m \in Seq(Levels) /\ l \in Levels
                         /\ c.nest = Append(m, l) /\ l.kind = kind /\ c.form = "key"

EndOf(nest) == IF nest = <<>> THEN TopEnd
               ELSE IF nest[Len(nest)].kind = "array" THEN ArrayEnd ELSE InlineEnd

\* A value may start.
Ready(c) == /\ c.form = "key"
            /\ \/ c.phase = "value"
               \/ c.phase = "in" /\ \E m, l : Inside(c, "array", m, l) /\ l.sep

\* A segment may start, or has.
Form(g) == IF g.fn = "key" THEN "key" ELSE IF g.double THEN "arraytable" ELSE "table"

Begins(g, c) == \/ c.phase = "segment" /\ c.form = Form(g)
                \/ g.fn = "key" /\ c.phase = "start"
                \/ g.fn = "key" /\ c.phase = "in" /\ \E m, l : Inside(c, "inline", m, l) /\ l.sep
                \/ g.fn = "table" /\ ~g.double /\ c.phase = "header"
Goes(g, c)   == c.phase \in {"bare", "dot"} /\ c.form = Form(g)

\* How a key or a header ends, and what comes then.
End(g)            == IF g.fn = "key" THEN "=" ELSE "]"
Leads(g, b, nest) == \/ /\ g.fn = "key"
                        /\ \E a : b = <<Value(EndOf(nest))>> \o a /\ Encloses(a, nest)
                     \/ g.fn = "table" /\ b = <<>> /\ nest = <<>>

-----------------------------------------------------------------------------
Top_agrees(s, t) ==
    /\ s = <<>> /\ Quiet(t) /\ Settled(t).nest = <<>>
    /\ \/ Settled(t).phase = "start"
       \/ Settled(t).phase = "after" /\ Used(t)

Key_agrees(s, t) ==
    /\ s # <<>> /\ Head(s).fn \in {"key", "table"}
    /\ Leads(Head(s), Tail(s), Conf(t).nest)
    /\ Head(s).expecting => Begins(Head(s), Conf(t))
    /\ ~Head(s).expecting => /\ Goes(Head(s), Conf(t))
                             /\ t.token \in {".", End(Head(s))}

\* A segment k of a key or header g, and what is below that.
Segment_agrees(k, g, b, t) ==
    /\ g.fn \in {"key", "table"} /\ ~g.expecting /\ k.end = End(g)
    /\ Leads(g, b, Conf(t).nest)
    /\ \/ k.idx = 0 /\ ~k.done /\ Begins(g, Conf(t)) /\ t.token \notin Blank
       \/ k.idx # 0 /\ Goes(g, Conf(t)) /\ (k.done \/ Conf(t).phase = "bare")

BareKey_agrees(s, t) ==
    /\ s # <<>> /\ Head(s).fn = "barekey" /\ Tail(s) # <<>>
    /\ Segment_agrees(Head(s), Head(Tail(s)), Tail(Tail(s)), t)

Value_agrees(s, t) ==
    /\ s # <<>> /\ Head(s).fn = "value" /\ Ready(Conf(t))
    /\ Head(s).num_end = EndOf(Conf(t).nest) /\ Encloses(Tail(s), Conf(t).nest)

\* The value starts where the lookahead did.
Lookahead_agrees(s, t) ==
    /\ s # <<>> /\ Head(s).fn = "lookahead"
    /\ \E c, from : /\ from = Head(s).from /\ from \in 3 .. Len(t.stream)
                    /\ t.stream[from] = "1"
                    /\ c = ConfAt(t.stream, from - 1) /\ Ready(c)
                    /\ Head(s).num_end = EndOf(c.nest) /\ Encloses(Tail(s), c.nest)

Number_agrees(s, t) ==
    /\ s # <<>> /\ Head(s).fn = "number"
    /\ Head(s).as # "garbage" =>
          /\ Conf(t).form = "key"
          /\ Head(s).num_end = EndOf(Conf(t).nest) /\ Encloses(Tail(s), Conf(t).nest)
          /\ \/ Head(s).as = "int" /\ Ready(Conf(t)) /\ t.token = "1"
             \/ Head(s).as = Conf(t).phase /\ Used(t)

Around_array(s, c) ==
    /\ s # <<>> /\ Head(s).fn = "array"
    /\ \E m, l : /\ Inside(c, "array", m, l) /\ Encloses(Tail(s), m)
                 /\ Head(s).sep = l.sep /\ Head(s).len = l.size
Array_agrees(s, t) ==
    /\ Quiet(t) /\ Settled(t).phase = "in" /\ Around_array(s, Settled(t))
    /\ Head(s).sep => Conf(t).phase = "in"

Inline_agrees(s, t) ==
    /\ s # <<>> /\ Head(s).fn = "inline" /\ Quiet(t) /\ Settled(t).phase = "in"
    /\ Head(s).sep => Conf(t).phase = "in"
    /\ \E m, l : /\ Inside(Settled(t), "inline", m, l) /\ Encloses(Tail(s), m)
                 /\ Head(s).sep = l.sep /\ (Head(s).first <=> l.size = 0)

Comment_agrees(s, t) ==
    /\ s # <<>> /\ Head(s).fn = "comment"
    /\ \/ /\ t.token = "#"
          /\ Top_agrees(Tail(s), t) \/ Array_agrees(Tail(s), t)
       \/ /\ Conf(t).phase = "comment" /\ ~is_control(t.token)
          /\ \/ Tail(s) = <<>> /\ Conf(t).nest = <<>>
             \/ Around_array(Tail(s), Conf(t))

\* All but the reading of white space, which may come on top of some of them.
Base_agrees(s, t) ==
    \/ Top_agrees(s, t) \/ Key_agrees(s, t) \/ BareKey_agrees(s, t) \/ Value_agrees(s, t)
    \/ Lookahead_agrees(s, t) \/ Number_agrees(s, t)
    \/ Array_agrees(s, t) \/ Inline_agrees(s, t) \/ Comment_agrees(s, t)

Steady(s) == \/ s = <<>> \/ Head(s).fn \in {"key", "table", "value", "array", "inline"}
             \/ Head(s).fn = "barekey" /\ Head(s).done

Agrees(s, t) == \/ Base_agrees(s, t)
                \/ /\ s # <<>> /\ Head(s).fn = "whitespace"
                   /\ Steady(Tail(s)) /\ Base_agrees(Tail(s), t)

(***************************************************************************)
(* A '\r' that stands alone is lost near the start.  Elsewhere it is given *)
(* back, and where a value or a key should start it is found there again.  *)
(***************************************************************************)
LostAt(s) == \E i \in {1, 2} : i < Len(s) /\ s[i] = "\r" /\ s[i + 1] # "\n"

Alone(t) == /\ t.has_token /\ t.token = "\r"
            /\ t.cursor < Len(t.stream) /\ t.stream[t.cursor + 1] # "\n"

Doomed(s, t) == /\ Alone(t) /\ s # <<>>
                /\ \/ Head(s).fn \in {"value", "key"}
                   \/ Head(s).fn = "barekey" /\ Head(s).idx = 0

AgreeInv == /\ ReadInv
            /\ result = "running" =>
                  LostAt(tok.stream) \/ Doomed(stack, tok) \/ Agrees(stack, tok)
            /\ result = "ok" => AcceptsOnlyDocuments

-----------------------------------------------------------------------------
(* What is read next. *)

LEMMA UsedOnward ==
    ASSUME NEW t, NEW u, Consumed(t, u), t.token \notin {NUL, "\n"},
           t.token \in Blank => Used(t)
    PROVE  Used(u)
<1>1. ~OnBlankLine(t)
  BY DEF OnBlankLine, Used, Blank, is_whitespace, is_newline
<1> QED
  BY <1>1 DEF Consumed, Used

LEMMA QuietConsumed ==
    ASSUME NEW t, NEW u, Quiet(t), t.has_token, Consumed(t, u)
    PROVE  Conf(u) = Move(Settled(t), t.token, TRUE)
  BY FinishedMoves DEF Quiet, Settled, Consumed

\* Not behind a number.
LEMMA NotNumber ==
    ASSUME NEW t, Conf(t).phase \notin {"int", "frac"}
    PROVE  Quiet(t) /\ Settled(t) = Conf(t)
  BY DEF Quiet, Settled, Finished

LEMMA ReadyMoves ==
    ASSUME NEW c, Ready(c)
    PROVE  /\ \A ch \in Blank : Move(c, ch, TRUE) = c
           /\ Move(c, "1", TRUE) = Config("int", "key", c.nest)
           /\ Move(c, "[", TRUE) = Enter(c, "array")
           /\ Move(c, "{", TRUE) = Enter(c, "inline")
<1>1. CASE c.phase = "value"
  BY <1>1, MoveValue DEF Ready
<1>2. ASSUME c.phase = "in", NEW m, NEW l, Inside(c, "array", m, l), l.sep
      PROVE  /\ \A ch \in Blank : Move(c, ch, TRUE) = c
             /\ Move(c, "1", TRUE) = Config("int", "key", c.nest)
             /\ Move(c, "[", TRUE) = Enter(c, "array")
             /\ Move(c, "{", TRUE) = Enter(c, "inline")
  BY <1>2, MoveIn DEF Inside
<1> QED
  BY <1>1, <1>2 DEF Ready

LEMMA BeginsMoves ==
    ASSUME NEW g, NEW c, Begins(g, c)
    PROVE  /\ \A ch \in Blank : Begins(g, Move(c, ch, TRUE)) /\ Move(c, ch, TRUE).nest = c.nest
           /\ \A ch \in Bare : Move(c, ch, TRUE) = Config("bare", Form(g), c.nest)
<1>1. CASE c.phase = "segment" /\ c.form = Form(g)
  BY <1>1, MoveSegment DEF Begins
<1>2. CASE g.fn = "key" /\ c.phase = "start"
  BY <1>2, MoveStart DEF Begins, Form
<1>3. CASE g.fn = "key" /\ c.phase = "in" /\ \E m, l : Inside(c, "inline", m, l) /\ l.sep
  <2>1. PICK m, l : Inside(c, "inline", m, l) /\ l.sep
    BY <1>3
  <2>2. /\ \A ch \in Blank : Move(c, ch, TRUE) = c
        /\ \A ch \in Bare : Move(c, ch, TRUE) = Config("bare", "key", c.nest)
    BY <1>3, <2>1, MoveIn DEF Inside
  <2> QED
    BY <1>3, <2>2 DEF Form
<1>4. CASE g.fn = "table" /\ ~g.double /\ c.phase = "header"
  <2>1. \A ch \in Blank : Move(c, ch, TRUE) = Config("segment", "table", c.nest)
    BY <1>4, MoveHeader
  <2>2. \A ch \in Bare : Move(c, ch, TRUE) = Config("bare", "table", c.nest)
    BY <1>4, MoveHeader
  <2>3. PICK e : e = Config("segment", "table", c.nest)
    OBVIOUS
  <2>4. e.phase = "segment" /\ e.form = "table" /\ e.nest = c.nest
    BY <2>3 DEF Config
  <2>5. Form(g) = "table"
    BY <1>4 DEF Form
  <2>6. Begins(g, e)
    BY <2>4, <2>5 DEF Begins
  <2> QED
    BY <2>1, <2>2, <2>3, <2>4, <2>5, <2>6
<1> QED
  BY <1>1, <1>2, <1>3, <1>4 DEF Begins

\* A value is over.
LEMMA ValueOver ==
    ASSUME NEW t, NEW b, NEW n, Encloses(b, n), Quiet(t),
           Settled(t) = ValueEnd(Config("in", "key", n)), n = <<>> => Used(t)
    PROVE  Agrees(b, t)
<1>1. n \in Seq(Levels)
  BY EnclosesTyped
<1>2. CASE n = <<>>
  <2>1. b = <<Whitespace>>
    BY <1>2, EnclosesNone
  <2>2. Settled(t) = Config("after", "key", <<>>)
    BY <1>2 DEF ValueEnd, To, Config
  <2>3. Top_agrees(<<>>, t)
    BY <1>2, <2>2 DEF Top_agrees, Config
  <2>4. b # <<>> /\ Head(b).fn = "whitespace" /\ Tail(b) = <<>>
    BY <2>1 DEF Whitespace
  <2> QED
    BY <2>3, <2>4 DEF Agrees, Base_agrees, Steady
<1>3. CASE n # <<>>
  <2>1. PICK m, l : m \in Seq(Levels) /\ l \in Levels /\ n = Append(m, l)
    BY <1>1, <1>3, LastLevel
  <2>2. PICK a \in Seq(Fixed) : Encloses(a, m) /\ b = Frame(l) \o a
    BY <2>1, EnclosedIn
  <2>3. PICK k : k = [l EXCEPT !.sep = FALSE, !.size = @ + 1]
    OBVIOUS
  <2>4. k \in Levels /\ k.kind = l.kind /\ k.sep = FALSE
        /\ k.size = l.size + 1 /\ l.size \in Nat
    <3>1. l.kind \in {"array", "inline"} /\ l.size \in Nat
      BY <2>1 DEF Levels
    <3>2. k = [kind |-> l.kind, sep |-> FALSE, size |-> l.size + 1]
      BY <2>1, <2>3 DEF Levels
    <3> QED
      BY <3>1, <3>2 DEF Levels
  <2>5. PICK d : d = Settled(t)
    OBVIOUS
  <2>6. d = Config("in", "key", Append(m, k))
    <3>1. PICK c : c = Config("in", "key", n)
      OBVIOUS
    <3>2. c.form = "key" /\ c.nest = n
      BY <3>1 DEF Config
    <3>3. Top(c) = l /\ Front(c.nest) = m
      BY <2>1, <3>2, Grows DEF Top
    <3>4. d = ValueEnd(c)
      BY <2>5, <3>1
    <3> QED
      BY <1>3, <2>3, <3>2, <3>3, <3>4 DEF ValueEnd, SetTop
  <2>7. d.phase = "in" /\ Inside(d, l.kind, m, k)
    BY <2>1, <2>4, <2>6 DEF Inside, Config
  <2>8. CASE l.kind = "array"
    <3>1. PICK g : g = Array(FALSE, l.size + 1)
      OBVIOUS
    <3>2. g.fn = "array" /\ g.sep = FALSE /\ g.len = l.size + 1
      BY <3>1 DEF Array
    <3>3. b = <<g>> \o a
      BY <2>2, <2>8, <3>1 DEF Frame
    <3>4. b # <<>> /\ Head(b) = g /\ Tail(b) = a
      BY <2>2, <3>3, HeadIs
    <3>5. Around_array(b, d)
      BY <2>2, <2>4, <2>7, <2>8, <3>2, <3>4 DEF Around_array
    <3>6. Array_agrees(b, t)
      BY <2>5, <2>7, <3>2, <3>4, <3>5 DEF Array_agrees
    <3> QED
      BY <3>6 DEF Agrees, Base_agrees
  <2>9. CASE l.kind = "inline"
    <3>1. PICK g : g = Inline(FALSE, FALSE)
      OBVIOUS
    <3>2. g.fn = "inline" /\ g.sep = FALSE /\ g.first = FALSE
      BY <3>1 DEF Inline
    <3>3. PICK s : s = <<g>> \o a
      OBVIOUS
    <3>4. g \in Fixed
      BY <3>1, ConstantFrames
    <3>5. s \in Seq(Fixed) /\ s # <<>> /\ Head(s) = g /\ Tail(s) = a
      BY <2>2, <3>3, <3>4, OnTop
    <3>6. b = <<Whitespace>> \o s
      BY <2>2, <2>9, <3>1, <3>3, <3>4, TwoOnTop, ConstantFrames DEF Frame
    <3>7. b # <<>> /\ Head(b) = Whitespace /\ Tail(b) = s
      BY <3>5, <3>6, HeadIs
    <3>8. Inline_agrees(s, t)
      <4>1. k.size # 0 /\ (g.first <=> k.size = 0) /\ g.sep = k.sep
        <5>1. k.size # 0
          BY <2>4
        <5>2. g.first <=> k.size = 0
          BY <3>2, <5>1, Zenon
        <5> QED
          BY <2>4, <3>2, <5>1, <5>2
      <4>2. Inside(Settled(t), "inline", m, k) /\ Settled(t).phase = "in"
        BY <2>5, <2>7, <2>9
      <4> QED
        BY <2>2, <3>2, <3>5, <4>1, <4>2 DEF Inline_agrees
    <3>9. Steady(s) /\ Head(b).fn = "whitespace"
      BY <3>2, <3>5, <3>7 DEF Steady, Whitespace
    <3> QED
      BY <3>7, <3>8, <3>9 DEF Agrees, Base_agrees
  <2> QED
    BY <2>1, <2>8, <2>9 DEF Levels
<1> QED
  BY <1>2, <1>3

-----------------------------------------------------------------------------
(* A look for a line end. *)

LEMMA NotNewlineIs ==
    ASSUME scenario.letters \in SUBSET Char, NEW t, Sound(Char, t), NEW n \in NotNewline(t)
    PROVE  \/ n = t /\ t.token \notin {"\n", "\r"}
           \/ Alone(n)
           \/ LostAt(n.stream)
<1> PICK p \in Newlines(t) : ~p.found /\ n = p.tok
  BY DEF NotNewline
<1>1. CASE t.token # "\r"
  <2>1. p = [found |-> is_newline(t.token), tok |-> t]
    BY <1>1 DEF Newlines, is_return
  <2>2. p.tok = t /\ (t.token # "\n")
    BY <2>1 DEF is_newline
  <2> QED
    BY <1>1, <2>2
<1>2. CASE t.token = "\r"
  <2>1. t.has_token /\ t.cursor > 0 /\ Returned(t) = 1 /\ t.cursor \in Nat
        /\ t.cursor <= Len(t.stream) /\ Len(t.stream) \in Nat
    BY <1>2, SoundToken, StreamTyped DEF NUL
  <2>2. PICK r \in Reads(t) : r.token # "\n" /\ n = backtrack(r, 1, 0)
    <3>1. PICK r \in Reads(t) :
             p = [found |-> is_newline(r.token),
                  tok   |-> IF is_newline(r.token) THEN r ELSE Back(r, Returned(t))]
      BY <1>2 DEF Newlines, is_return
    <3>2. ~is_newline(r.token) /\ p.tok = Back(r, Returned(t))
      BY <3>1
    <3> QED
      BY <2>1, <3>2 DEF is_newline, Back
  <2>3. Sound(Char, r) /\ r.cursor = t.cursor + 1 /\ KeepsText(t, r)
    BY <2>1, <2>2, ReadsSound DEF Reads
  <2>4. /\ Sound(Char, n) /\ n.stream = r.stream
        /\ n.cursor = IF Refuses(r, 1) THEN r.cursor ELSE r.cursor - 1
        /\ ~Refuses(r, 1) => n.has_token
    BY <2>2, <2>3, CharsAre, SoundBacks
  <2>5. t.cursor \in 1 .. Len(t.stream)
    BY <2>1
  <2>6. r.stream[t.cursor] = "\r"
    BY <1>2, <2>1, <2>3, <2>5 DEF Sound, Letter, KeepsText, NUL
  <2>7. t.cursor < Len(r.stream) /\ r.stream[t.cursor + 1] # "\n"
    <3>1. r.cursor <= Len(r.stream) /\ Len(r.stream) \in Nat
      BY <2>3, StreamTyped
    <3>2. r.stream[t.cursor + 1] # "\n"
      BY <2>1, <2>2, <2>3 DEF Sound, Letter, EOF
    <3> QED
      BY <2>1, <2>3, <3>1, <3>2
  <2>8. CASE Refuses(r, 1)
    <3>1. t.cursor \in {1, 2}
      BY <2>1, <2>3, <2>8 DEF Refuses
    <3> QED
      BY <2>4, <2>6, <2>7, <3>1 DEF LostAt
  <2>9. CASE ~Refuses(r, 1)
    <3>1. n.cursor = t.cursor /\ n.has_token
      BY <2>1, <2>3, <2>4, <2>9
    <3>2. n.token = "\r"
      BY <2>1, <2>4, <2>6, <3>1 DEF Sound, Letter, EOF
    <3> QED
      BY <2>4, <2>7, <3>1, <3>2 DEF Alone
  <2> QED
    BY <2>8, <2>9
<1> QED
  BY <1>1, <1>2

LEMMA AtNewlineIs ==
    ASSUME NEW t, NEW n \in AtNewline(t)
    PROVE  \/ n = t /\ t.token = "\n"
           \/ t.token = "\r" /\ n \in Reads(t) /\ n.token = "\n"
<1> PICK p \in Newlines(t) : p.found /\ n = p.tok
  BY DEF AtNewline
<1>1. CASE t.token # "\r"
  <2>1. p = [found |-> is_newline(t.token), tok |-> t]
    BY <1>1 DEF Newlines, is_return
  <2>2. p.tok = t /\ p.found = is_newline(t.token)
    BY <2>1
  <2> QED
    BY <2>2 DEF is_newline
<1>2. CASE t.token = "\r"
  <2>1. PICK r \in Reads(t) :
           p = [found |-> is_newline(r.token),
                tok   |-> IF is_newline(r.token) THEN r ELSE Back(r, Returned(t))]
    BY <1>2 DEF Newlines, is_return
  <2>2. p.found = is_newline(r.token)
    BY <2>1
  <2>3. p.tok = IF is_newline(r.token) THEN r ELSE Back(r, Returned(t))
    BY <2>1
  <2> QED
    BY <1>2, <2>2, <2>3 DEF is_newline
<1> QED
  BY <1>1, <1>2

\* What the functions read.
LEMMA LetterConsumed ==
    ASSUME scenario.letters \in SUBSET Char, NEW t, Sound(Char, t), t.token # NUL,
           NEW u \in Reads(t)
    PROVE  Consumed(t, u)
<1>1. t.has_token /\ t.cursor > 0 /\ t.cursor \in Nat
  BY SoundToken
<1>2. t.cursor >= 1
  BY <1>1
<1> QED
  BY <1>1, <1>2, ReadsConsume DEF Reads

\* A line end is read, and a character behind it.
LEMMA LineRead ==
    ASSUME scenario.letters \in SUBSET Char, NEW t, Sound(Char, t), Quiet(t),
           NEW d, d = Settled(t), Move(d, "\n", TRUE) = LineEnd(d),
           Move(d, "\r", TRUE) = Config("cr", d.form, d.nest),
           NEW n \in AtNewline(t), NEW u \in Reads(n)
    PROVE  Sound(Char, u) /\ Conf(u) = LineEnd(d)
<1>1. CASE n = t /\ t.token = "\n"
  <2>1. Consumed(t, u)
    BY <1>1, LetterConsumed DEF NUL
  <2>2. t.has_token
    BY <1>1, SoundToken DEF NUL
  <2>3. Conf(u) = Move(d, t.token, TRUE)
    BY <2>1, <2>2, QuietConsumed
  <2> QED
    BY <1>1, <2>1, <2>3 DEF Consumed
<1>2. CASE t.token = "\r" /\ n \in Reads(t) /\ n.token = "\n"
  <2>1. Consumed(t, n)
    BY <1>2, LetterConsumed DEF NUL
  <2>2. t.has_token
    BY <1>2, SoundToken DEF NUL
  <2>3. Conf(n) = Move(d, t.token, TRUE)
    BY <2>1, <2>2, QuietConsumed
  <2>4. Sound(Char, n)
    BY <2>1 DEF Consumed
  <2>5. Consumed(n, u)
    BY <1>2, <2>4, LetterConsumed DEF NUL
  <2>6. PICK c : c = Conf(n)
    OBVIOUS
  <2>7. c = Config("cr", d.form, d.nest)
    BY <1>2, <2>3, <2>6
  <2>8. c.phase = "cr" /\ c.form = d.form /\ c.nest = d.nest
    BY <2>7 DEF Config
  <2>9. Conf(u) = Move(c, "\n", TRUE)
    BY <1>2, <2>5, <2>6 DEF Consumed
  <2>10. Move(c, "\n", TRUE) = LineEnd(c)
    BY <2>8, MoveLineEnd
  <2>11. LineEnd(c) = LineEnd(d)
    BY <2>8 DEF LineEnd, To
  <2> QED
    BY <2>5, <2>9, <2>10, <2>11 DEF Consumed
<1> QED
  BY <1>1, <1>2, AtNewlineIs

-----------------------------------------------------------------------------
(* The steps keep it. *)

Good(s, t) == LostAt(t.stream) \/ Doomed(s, t) \/ Agrees(s, t)

Lands == result' = "running" => Good(stack', tok')

LEMMA Landing ==
    ASSUME NEW t
    PROVE  /\ Fail(t) => Lands
           /\ \A s : Go(t, s) /\ Good(s, t) => Lands
           /\ \A s : Go(t, s) /\ Base_agrees(s, t) => Lands
  BY DEF Fail, Go, Lands, Good, Agrees

LEMMA LostKept ==
    ASSUME NEW t, NEW u, Sound(Char, t), Sound(Char, u), KeepsText(t, u), LostAt(t.stream)
    PROVE  LostAt(u.stream)
<1>1. Len(t.stream) \in Nat /\ Len(u.stream) \in Nat /\ Len(t.stream) <= Len(u.stream)
  BY StreamTyped DEF KeepsText
<1>2. PICK i \in {1, 2} : i < Len(t.stream) /\ t.stream[i] = "\r" /\ t.stream[i + 1] # "\n"
  BY DEF LostAt
<1>3. i \in 1 .. Len(t.stream) /\ i + 1 \in 1 .. Len(t.stream) /\ i < Len(u.stream)
  BY <1>1, <1>2
<1>4. u.stream[i] = t.stream[i] /\ u.stream[i + 1] = t.stream[i + 1]
  BY <1>3 DEF KeepsText
<1> QED
  BY <1>2, <1>3, <1>4 DEF LostAt

\* What a function knows when it runs.
LEMMA Knows ==
    ASSUME NEW s, NEW t, Agrees(s, t)
    PROVE  /\ s = <<>> => Top_agrees(s, t)
           /\ s # <<>> /\ Head(s).fn \in {"key", "table"} => Key_agrees(s, t)
           /\ s # <<>> /\ Head(s).fn = "barekey" => BareKey_agrees(s, t)
           /\ s # <<>> /\ Head(s).fn = "value" => Value_agrees(s, t)
           /\ s # <<>> /\ Head(s).fn = "lookahead" => Lookahead_agrees(s, t)
           /\ s # <<>> /\ Head(s).fn = "number" => Number_agrees(s, t)
           /\ s # <<>> /\ Head(s).fn = "array" => Array_agrees(s, t)
           /\ s # <<>> /\ Head(s).fn = "inline" => Inline_agrees(s, t)
           /\ s # <<>> /\ Head(s).fn = "comment" => Comment_agrees(s, t)
           /\ s # <<>> /\ Head(s).fn = "whitespace" => Steady(Tail(s)) /\ Base_agrees(Tail(s), t)
<1>1. /\ Top_agrees(s, t) => s = <<>>
      /\ Key_agrees(s, t) => s # <<>> /\ Head(s).fn \in {"key", "table"}
      /\ BareKey_agrees(s, t) => s # <<>> /\ Head(s).fn = "barekey"
      /\ Value_agrees(s, t) => s # <<>> /\ Head(s).fn = "value"
      /\ Lookahead_agrees(s, t) => s # <<>> /\ Head(s).fn = "lookahead"
  BY DEF Top_agrees, Key_agrees, BareKey_agrees, Value_agrees, Lookahead_agrees
<1>2. /\ Number_agrees(s, t) => s # <<>> /\ Head(s).fn = "number"
      /\ Array_agrees(s, t) => s # <<>> /\ Head(s).fn = "array"
      /\ Inline_agrees(s, t) => s # <<>> /\ Head(s).fn = "inline"
      /\ Comment_agrees(s, t) => s # <<>> /\ Head(s).fn = "comment"
  BY DEF Number_agrees, Array_agrees, Around_array, Inline_agrees, Comment_agrees
<1>3. \/ Base_agrees(s, t)
      \/ /\ s # <<>> /\ Head(s).fn = "whitespace"
         /\ Steady(Tail(s)) /\ Base_agrees(Tail(s), t)
  BY DEF Agrees
<1> QED
  BY <1>1, <1>2, <1>3 DEF Base_agrees

\* White space changes nothing for what it is read on top of.
LEMMA BlankKept ==
    ASSUME NEW s, NEW t, Base_agrees(s, t), Steady(s), t.has_token, t.token \in Blank,
           NEW u, Consumed(t, u)
    PROVE  Base_agrees(s, u)
<1>1. Agrees(s, t)
  BY DEF Agrees
<1>2. Conf(u) = Move(Conf(t), t.token, TRUE) /\ t.token \notin {NUL, "\n"}
      /\ t.token \notin {".", "=", "]"}
  BY DEF Consumed, Blank, NUL
<1>3. PICK c : c = Conf(t)
  OBVIOUS
<1>11. Conf(u) = Move(c, t.token, TRUE)
  BY <1>2, <1>3
<1>4. CASE s = <<>>
  <2>1. Top_agrees(s, t)
    BY <1>1, <1>4, Knows
  <2>2. PICK d : d = Settled(t)
    OBVIOUS
  <2>3. Conf(u) = Move(d, t.token, TRUE)
    BY <2>1, <2>2, QuietConsumed DEF Top_agrees
  <2>4. d.phase = "start" \/ (d.phase = "after" /\ Used(t))
    BY <2>1, <2>2 DEF Top_agrees
  <2>5. Conf(u) = d
    BY <2>3, <2>4, MoveStart, MoveAfter
  <2>6. Quiet(u) /\ Settled(u) = d
    BY <2>4, <2>5, NotNumber
  <2>7. d.phase = "after" => Used(u)
    BY <1>2, <2>4, UsedOnward
  <2>8. Top_agrees(s, u)
    BY <1>4, <2>1, <2>2, <2>4, <2>6, <2>7 DEF Top_agrees
  <2> QED
    BY <2>8 DEF Base_agrees
<1>5. CASE s # <<>> /\ Head(s).fn \in {"key", "table"}
  <2>1. Key_agrees(s, t)
    BY <1>1, <1>5, Knows
  <2>2. PICK g : g = Head(s)
    OBVIOUS
  <2>3. g.expecting
    BY <1>2, <2>1, <2>2 DEF Key_agrees, End
  <2>4. Begins(g, c)
    BY <1>3, <2>1, <2>2, <2>3 DEF Key_agrees
  <2>5. Begins(g, Conf(u)) /\ Conf(u).nest = c.nest
    <3>1. \A ch \in Blank : Begins(g, Move(c, ch, TRUE)) /\ Move(c, ch, TRUE).nest = c.nest
      BY <2>4, BeginsMoves
    <3>2. PICK e : e = Move(c, t.token, TRUE)
      OBVIOUS
    <3>3. Begins(g, e) /\ e.nest = c.nest
      BY <3>1, <3>2
    <3> QED
      BY <1>11, <3>2, <3>3
  <2> QED
    BY <1>3, <2>1, <2>2, <2>3, <2>5 DEF Base_agrees, Key_agrees
<1>6. CASE s # <<>> /\ Head(s).fn = "barekey"
  <2>1. BareKey_agrees(s, t) /\ Head(s).done
    BY <1>1, <1>6, Knows DEF Steady
  <2>2. PICK k, g, b : k = Head(s) /\ g = Head(Tail(s)) /\ b = Tail(Tail(s))
    OBVIOUS
  <2>3. Segment_agrees(k, g, b, t) /\ k.done
    BY <2>1, <2>2 DEF BareKey_agrees
  <2>4. k.idx # 0 /\ c.phase \in {"bare", "dot"} /\ c.form = Form(g)
    BY <1>3, <2>3 DEF Segment_agrees, Goes
  <2>5. Conf(u) = Config("dot", c.form, c.nest)
    <3>1. c.phase = "bare" \/ c.phase = "dot"
      BY <2>4
    <3>2. \A ch \in Blank : Move(c, ch, TRUE) = Config("dot", c.form, c.nest)
      BY <3>1, MoveBare
    <3> QED
      BY <1>11, <3>2
  <2>6. Goes(g, Conf(u)) /\ Conf(u).nest = c.nest
    BY <2>4, <2>5 DEF Goes, Config
  <2>7. Segment_agrees(k, g, b, u)
    BY <1>3, <2>3, <2>4, <2>6 DEF Segment_agrees
  <2> QED
    BY <2>1, <2>2, <2>7 DEF Base_agrees, BareKey_agrees
<1>7. CASE s # <<>> /\ Head(s).fn = "value"
  <2>1. Value_agrees(s, t)
    BY <1>1, <1>7, Knows
  <2>2. Conf(u) = c
    BY <1>2, <1>3, <2>1, ReadyMoves DEF Value_agrees
  <2> QED
    BY <1>3, <2>1, <2>2 DEF Base_agrees, Value_agrees
<1>8. ASSUME NEW d, d = Settled(t), Quiet(t), d.phase = "in", NEW kind, NEW m, NEW l,
             Inside(d, kind, m, l)
      PROVE  Quiet(u) /\ Settled(u) = d /\ Conf(u) = d
  <2>1. Conf(u) = Move(d, t.token, TRUE)
    BY <1>8, QuietConsumed
  <2>2. Conf(u) = d
    BY <1>8, <2>1, MoveIn DEF Inside
  <2> QED
    BY <1>8, <2>2, NotNumber
<1>9. CASE s # <<>> /\ Head(s).fn = "array"
  <2>1. Array_agrees(s, t)
    BY <1>1, <1>9, Knows
  <2>2. PICK d : d = Settled(t)
    OBVIOUS
  <2>3. Quiet(t) /\ d.phase = "in" /\ Around_array(s, d)
    BY <2>1, <2>2 DEF Array_agrees
  <2>4. PICK m, l : Inside(d, "array", m, l)
    BY <2>3 DEF Around_array
  <2>5. Quiet(u) /\ Settled(u) = d /\ Conf(u) = d
    BY <1>8, <2>2, <2>3, <2>4
  <2> QED
    BY <2>3, <2>5 DEF Base_agrees, Array_agrees
<1>10. CASE s # <<>> /\ Head(s).fn = "inline"
  <2>1. Inline_agrees(s, t)
    BY <1>1, <1>10, Knows
  <2>2. PICK d : d = Settled(t)
    OBVIOUS
  <2>3. Quiet(t) /\ d.phase = "in"
    BY <2>1, <2>2 DEF Inline_agrees
  <2>4. PICK m, l : /\ Inside(d, "inline", m, l) /\ Encloses(Tail(s), m)
                    /\ Head(s).sep = l.sep /\ (Head(s).first <=> l.size = 0)
    BY <2>1, <2>2 DEF Inline_agrees
  <2>5. Quiet(u) /\ Settled(u) = d /\ Conf(u) = d
    BY <1>8, <2>2, <2>3, <2>4
  <2>6. Inline_agrees(s, u)
    BY <1>10, <2>3, <2>4, <2>5 DEF Inline_agrees
  <2> QED
    BY <2>6 DEF Base_agrees
<1> QED
  BY <1>4, <1>5, <1>6, <1>7, <1>9, <1>10 DEF Steady

LEMMA WhitespaceLands ==
    ASSUME ReadInv, Agrees(stack, tok), WhitespaceStep
    PROVE  Lands
<1>1. stack # <<>> /\ f.fn = "whitespace"
  BY DEF WhitespaceStep, In
<1>2. Steady(Below) /\ Base_agrees(Below, tok)
  BY <1>1, Knows DEF f, Below
<1>3. CASE tok.has_token /\ is_whitespace(tok.token)
  <2>1. PICK u \in Reads(tok) : Go(u, stack)
    BY <1>3 DEF WhitespaceStep, Next1
  <2>2. scenario.letters \in SUBSET Char /\ Sound(Char, tok)
    BY ScenarioLetters DEF ReadInv
  <2>3. tok.token \in Blank /\ tok.token # NUL
    BY <1>3 DEF is_whitespace, Blank, NUL
  <2>4. Base_agrees(Below, u)
    BY <1>2, <1>3, <2>1, <2>2, <2>3, LetterConsumed, BlankKept
  <2>5. Good(stack, u)
    BY <1>1, <1>2, <2>4 DEF Good, Agrees, f, Below
  <2> QED
    BY <2>1, <2>5, Landing
<1>4. CASE ~(tok.has_token /\ is_whitespace(tok.token))
  <2>1. Go(tok, Below)
    BY <1>4 DEF WhitespaceStep, Return
  <2> QED
    BY <1>2, <2>1, Landing
<1> QED
  BY <1>3, <1>4

LEMMA StatementLands ==
    ASSUME ReadInv, Agrees(stack, tok), Statement
    PROVE  Lands
<1>1. stack = <<>> /\ tok.has_token /\ Top_agrees(stack, tok)
      /\ scenario.letters \in SUBSET Char /\ Sound(Char, tok)
  BY Knows, ScenarioLetters DEF Statement, Load, ReadInv
<1>2. PICK d : d = Settled(tok)
  OBVIOUS
<1>3. Quiet(tok) /\ d.nest = <<>> /\ (d.phase = "start" \/ (d.phase = "after" /\ Used(tok)))
  BY <1>1, <1>2 DEF Top_agrees
<1>4. /\ Move(d, "\n", TRUE) = LineEnd(d)
      /\ Move(d, "\r", TRUE) = Config("cr", d.form, d.nest)
      /\ Move(d, "[", TRUE) = Config("header", d.form, d.nest)
  BY <1>3, MoveStart, MoveAfter
<1>5. CASE tok.token = "#"
  <2>1. Go(tok, <<Comment>>)
    BY <1>1, <1>5 DEF Statement, is_whitespace
  <2>2. Comment_agrees(<<Comment>>, tok)
    <3>1. <<Comment>> # <<>> /\ Head(<<Comment>>) = Comment /\ Tail(<<Comment>>) = <<>>
      OBVIOUS
    <3> QED
      BY <1>1, <1>5, <3>1 DEF Comment_agrees, Comment
  <2> QED
    BY <2>1, <2>2, Landing DEF Base_agrees
<1>6. CASE is_whitespace(tok.token)
  <2>1. Go(tok, <<Whitespace>>)
    BY <1>1, <1>6 DEF Statement, is_whitespace
  <2>2. <<Whitespace>> # <<>> /\ Head(<<Whitespace>>) = Whitespace /\ Tail(<<Whitespace>>) = <<>>
    OBVIOUS
  <2>3. Base_agrees(<<>>, tok)
    BY <1>1 DEF Base_agrees
  <2>4. Good(<<Whitespace>>, tok)
    BY <2>2, <2>3 DEF Good, Agrees, Steady, Whitespace
  <2> QED
    BY <2>1, <2>4, Landing
<1>7. ASSUME NEW n \in AtNewline(tok), NEW u \in Reads(n), Go(u, <<>>)
      PROVE  Lands
  <2>1. Conf(u) = LineEnd(d)
    BY <1>1, <1>2, <1>3, <1>4, <1>7, LineRead
  <2>2. PICK c : c = Conf(u)
    OBVIOUS
  <2>3. c.phase = "start" /\ c.nest = <<>>
    BY <1>3, <2>1, <2>2 DEF LineEnd, To, Config
  <2>4. Quiet(u) /\ Settled(u) = c
    BY <2>2, <2>3, NotNumber
  <2>5. Base_agrees(<<>>, u)
    BY <2>3, <2>4 DEF Base_agrees, Top_agrees
  <2> QED
    BY <1>7, <2>5, Landing
<1>8. ASSUME NEW n \in NotNewline(tok), LostAt(n.stream), NEW t, NEW s, Go(t, s),
             \/ t = n
             \/ t \in Reads(n)
             \/ \E r \in Reads(n) : t \in Reads(r)
      PROVE  Lands
  <2>1. Sound(Char, n)
    BY <1>1, NewlinesSound
  <2>2. \A v : Sound(Char, v) /\ LostAt(v.stream) =>
               \A w \in Reads(v) : Sound(Char, w) /\ LostAt(w.stream)
    BY <1>1, ReadsSound, LostKept DEF Reads
  <2>3. LostAt(t.stream)
    BY <1>8, <2>1, <2>2
  <2> QED
    BY <1>8, <2>3, Landing DEF Good
<1>9. ASSUME NEW n \in NotNewline(tok), n.token = "[", ~LostAt(n.stream), NEW t \in Reads(n),
             \/ t.token # "[" /\ Go(t, <<Table(TRUE, FALSE)>>)
             \/ t.token = "[" /\ \E u \in Reads(t) : Go(u, <<Table(TRUE, TRUE)>>)
      PROVE  Lands
  <2>1. n = tok /\ tok.token = "["
    BY <1>1, <1>9, NotNewlineIs DEF Alone
  <2>2. Consumed(tok, t)
    BY <1>1, <1>9, <2>1, LetterConsumed DEF NUL
  <2>3. PICK c : c = Conf(t)
    OBVIOUS
  <2>4. c = Config("header", d.form, d.nest)
    BY <1>1, <1>2, <1>3, <1>4, <2>1, <2>2, <2>3, QuietConsumed
  <2>5. c.phase = "header" /\ c.nest = <<>>
    BY <1>3, <2>4 DEF Config
  <2>6. CASE t.token # "[" /\ Go(t, <<Table(TRUE, FALSE)>>)
    <3>1. PICK g : g = Table(TRUE, FALSE)
      OBVIOUS
    <3>2. g.fn = "table" /\ g.expecting = TRUE /\ g.double = FALSE
      BY <3>1 DEF Table
    <3>3. Head(<<g>>) = g /\ Tail(<<g>>) = <<>> /\ <<g>> # <<>>
      OBVIOUS
    <3>4. Begins(g, c) /\ Leads(g, <<>>, c.nest)
      BY <2>5, <3>2 DEF Begins, Leads
    <3>5. Key_agrees(<<g>>, t)
      BY <2>3, <3>2, <3>3, <3>4 DEF Key_agrees
    <3> QED
      BY <2>6, <3>1, <3>5, Landing DEF Base_agrees
  <2>7. ASSUME t.token = "[", NEW u \in Reads(t), Go(u, <<Table(TRUE, TRUE)>>)
        PROVE  Lands
    <3>1. PICK g : g = Table(TRUE, TRUE)
      OBVIOUS
    <3>2. g.fn = "table" /\ g.expecting = TRUE /\ g.double = TRUE
      BY <3>1 DEF Table
    <3>3. Head(<<g>>) = g /\ Tail(<<g>>) = <<>> /\ <<g>> # <<>>
      OBVIOUS
    <3>4. Consumed(t, u)
      BY <1>1, <2>2, <2>7, LetterConsumed DEF NUL, Consumed
    <3>5. PICK e : e = Conf(u)
      OBVIOUS
    <3>6. e = Move(c, "[", TRUE)
      BY <2>3, <2>7, <3>4, <3>5 DEF Consumed
    <3>7. e = Config("segment", "arraytable", c.nest)
      BY <2>5, <3>6, MoveHeader
    <3>8. e.phase = "segment" /\ e.form = "arraytable" /\ e.nest = <<>>
      BY <2>5, <3>7 DEF Config
    <3>9. Begins(g, e) /\ Leads(g, <<>>, e.nest)
      BY <3>2, <3>8 DEF Begins, Leads, Form
    <3>10. Key_agrees(<<g>>, u)
      BY <3>2, <3>3, <3>5, <3>9 DEF Key_agrees
    <3> QED
      BY <2>7, <3>1, <3>10, Landing DEF Base_agrees
  <2> QED
    BY <1>9, <2>6, <2>7
<1>10. ASSUME NEW n \in NotNewline(tok), KeyMayStart(n), ~LostAt(n.stream), n.token # "[",
              tok.token # "#", ~is_whitespace(tok.token),
              Go(n, <<Key(TRUE), Value(TopEnd), Whitespace>>)
       PROVE  Lands
  <2>1. PICK g, v, s : g = Key(TRUE) /\ v = Value(TopEnd) /\ s = <<g, v, Whitespace>>
    OBVIOUS
  <2>2. g.fn = "key" /\ g.expecting = TRUE
    BY <2>1 DEF Key
  <2>3. s # <<>> /\ Head(s) = g /\ Tail(s) = <<v, Whitespace>>
    BY <2>1
  <2>4. CASE Alone(n)
    <3>1. Good(s, n)
      BY <2>2, <2>3, <2>4 DEF Good, Doomed
    <3> QED
      BY <1>10, <2>1, <3>1, Landing
  <2>5. CASE n = tok /\ tok.token \notin {"\n", "\r"}
    <3>1. d.phase = "start"
      BY <1>3, <1>10, <2>5 DEF KeyMayStart, Used, is_newline, is_whitespace
    <3>2. PICK c : c = Conf(tok)
      OBVIOUS
    <3>3. c.phase \notin {"int", "frac"}
      <4>1. ASSUME c.phase \in {"int", "frac"} PROVE FALSE
        <5>1. d = ValueEnd(c)
          BY <1>2, <3>2, <4>1 DEF Settled, Finished
        <5> QED
          BY <3>1, <5>1 DEF ValueEnd, To, SetTop, Config
      <4> QED
        BY <4>1
    <3>4. c = d
      BY <1>2, <3>2, <3>3 DEF Settled, Finished
    <3>5. Begins(g, c)
      BY <2>2, <3>1, <3>4 DEF Begins
    <3>6. <<v, Whitespace>> = <<v>> \o <<Whitespace>>
      OBVIOUS
    <3>7. EndOf(c.nest) = TopEnd /\ Encloses(<<Whitespace>>, c.nest)
      BY <1>3, <3>4, EnclosesNone DEF EndOf
    <3>8. Leads(g, <<v, Whitespace>>, c.nest)
      BY <2>1, <2>2, <3>6, <3>7 DEF Leads
    <3>9. Key_agrees(s, tok)
      BY <2>2, <2>3, <3>2, <3>5, <3>8 DEF Key_agrees
    <3> QED
      BY <1>10, <2>1, <2>5, <3>9, Landing DEF Base_agrees
  <2> QED
    BY <1>1, <1>10, <2>4, <2>5, NotNewlineIs
<1>11. ASSUME tok.token # "#", ~is_whitespace(tok.token), NEW n \in NotNewline(tok),
              CASE n.token = "[" ->
                     \E t \in Reads(n) :
                        IF t.token # "[" THEN Go(t, <<Table(TRUE, FALSE)>>)
                        ELSE \E u \in Reads(t) : Go(u, <<Table(TRUE, TRUE)>>)
                [] n.token # "[" /\ KeyMayStart(n) ->
                     Go(n, <<Key(TRUE), Value(TopEnd), Whitespace>>)
                [] OTHER -> Fail(n)
       PROVE  Lands
  <2>1. CASE n.token = "["
    <3>1. PICK t \in Reads(n) :
             IF t.token # "[" THEN Go(t, <<Table(TRUE, FALSE)>>)
             ELSE \E u \in Reads(t) : Go(u, <<Table(TRUE, TRUE)>>)
      BY <1>11, <2>1
    <3> QED
      BY <1>8, <1>9, <2>1, <3>1
  <2>2. CASE n.token # "[" /\ KeyMayStart(n)
    <3>1. Go(n, <<Key(TRUE), Value(TopEnd), Whitespace>>)
      BY <1>11, <2>2
    <3> QED
      BY <1>8, <1>10, <1>11, <2>2, <3>1
  <2>3. CASE n.token # "[" /\ ~KeyMayStart(n)
    <3>1. Fail(n)
      BY <1>11, <2>3
    <3> QED
      BY <3>1, Landing
  <2> QED
    BY <2>1, <2>2, <2>3
<1>12. CASE tok.token # "#" /\ ~is_whitespace(tok.token)
  <2>1. \/ \E n \in AtNewline(tok) : \E t \in Reads(n) : Go(t, <<>>)
        \/ \E n \in NotNewline(tok) :
              CASE n.token = "[" ->
                     \E t \in Reads(n) :
                        IF t.token # "[" THEN Go(t, <<Table(TRUE, FALSE)>>)
                        ELSE \E u \in Reads(t) : Go(u, <<Table(TRUE, TRUE)>>)
                [] n.token # "[" /\ KeyMayStart(n) ->
                     Go(n, <<Key(TRUE), Value(TopEnd), Whitespace>>)
                [] OTHER -> Fail(n)
    BY <1>12 DEF Statement
  <2> QED
    BY <1>7, <1>11, <1>12, <2>1
<1> QED
  BY <1>5, <1>6, <1>12

\* White space is read on top of what goes on behind it.
LEMMA BlankOn ==
    ASSUME NEW s \in Seq(Fixed), NEW t, Steady(s), Base_agrees(s, t)
    PROVE  Good(<<Whitespace>> \o s, t)
<1>1. PICK r : r = <<Whitespace>> \o s
  OBVIOUS
<1>2. r # <<>> /\ Head(r) = Whitespace /\ Tail(r) = s
  BY <1>1, HeadIs
<1>3. Head(r).fn = "whitespace"
  BY <1>2 DEF Whitespace
<1>4. Agrees(r, t)
  BY <1>2, <1>3 DEF Agrees
<1> QED
  BY <1>1, <1>4 DEF Good

\* Of a key or a header only expecting changes.
LEMMA KeyAgain ==
    ASSUME NEW g \in Fixed, g.fn \in {"key", "table"}, NEW b \in BOOLEAN,
           NEW k, k = [g EXCEPT !.expecting = b]
    PROVE  /\ k \in Fixed /\ k.fn = g.fn /\ k.expecting = b
           /\ g.fn = "table" => k.double = g.double
<1>1. CASE g.fn = "key"
  BY <1>1, KeyFrame
<1>2. CASE g.fn = "table"
  <2>1. g \in [fn : {"table"}, expecting : BOOLEAN, double : BOOLEAN]
    BY <1>2 DEF Fixed, Whitespace, Comment
  <2>2. k.double = g.double
    BY <2>1
  <2> QED
    BY <2>2, KeyFrame
<1> QED
  BY <1>1, <1>2

LEMMA SameForm ==
    ASSUME NEW g, NEW k, k.fn = g.fn, g.fn = "table" => k.double = g.double,
           g.fn \in {"key", "table"}
    PROVE  /\ End(k) = End(g)
           /\ \A c : /\ Begins(g, c) => Begins(k, c)
                     /\ Goes(g, c) => Goes(k, c)
           /\ \A b, n : Leads(g, b, n) => Leads(k, b, n)
<1>1. Form(k) = Form(g)
  BY DEF Form
<1>2. \A c : Begins(g, c) => Begins(k, c)
  BY <1>1 DEF Begins
<1>3. \A c : Goes(g, c) => Goes(k, c)
  BY <1>1 DEF Goes
<1>4. \A b, n : Leads(g, b, n) => Leads(k, b, n)
  BY DEF Leads
<1> QED
  BY <1>2, <1>3, <1>4 DEF End

LEMMA FormIs ==
    ASSUME NEW g
    PROVE  /\ g.fn = "key" => Form(g) = "key" /\ End(g) = "="
           /\ g.fn = "table" => /\ ~g.double => Form(g) = "table"
                                /\ g.double => Form(g) = "arraytable"
                                /\ End(g) = "]"
  BY DEF Form, End

LEMMA SegmentLands ==
    ASSUME ReadInv, NEW fn \in {"key", "table"}, In(fn), tok.has_token,
           Agrees(stack, tok), NEW end, end = End(f), Segment(end)
    PROVE  Lands
<1>1. /\ stack \in Seq(Fixed) /\ stack # <<>> /\ Below \in Seq(Fixed) /\ f \in Fixed
      /\ f.fn = fn /\ Key_agrees(stack, tok)
  <2>1. /\ stack \in Seq(Fixed) /\ stack # <<>> /\ Below \in Seq(Fixed) /\ f \in Fixed
        /\ f.fn = fn
    BY Running
  <2> QED
    BY <2>1, Knows DEF f
<1>2. scenario.letters \in SUBSET Char /\ Sound(Char, tok)
  BY ScenarioLetters DEF ReadInv
<1>3. PICK g, b, c : g = f /\ b = Below /\ c = Conf(tok)
  OBVIOUS
<1>4. /\ g \in Fixed /\ g.fn \in {"key", "table"} /\ b \in Seq(Fixed) /\ end = End(g)
      /\ tok.token # end
  BY <1>1, <1>3 DEF Segment
<1>5. /\ Leads(g, b, c.nest)
      /\ g.expecting => Begins(g, c)
      /\ ~g.expecting => Goes(g, c) /\ tok.token \in {".", end}
  BY <1>1, <1>3, <1>4 DEF Key_agrees, f, Below
<1>6. CASE tok.token = "."
  <2>1. CASE g.expecting
    <3>1. Fail(tok)
      BY <1>3, <1>6, <2>1 DEF Segment, is_whitespace
    <3> QED
      BY <3>1, Landing
  <2>2. CASE ~g.expecting
    <3>1. PICK k : k = [g EXCEPT !.expecting = TRUE]
      OBVIOUS
    <3>2. /\ k \in Fixed /\ k.fn = g.fn /\ k.expecting = TRUE
          /\ g.fn = "table" => k.double = g.double
      BY <1>4, <3>1, KeyAgain
    <3>3. PICK u \in Reads(tok) : Go(u, <<k>> \o b)
      BY <1>3, <1>6, <2>2, <3>1 DEF Segment, Next1, is_whitespace
    <3>4. Consumed(tok, u)
      BY <1>2, <1>6, <3>3, LetterConsumed DEF NUL
    <3>5. PICK e : e = Conf(u)
      OBVIOUS
    <3>6. e = Move(c, ".", TRUE)
      BY <1>3, <1>6, <3>4, <3>5 DEF Consumed
    <3>7. c.phase = "bare" \/ c.phase = "dot"
      BY <1>5, <2>2 DEF Goes
    <3>8. Move(c, ".", TRUE) = Config("segment", c.form, c.nest)
      BY <3>7, MoveBare
    <3>9. e.phase = "segment" /\ e.form = Form(g) /\ e.nest = c.nest
      <4>1. c.form = Form(g)
        BY <1>5, <2>2 DEF Goes
      <4>2. e = Config("segment", c.form, c.nest)
        BY <3>6, <3>8
      <4> QED
        BY <4>1, <4>2 DEF Config
    <3>10. Begins(g, e)
      BY <3>9 DEF Begins
    <3>11. Begins(k, e) /\ Leads(k, b, e.nest)
      BY <1>4, <1>5, <3>2, <3>9, <3>10, SameForm
    <3>12. PICK s : s = <<k>> \o b
      OBVIOUS
    <3>13. s # <<>> /\ Head(s) = k /\ Tail(s) = b
      BY <1>4, <3>12, HeadIs
    <3>14. Key_agrees(s, u)
      BY <1>4, <3>2, <3>5, <3>11, <3>13 DEF Key_agrees
    <3> QED
      BY <3>3, <3>12, <3>14, Landing DEF Base_agrees
  <2> QED
    BY <2>1, <2>2
<1>7. CASE is_whitespace(tok.token)
  <2>1. Go(tok, <<Whitespace>> \o stack)
    BY <1>7 DEF Segment, is_whitespace
  <2>2. Steady(stack) /\ Base_agrees(stack, tok)
    BY <1>1 DEF Steady, Base_agrees, Key_agrees
  <2>3. Good(<<Whitespace>> \o stack, tok)
    BY <1>1, <2>2, BlankOn
  <2> QED
    BY <2>1, <2>3, Landing
<1>8. CASE tok.token # "." /\ ~is_whitespace(tok.token)
  <2>1. PICK k : k = [g EXCEPT !.expecting = FALSE]
    OBVIOUS
  <2>2. /\ k \in Fixed /\ k.fn = g.fn /\ k.expecting = FALSE
        /\ g.fn = "table" => k.double = g.double
    BY <1>4, <2>1, KeyAgain
  <2>3. PICK a : a = BareKey(end)
    OBVIOUS
  <2>4. a.fn = "barekey" /\ a.end = end /\ a.idx = 0 /\ a.done = FALSE
    BY <2>3 DEF BareKey
  <2>5. Go(tok, <<a, k>> \o b)
    BY <1>3, <1>8, <2>1, <2>3 DEF Segment
  <2>6. g.expecting /\ Begins(g, c)
    BY <1>4, <1>5, <1>8
  <2>7. tok.token \notin Blank
    BY <1>8 DEF is_whitespace, Blank
  <2>8. Begins(k, c) /\ Leads(k, b, c.nest) /\ End(k) = End(g)
    BY <1>4, <1>5, <2>2, <2>6, SameForm
  <2>9. Segment_agrees(a, k, b, tok)
    BY <1>3, <1>4, <2>2, <2>4, <2>7, <2>8 DEF Segment_agrees
  <2>10. PICK s : s = <<a, k>> \o b
    OBVIOUS
  <2>11. s # <<>> /\ Head(s) = a /\ Tail(s) # <<>> /\ Head(Tail(s)) = k /\ Tail(Tail(s)) = b
    <3>1. a \in Fixed
      BY <1>1, <1>4, <2>3, ConstantFrames, FormIs
    <3>2. PICK r : r = <<k>> \o b
      OBVIOUS
    <3>3. r \in Seq(Fixed) /\ r # <<>> /\ Head(r) = k /\ Tail(r) = b
      BY <1>4, <2>2, <3>2, OnTop
    <3>4. s = <<a>> \o r
      BY <1>4, <2>2, <2>10, <3>1, <3>2, TwoOnTop
    <3>5. s # <<>> /\ Head(s) = a /\ Tail(s) = r
      BY <3>3, <3>4, HeadIs
    <3> QED
      BY <3>3, <3>5
  <2>12. BareKey_agrees(s, tok)
    BY <2>4, <2>9, <2>11 DEF BareKey_agrees
  <2> QED
    BY <2>5, <2>10, <2>12, Landing DEF Base_agrees
<1> QED
  BY <1>6, <1>7, <1>8

LEMMA KeyLands ==
    ASSUME ReadInv, Agrees(stack, tok), KeyStep
    PROVE  Lands
<1>1. In("key")
  BY DEF KeyStep, Ended, Loop
<1>2. /\ stack # <<>> /\ f.fn = "key" /\ Key_agrees(stack, tok)
      /\ scenario.letters \in SUBSET Char /\ Sound(Char, tok)
  <2>1. stack # <<>> /\ f.fn = "key"
    BY <1>1 DEF In
  <2> QED
    BY <2>1, Knows, ScenarioLetters DEF f, ReadInv
<1>3. CASE Fail(tok)
  BY <1>3, Landing
<1>4. CASE tok.has_token /\ Segment("=")
  <2>1. End(f) = "="
    BY <1>2, FormIs
  <2> QED
    BY <1>1, <1>4, <2>1, SegmentLands
<1>5. CASE tok.token = "=" /\ ~f.expecting /\ Next1(Below)
  <2>1. PICK u \in Reads(tok) : Go(u, Below)
    BY <1>5 DEF Next1
  <2>2. Consumed(tok, u)
    BY <1>2, <1>5, <2>1, LetterConsumed DEF NUL
  <2>3. PICK g, b, c, e : g = f /\ b = Below /\ c = Conf(tok) /\ e = Conf(u)
    OBVIOUS
  <2>4. Leads(g, b, c.nest) /\ Goes(g, c) /\ g.fn = "key"
    BY <1>2, <1>5, <2>3 DEF Key_agrees, f, Below
  <2>5. e = Move(c, "=", TRUE)
    BY <1>5, <2>2, <2>3 DEF Consumed
  <2>6. (c.phase = "bare" \/ c.phase = "dot") /\ c.form = "key"
    BY <2>4, FormIs DEF Goes
  <2>7. e = Config("value", "key", c.nest)
    BY <2>5, <2>6, MoveBare
  <2>8. e.phase = "value" /\ e.form = "key" /\ e.nest = c.nest
    BY <2>7 DEF Config
  <2>9. PICK a : b = <<Value(EndOf(c.nest))>> \o a /\ Encloses(a, c.nest)
    BY <2>4 DEF Leads
  <2>10. PICK v : v = Value(EndOf(c.nest))
    OBVIOUS
  <2>11. a \in Seq(Fixed) /\ b = <<v>> \o a
    BY <2>9, <2>10, EnclosesTyped
  <2>12. b # <<>> /\ Head(b) = v /\ Tail(b) = a
    BY <2>11, HeadIs
  <2>13. v.fn = "value" /\ v.num_end = EndOf(e.nest)
    BY <2>8, <2>10 DEF Value
  <2>14. Ready(e)
    BY <2>8 DEF Ready
  <2>15. Value_agrees(b, u)
    BY <2>3, <2>8, <2>9, <2>12, <2>13, <2>14 DEF Value_agrees
  <2> QED
    BY <2>1, <2>3, <2>15, Landing DEF Base_agrees
<1> QED
  BY <1>3, <1>4, <1>5 DEF KeyStep, Loop

\* A header is complete.
LEMMA HeaderOver ==
    ASSUME NEW t, t.token = "]", NEW u, Consumed(t, u), NEW d,
           Conf(u) = Config("after", d, <<>>)
    PROVE  Top_agrees(<<>>, u)
<1>1. PICK e : e = Conf(u)
  OBVIOUS
<1>2. e.phase = "after" /\ e.nest = <<>>
  BY <1>1 DEF Config
<1>3. Quiet(u) /\ Settled(u) = e
  BY <1>1, <1>2, NotNumber
<1>4. Used(u)
  BY UsedOnward DEF Blank, NUL
<1> QED
  BY <1>2, <1>3, <1>4 DEF Top_agrees

LEMMA TableLands ==
    ASSUME ReadInv, Agrees(stack, tok), TableStep
    PROVE  Lands
<1>1. In("table")
  BY DEF TableStep, Ended, Loop
<1>2. /\ stack # <<>> /\ f.fn = "table" /\ Key_agrees(stack, tok)
      /\ scenario.letters \in SUBSET Char /\ Sound(Char, tok)
  <2>1. stack # <<>> /\ f.fn = "table"
    BY <1>1 DEF In
  <2> QED
    BY <2>1, Knows, ScenarioLetters DEF f, ReadInv
<1>3. CASE Fail(tok)
  BY <1>3, Landing
<1>4. CASE tok.has_token /\ Segment("]")
  <2>1. End(f) = "]"
    BY <1>2, FormIs
  <2> QED
    BY <1>1, <1>4, <2>1, SegmentLands
<1>5. PICK g, c : g = f /\ c = Conf(tok)
  OBVIOUS
<1>6. ~g.expecting => /\ Goes(g, c) /\ Below = <<>> /\ c.nest = <<>> /\ g.fn = "table"
                      /\ (c.phase = "bare" \/ c.phase = "dot")
  <2>1. Leads(g, Below, c.nest) /\ (~g.expecting => Goes(g, c)) /\ g.fn = "table"
    BY <1>2, <1>5 DEF Key_agrees, f, Below
  <2> QED
    BY <2>1 DEF Leads, Goes
<1>7. ASSUME tok.token = "]", ~f.expecting, ~f.double, NEW u \in Reads(tok), Go(u, Below)
      PROVE  Lands
  <2>1. Consumed(tok, u)
    BY <1>2, <1>7, LetterConsumed DEF NUL
  <2>2. ~g.double /\ ~g.expecting
    BY <1>5, <1>7
  <2>3. c.form = "table"
    BY <1>6, <2>2, FormIs DEF Goes
  <2>4. Move(c, "]", TRUE) = Config("after", "table", c.nest)
    BY <1>6, <2>2, <2>3, MoveBare
  <2>5. Conf(u) = Config("after", "table", <<>>)
    BY <1>5, <1>6, <1>7, <2>1, <2>2, <2>4 DEF Consumed
  <2>6. Top_agrees(<<>>, u)
    BY <1>7, <2>1, <2>5, HeaderOver
  <2> QED
    BY <1>6, <1>7, <2>2, <2>6, Landing DEF Base_agrees
<1>8. ASSUME tok.token = "]", ~f.expecting, f.double, NEW t \in Reads(tok), t.token = "]",
             NEW u \in Reads(t), Go(u, Below)
      PROVE  Lands
  <2>1. Consumed(tok, t)
    BY <1>2, <1>8, LetterConsumed DEF NUL
  <2>2. Sound(Char, t)
    BY <2>1 DEF Consumed
  <2>3. Consumed(t, u)
    BY <1>2, <1>8, <2>2, LetterConsumed DEF NUL
  <2>4. g.double /\ ~g.expecting
    BY <1>5, <1>8
  <2>5. c.form = "arraytable"
    BY <1>6, <2>4, FormIs DEF Goes
  <2>6. Move(c, "]", TRUE) = Config("close", "arraytable", c.nest)
    BY <1>6, <2>4, <2>5, MoveBare
  <2>7. PICK e : e = Conf(t)
    OBVIOUS
  <2>8. e = Config("close", "arraytable", <<>>)
    BY <1>5, <1>6, <1>8, <2>1, <2>4, <2>6, <2>7 DEF Consumed
  <2>9. e.phase = "close" /\ e.form = "arraytable" /\ e.nest = <<>>
    BY <2>8 DEF Config
  <2>10. Conf(u) = Config("after", "arraytable", <<>>)
    BY <1>8, <2>3, <2>7, <2>9, MoveClose DEF Consumed
  <2>11. Top_agrees(<<>>, u)
    BY <1>8, <2>3, <2>10, HeaderOver
  <2> QED
    BY <1>6, <1>8, <2>4, <2>11, Landing DEF Base_agrees
<1>9. ASSUME NEW t, Fail(t) PROVE Lands
  BY <1>9, Landing
<1> QED
  BY <1>3, <1>4, <1>7, <1>8, <1>9 DEF TableStep, Loop, Next1, Return

LEMMA BareKeyAgain ==
    ASSUME NEW g \in Fixed, g.fn = "barekey"
    PROVE  /\ \A k : k = [g EXCEPT !.done = TRUE] =>
                 /\ k \in Fixed /\ k.fn = "barekey" /\ k.done = TRUE
                 /\ k.idx = g.idx /\ k.end = g.end
           /\ \A k : k = [g EXCEPT !.idx = @ + 1] =>
                 /\ k.fn = "barekey" /\ k.done = g.done /\ k.idx # 0 /\ k.end = g.end
           /\ g.end \in {"=", "]"}
<1>1. g \in [fn : {"barekey"}, end : {"=", "]"}, idx : 0 .. MaxIdLength, done : BOOLEAN]
  BY DEF Fixed, Whitespace, Comment
<1>2. \A k : k = [g EXCEPT !.done = TRUE] =>
                 k.done = TRUE /\ k.idx = g.idx /\ k.end = g.end /\ k.fn = g.fn
  BY <1>1
<1>3. g.idx \in Nat
  BY <1>1, MaxIdAssumption
<1>4. \A k : k = [g EXCEPT !.idx = @ + 1] =>
                 k.done = g.done /\ k.idx = g.idx + 1 /\ k.end = g.end /\ k.fn = g.fn
  BY <1>1
<1>5. g.idx + 1 # 0
  BY <1>3
<1> QED
  BY <1>1, <1>2, <1>4, <1>5, BareKeyFrame

LEMMA BareKeyLands ==
    ASSUME ReadInv, Agrees(stack, tok), BareKeyStep
    PROVE  Lands
<1>1. In("barekey")
  BY DEF BareKeyStep, Ended, Loop
<1>2. /\ stack # <<>> /\ f.fn = "barekey" /\ f \in Fixed /\ Below \in Seq(Fixed)
      /\ BareKey_agrees(stack, tok)
  <2>1. stack # <<>> /\ f.fn = "barekey" /\ f \in Fixed /\ Below \in Seq(Fixed)
    BY <1>1, Running
  <2> QED
    BY <2>1, Knows DEF f
<1>3. scenario.letters \in SUBSET Char /\ Sound(Char, tok)
  BY ScenarioLetters DEF ReadInv
<1>4. PICK k, r, g, b, c : /\ k = f /\ r = Below /\ g = Head(r) /\ b = Tail(r)
                           /\ c = Conf(tok)
  OBVIOUS
<1>5. k \in Fixed /\ k.fn = "barekey" /\ r \in Seq(Fixed) /\ r # <<>>
      /\ Segment_agrees(k, g, b, tok)
  BY <1>2, <1>4 DEF BareKey_agrees, f, Below
<1>6. /\ g.fn \in {"key", "table"} /\ ~g.expecting /\ k.end = End(g) /\ Leads(g, b, c.nest)
      /\ k.idx = 0 => ~k.done /\ Begins(g, c) /\ tok.token \notin Blank
      /\ k.idx # 0 => Goes(g, c) /\ (k.done \/ c.phase = "bare")
  BY <1>4, <1>5 DEF Segment_agrees
<1>7. CASE Fail(tok)
  BY <1>7, Landing
<1>8. CASE tok.token \in {".", k.end} /\ k.idx # 0 /\ Go(tok, r)
  <2>1. Key_agrees(r, tok)
    BY <1>4, <1>5, <1>6, <1>8 DEF Key_agrees
  <2> QED
    BY <1>8, <2>1, Landing DEF Base_agrees
\* A segment with other locals.
<1>9. ASSUME NEW h, h.fn = "barekey", NEW t, Segment_agrees(h, g, b, t)
      PROVE  Base_agrees(<<h>> \o r, t)
  <2>1. PICK s : s = <<h>> \o r
    OBVIOUS
  <2>2. s # <<>> /\ Head(s) = h /\ Tail(s) = r
    BY <1>5, <2>1, HeadIs
  <2>3. BareKey_agrees(s, t)
    BY <1>4, <1>5, <1>9, <2>2 DEF BareKey_agrees
  <2> QED
    BY <2>1, <2>3 DEF Base_agrees
<1>10. CASE tok.token \in Blank /\ Go(tok, <<Whitespace, [k EXCEPT !.done = TRUE]>> \o r)
  <2>1. PICK h \in Fixed : /\ h = [k EXCEPT !.done = TRUE] /\ h.fn = "barekey" /\ h.done = TRUE
                           /\ h.idx = k.idx /\ h.end = k.end
    BY <1>5, BareKeyAgain
  <2>2. k.idx # 0
    BY <1>6, <1>10
  <2>3. Segment_agrees(h, g, b, tok)
    BY <1>4, <1>6, <2>1, <2>2 DEF Segment_agrees
  <2>4. PICK s : s = <<h>> \o r
    OBVIOUS
  <2>5. s \in Seq(Fixed) /\ s # <<>> /\ Head(s) = h
    BY <1>5, <2>1, <2>4, OnTop
  <2>6. Base_agrees(s, tok) /\ Steady(s)
    BY <1>9, <2>1, <2>3, <2>4, <2>5 DEF Steady
  <2>7. Good(<<Whitespace>> \o s, tok)
    BY <2>5, <2>6, BlankOn
  <2>8. <<Whitespace, h>> \o r = <<Whitespace>> \o s
    <3>1. PICK w \in Fixed : w = Whitespace
      BY ConstantFrames
    <3>2. h \in Fixed /\ r \in Seq(Fixed)
      BY <1>5, <2>1
    <3>3. <<w, h>> \o r = <<w>> \o (<<h>> \o r)
      BY <3>2, TwoOnTop, Zenon
    <3> QED
      BY <2>4, <3>1, <3>3
  <2> QED
    BY <1>10, <2>1, <2>7, <2>8, Landing
<1>11. CASE tok.token \in Bare /\ ~k.done /\ Next1(<<[k EXCEPT !.idx = @ + 1]>> \o r)
  <2>1. PICK h : h = [k EXCEPT !.idx = @ + 1]
    OBVIOUS
  <2>2. h.fn = "barekey" /\ h.done = k.done /\ h.idx # 0 /\ h.end = k.end
    BY <1>5, <2>1, BareKeyAgain
  <2>3. PICK u \in Reads(tok) : Go(u, <<h>> \o r)
    BY <1>11, <2>1 DEF Next1
  <2>4. Consumed(tok, u)
    BY <1>3, <1>11, <2>3, LetterConsumed DEF Bare, NUL
  <2>5. PICK e : e = Conf(u)
    OBVIOUS
  <2>6. e = Move(c, tok.token, TRUE)
    BY <1>4, <2>4, <2>5 DEF Consumed
  <2>7. e.phase = "bare" /\ e.form = Form(g) /\ e.nest = c.nest
    <3>1. CASE k.idx = 0
      <4>1. \A ch \in Bare : Move(c, ch, TRUE) = Config("bare", Form(g), c.nest)
        BY <1>6, <3>1, BeginsMoves
      <4>2. e = Config("bare", Form(g), c.nest)
        BY <1>11, <2>6, <4>1
      <4> QED
        BY <4>2 DEF Config
    <3>2. CASE k.idx # 0
      <4>1. c.phase = "bare" /\ c.form = Form(g)
        BY <1>6, <1>11, <3>2 DEF Goes
      <4>2. e = c
        BY <1>11, <2>6, <4>1, MoveBare
      <4> QED
        BY <4>1, <4>2
    <3> QED
      BY <3>1, <3>2
  <2>8. Goes(g, e)
    BY <2>7 DEF Goes
  <2>9. Segment_agrees(h, g, b, u)
    BY <1>6, <2>2, <2>5, <2>7, <2>8 DEF Segment_agrees
  <2> QED
    BY <1>9, <2>2, <2>3, <2>9, Landing
<1>12. \/ Fail(tok)
       \/ tok.token \in {".", k.end} /\ k.idx # 0 /\ Go(tok, r)
       \/ tok.token \in Blank /\ Go(tok, <<Whitespace, [k EXCEPT !.done = TRUE]>> \o r)
       \/ tok.token \in Bare /\ ~k.done /\ Next1(<<[k EXCEPT !.idx = @ + 1]>> \o r)
  BY <1>4 DEF BareKeyStep, Return, is_whitespace, is_bare_ascii, Blank
<1> QED
  BY <1>7, <1>8, <1>10, <1>11, <1>12

\* A value that is an array or inline table begins.
LEMMA ListBegins ==
    ASSUME NEW c, Ready(c), NEW b, Encloses(b, c.nest), NEW kind \in {"array", "inline"},
           NEW u, Conf(u) = Enter(c, kind), NEW g, g.fn = kind, g.sep = TRUE,
           kind = "array" => g.len = 0, kind = "inline" => g.first = TRUE
    PROVE  Base_agrees(<<g>> \o b, u)
<1>1. PICK l : l = Level(kind)
  OBVIOUS
<1>2. l \in Levels /\ l.kind = kind /\ l.sep = TRUE /\ l.size = 0
  BY <1>1 DEF Level, Levels
<1>3. PICK e, m : e = Conf(u) /\ m = c.nest
  OBVIOUS
<1>4. b \in Seq(Fixed) /\ m \in Seq(Levels)
  BY <1>3, EnclosesTyped
<1>5. e.phase = "in" /\ e.form = "key" /\ e.nest = Append(m, l)
  BY <1>1, <1>3 DEF Enter, Config
<1>6. Inside(e, kind, m, l)
  BY <1>2, <1>4, <1>5 DEF Inside
<1>7. Quiet(u) /\ Settled(u) = e
  BY <1>3, <1>5, NotNumber
<1>8. PICK s : s = <<g>> \o b
  OBVIOUS
<1>9. s # <<>> /\ Head(s) = g /\ Tail(s) = b
  BY <1>4, <1>8, HeadIs
<1>10. CASE kind = "array"
  <2>1. g.sep = l.sep /\ g.len = l.size /\ g.fn = "array"
    BY <1>2, <1>10
  <2>2. Around_array(s, e)
    BY <1>3, <1>6, <1>9, <1>10, <2>1 DEF Around_array
  <2>3. Array_agrees(s, u)
    BY <1>3, <1>5, <1>7, <2>2 DEF Array_agrees
  <2> QED
    BY <1>8, <2>3 DEF Base_agrees
<1>11. CASE kind = "inline"
  <2>1. g.sep = l.sep /\ (g.first <=> l.size = 0) /\ g.fn = "inline"
    BY <1>2, <1>11
  <2>2. Inline_agrees(s, u)
    BY <1>3, <1>5, <1>6, <1>7, <1>9, <1>11, <2>1 DEF Inline_agrees
  <2> QED
    BY <1>8, <2>2 DEF Base_agrees
<1> QED
  BY <1>10, <1>11

LEMMA ValueLands ==
    ASSUME ReadInv, Agrees(stack, tok), ValueStep
    PROVE  Lands
<1>1. In("value")
  BY DEF ValueStep, Ended, Loop
<1>2. /\ stack \in Seq(Fixed) /\ stack # <<>> /\ f.fn = "value" /\ Below \in Seq(Fixed)
      /\ Value_agrees(stack, tok) /\ tok.cursor >= 3
  <2>1. stack \in Seq(Fixed) /\ stack # <<>> /\ f.fn = "value" /\ Below \in Seq(Fixed)
    BY <1>1, Running
  <2> QED
    BY <1>1, <2>1, Knows, FarOnward DEF f
<1>3. scenario.letters \in SUBSET Char /\ Sound(Char, tok)
  BY ScenarioLetters DEF ReadInv
<1>4. PICK v, b, c : v = f /\ b = Below /\ c = Conf(tok)
  OBVIOUS
<1>5. Ready(c) /\ v.num_end = EndOf(c.nest) /\ Encloses(b, c.nest) /\ b \in Seq(Fixed)
  BY <1>2, <1>4 DEF Value_agrees, f, Below
<1>6. ASSUME NEW t, Fail(t) PROVE Lands
  BY <1>6, Landing
<1>7. CASE is_whitespace(tok.token) /\ Go(tok, <<Whitespace>> \o stack)
  <2>1. Steady(stack) /\ Base_agrees(stack, tok)
    BY <1>2 DEF Steady, Base_agrees, f
  <2>2. Good(<<Whitespace>> \o stack, tok)
    BY <1>2, <2>1, BlankOn
  <2> QED
    BY <1>7, <2>2, Landing
<1>8. CASE tok.token = "1" /\ Go(tok, <<Lookahead(v.num_end, tok.cursor)>> \o b)
  <2>1. PICK g : g = Lookahead(v.num_end, tok.cursor)
    OBVIOUS
  <2>2. g.fn = "lookahead" /\ g.num_end = v.num_end /\ g.from = tok.cursor
    BY <2>1 DEF Lookahead
  <2>3. PICK s : s = <<g>> \o b
    OBVIOUS
  <2>4. s # <<>> /\ Head(s) = g /\ Tail(s) = b
    BY <1>5, <2>3, HeadIs
  <2>5. g.from \in 3 .. Len(tok.stream)
    BY <1>2, <1>3, <2>2, StreamTyped
  <2>6. tok.stream[g.from] = "1"
    BY <1>2, <1>3, <1>8, <2>2, StreamTyped DEF Sound, Letter, NUL
  <2>7. c = ConfAt(tok.stream, g.from - 1)
    BY <1>4, <2>2 DEF Conf
  <2>8. Lookahead_agrees(s, tok)
    BY <1>5, <2>2, <2>4, <2>5, <2>6, <2>7 DEF Lookahead_agrees
  <2> QED
    BY <1>8, <2>1, <2>3, <2>8, Landing DEF Base_agrees
<1>9. ASSUME NEW ch \in {"[", "{"}, tok.token = ch, NEW u \in Reads(tok)
      PROVE  Conf(u) = Move(c, ch, TRUE)
  <2>1. Consumed(tok, u)
    BY <1>3, <1>9, LetterConsumed DEF NUL
  <2> QED
    BY <1>4, <1>9, <2>1 DEF Consumed
<1>10. ASSUME tok.token = "[", NEW u \in Reads(tok), Go(u, <<Array(TRUE, 0)>> \o b)
       PROVE  Lands
  <2>1. Conf(u) = Enter(c, "array")
    BY <1>5, <1>9, <1>10, ReadyMoves
  <2>2. PICK g : g = Array(TRUE, 0)
    OBVIOUS
  <2>3. g.fn = "array" /\ g.sep = TRUE /\ g.len = 0
    BY <2>2 DEF Array
  <2>4. Base_agrees(<<g>> \o b, u)
    BY <1>5, <2>1, <2>3, ListBegins
  <2> QED
    BY <1>10, <2>2, <2>4, Landing
<1>11. ASSUME tok.token = "{", NEW u \in Reads(tok), Go(u, <<Inline(TRUE, TRUE)>> \o b)
       PROVE  Lands
  <2>1. Conf(u) = Enter(c, "inline")
    BY <1>5, <1>9, <1>11, ReadyMoves
  <2>2. PICK g : g = Inline(TRUE, TRUE)
    OBVIOUS
  <2>3. g.fn = "inline" /\ g.sep = TRUE /\ g.first = TRUE
    BY <2>2 DEF Inline
  <2>4. Base_agrees(<<g>> \o b, u)
    BY <1>5, <2>1, <2>3, ListBegins
  <2> QED
    BY <1>11, <2>2, <2>4, Landing
<1>12. ASSUME NEW n \in NotNewline(tok), LostAt(n.stream), NEW t, NEW s, Go(t, s),
              t = n \/ t \in Reads(n)
       PROVE  Lands
  <2>1. Sound(Char, n)
    BY <1>3, NewlinesSound
  <2>2. LostAt(t.stream)
    BY <1>3, <1>12, <2>1, ReadsSound, LostKept DEF Reads
  <2> QED
    BY <1>12, <2>2, Landing DEF Good
<1>13. ASSUME NEW n \in NotNewline(tok),
              CASE is_whitespace(n.token) -> Go(n, <<Whitespace>> \o stack)
                [] is_digit(n.token) -> Go(n, <<Lookahead(f.num_end, n.cursor)>> \o Below)
                [] n.token = "[" -> \E t \in Reads(n) : Go(t, <<Array(TRUE, 0)>> \o Below)
                [] n.token = "{" -> \E t \in Reads(n) : Go(t, <<Inline(TRUE, TRUE)>> \o Below)
                [] OTHER -> Fail(n)
       PROVE  Lands
  <2>1. \/ is_whitespace(n.token) /\ Go(n, <<Whitespace>> \o stack)
        \/ n.token = "1" /\ Go(n, <<Lookahead(v.num_end, n.cursor)>> \o b)
        \/ n.token = "[" /\ \E t \in Reads(n) : Go(t, <<Array(TRUE, 0)>> \o b)
        \/ n.token = "{" /\ \E t \in Reads(n) : Go(t, <<Inline(TRUE, TRUE)>> \o b)
        \/ Fail(n)
    BY <1>4, <1>13 DEF is_whitespace, is_digit
  <2>2. CASE n = tok
    BY <1>6, <1>7, <1>8, <1>10, <1>11, <2>1, <2>2
  <2>3. CASE n.token = "\r"
    BY <1>6, <2>1, <2>3 DEF is_whitespace
  <2>4. CASE LostAt(n.stream)
    BY <1>6, <1>12, <2>1, <2>4
  <2> QED
    BY <1>3, <2>2, <2>3, <2>4, NotNewlineIs DEF Alone
<1> QED
  BY <1>6, <1>13 DEF ValueStep

LEMMA LookaheadLands ==
    ASSUME ReadInv, Agrees(stack, tok), LookaheadStep
    PROVE  Lands
<1>1. stack # <<>> /\ f.fn = "lookahead" /\ Lookahead_agrees(stack, tok)
  BY Knows DEF LookaheadStep, In, f
<1>2. scenario.letters \in SUBSET Char /\ Sound(Char, tok)
  BY ScenarioLetters DEF ReadInv
<1>3. PICK g, b, p : g = f /\ b = Below /\ p = g.from
  OBVIOUS
<1>4. PICK c : /\ p \in 3 .. Len(tok.stream) /\ tok.stream[p] = "1"
               /\ c = ConfAt(tok.stream, p - 1) /\ Ready(c)
               /\ g.num_end = EndOf(c.nest) /\ Encloses(b, c.nest) /\ g.fn = "lookahead"
  BY <1>1, <1>3 DEF Lookahead_agrees, f, Below
<1>5. b \in Seq(Fixed) /\ Len(tok.stream) \in Nat
  BY <1>2, <1>4, EnclosesTyped, StreamTyped
<1>6. ReadInv' /\ KeepsText(tok, tok') /\ (EnoughSeen => tok'.cursor = p)
  BY <1>3, LookaheadReturns
<1>7. CASE EnoughSeen
  <2>1. PICK t : t = tok'
    OBVIOUS
  <2>2. PICK h : h = Number(g.num_end)
    OBVIOUS
  <2>3. Go(t, <<h>> \o b)
    BY <1>3, <1>7, <2>1, <2>2 DEF LookaheadStep, Go
  <2>4. Sound(Char, t) /\ KeepsText(tok, t) /\ t.cursor = p
    BY <1>6, <1>7, <2>1 DEF ReadInv
  <2>5. p \in 1 .. Len(tok.stream) /\ p - 1 \in Nat /\ p - 1 <= Len(tok.stream) /\ p > 0
    BY <1>4, <1>5
  <2>6. Conf(t) = c
    BY <1>2, <1>4, <2>4, <2>5, ConfKept DEF Conf
  <2>7. t.stream[p] = "1"
    BY <1>4, <2>4, <2>5 DEF KeepsText
  <2>8. t.token = "1"
    BY <2>4, <2>5, <2>7 DEF Sound, Letter, EOF
  <2>9. h.fn = "number" /\ h.num_end = g.num_end /\ h.as = "int"
    BY <2>2 DEF Number
  <2>10. PICK s : s = <<h>> \o b
    OBVIOUS
  <2>11. s # <<>> /\ Head(s) = h /\ Tail(s) = b
    BY <1>5, <2>10, HeadIs
  <2>12. c.form = "key"
    BY <1>4 DEF Ready
  <2>13. Number_agrees(s, t)
    BY <1>4, <2>6, <2>8, <2>9, <2>11, <2>12 DEF Number_agrees
  <2> QED
    BY <2>3, <2>10, <2>13, Landing DEF Base_agrees
<1>8. CASE ~EnoughSeen
  <2>1. PICK h : h = [g EXCEPT !.count = @ + 1]
    OBVIOUS
  <2>2. PICK t \in Reads(tok) : Go(t, <<h>> \o b)
    BY <1>3, <1>8, <2>1 DEF LookaheadStep, Next1
  <2>3. Sound(Char, t) /\ KeepsText(tok, t)
    BY <1>2, <2>2, ReadsSound DEF Reads
  <2>4. p \in 1 .. Len(tok.stream) /\ p - 1 \in Nat /\ p - 1 <= Len(tok.stream)
        /\ p \in 3 .. Len(t.stream)
    <3>1. Len(t.stream) \in Nat /\ Len(tok.stream) <= Len(t.stream)
      BY <2>3, StreamTyped DEF KeepsText
    <3> QED
      BY <1>4, <1>5, <3>1
  <2>5. ConfAt(t.stream, p - 1) = c
    BY <1>2, <1>4, <2>3, <2>4, ConfKept
  <2>6. t.stream[p] = "1"
    BY <1>4, <2>3, <2>4 DEF KeepsText
  <2>7. h.fn = "lookahead" /\ h.num_end = g.num_end /\ h.from = p
    BY <1>3, <1>4, <2>1
  <2>8. PICK s : s = <<h>> \o b
    OBVIOUS
  <2>9. s # <<>> /\ Head(s) = h /\ Tail(s) = b
    BY <1>5, <2>8, HeadIs
  <2>10. Lookahead_agrees(s, t)
    BY <1>4, <2>4, <2>5, <2>6, <2>7, <2>9 DEF Lookahead_agrees
  <2> QED
    BY <2>2, <2>8, <2>10, Landing DEF Base_agrees
<1> QED
  BY <1>7, <1>8

LEMMA NumberAgain ==
    ASSUME NEW g \in Fixed, g.fn = "number", NEW as, NEW k, k = [g EXCEPT !.as = as]
    PROVE  k.fn = "number" /\ k.num_end = g.num_end /\ k.as = as
<1>1. g \in [fn : {"number"}, num_end : NumEnds, as : {"int", "frac", "garbage"}]
  BY DEF Fixed, Whitespace, Comment
<1> QED
  BY <1>1

LEMMA NumberLands ==
    ASSUME ReadInv, Agrees(stack, tok), NumberStep
    PROVE  Lands
<1>1. In("number")
  BY DEF NumberStep, Loop
<1>2. /\ stack # <<>> /\ f.fn = "number" /\ f \in Fixed /\ Below \in Seq(Fixed)
      /\ Number_agrees(stack, tok)
  <2>1. stack # <<>> /\ f.fn = "number" /\ f \in Fixed /\ Below \in Seq(Fixed)
    BY <1>1, Running
  <2> QED
    BY <2>1, Knows DEF f
<1>3. scenario.letters \in SUBSET Char /\ Sound(Char, tok)
  BY ScenarioLetters DEF ReadInv
<1>4. PICK g, b, c : g = f /\ b = Below /\ c = Conf(tok)
  OBVIOUS
<1>5. /\ g \in Fixed /\ g.fn = "number" /\ b \in Seq(Fixed)
      /\ g.as # "garbage" =>
            /\ c.form = "key" /\ g.num_end = EndOf(c.nest) /\ Encloses(b, c.nest)
            /\ \/ g.as = "int" /\ Ready(c) /\ tok.token = "1"
               \/ g.as = c.phase /\ Used(tok)
  BY <1>2, <1>4 DEF Number_agrees, f, Below
<1>6. g.as \in {"int", "frac", "garbage"}
  BY <1>5, NumberFrame
<1>7. ASSUME NEW t, Fail(t) PROVE Lands
  BY <1>7, Landing
\* The number goes on.
<1>8. ASSUME NEW h, h.fn = "number", h.num_end = g.num_end, NEW t,
             \/ h.as = "garbage"
             \/ /\ g.as # "garbage" /\ Conf(t).form = "key" /\ Conf(t).nest = c.nest
                /\ h.as = Conf(t).phase /\ Used(t)
      PROVE  Base_agrees(<<h>> \o b, t)
  <2>1. PICK s : s = <<h>> \o b
    OBVIOUS
  <2>2. s # <<>> /\ Head(s) = h /\ Tail(s) = b
    BY <1>5, <2>1, HeadIs
  <2>3. CASE h.as = "garbage"
    <3>1. Number_agrees(s, t)
      BY <1>8, <2>2, <2>3 DEF Number_agrees
    <3> QED
      BY <2>1, <3>1 DEF Base_agrees
  <2>4. CASE h.as # "garbage"
    <3>1. Number_agrees(s, t)
      BY <1>5, <1>8, <2>2, <2>4 DEF Number_agrees
    <3> QED
      BY <2>1, <3>1 DEF Base_agrees
  <2> QED
    BY <2>3, <2>4
<1>9. EndOf(c.nest) \subseteq Enders /\ "1" \notin EndOf(c.nest)
  BY DEF EndOf, Enders, TopEnd, ArrayEnd, InlineEnd
<1>10. CASE (~tok.has_token \/ tok.token \in g.num_end) /\ g.as # "garbage" /\ Go(tok, b)
  <2>1. tok.token # "1"
    BY <1>3, <1>5, <1>9, <1>10, SoundToken DEF NUL
  <2>2. (c.phase = "int" \/ c.phase = "frac") /\ Used(tok)
    BY <1>5, <1>6, <1>10, <2>1
  <2>3. Quiet(tok) /\ Settled(tok) = ValueEnd(c)
    BY <1>4, <1>5, <1>9, <1>10, <2>2 DEF Quiet, Settled, Finished
  <2>4. ValueEnd(c) = ValueEnd(Config("in", "key", c.nest))
    <3>1. PICK e : e = Config("in", "key", c.nest)
      OBVIOUS
    <3>2. e.form = c.form /\ e.nest = c.nest
      BY <1>5, <1>10, <3>1 DEF Config
    <3> QED
      BY <3>1, <3>2 DEF ValueEnd, To, SetTop, Top
  <2>5. Agrees(b, tok)
    BY <1>5, <1>10, <2>2, <2>3, <2>4, ValueOver
  <2> QED
    BY <1>10, <2>5, Landing DEF Good
<1>11. ASSUME tok.has_token, tok.token = ".", NEW t \in Reads(tok), t.token = "1",
              NEW u \in Reads(t),
              Go(u, <<[g EXCEPT !.as = IF @ = "int" THEN "frac" ELSE "garbage"]>> \o b)
       PROVE  Lands
  <2>1. PICK as : as = IF g.as = "int" THEN "frac" ELSE "garbage"
    OBVIOUS
  <2>2. PICK h : h = [g EXCEPT !.as = as]
    OBVIOUS
  <2>3. h.fn = "number" /\ h.num_end = g.num_end /\ h.as = as
    BY <1>5, <2>2, NumberAgain
  <2>4. Go(u, <<h>> \o b)
    BY <1>11, <2>1, <2>2
  <2>5. CASE g.as # "int"
    BY <1>8, <2>1, <2>3, <2>4, <2>5, Landing
  <2>6. CASE g.as = "int"
    <3>1. c.phase = "int" /\ c.form = "key"
      BY <1>5, <1>11, <2>6
    <3>2. Consumed(tok, t)
      BY <1>3, <1>11, LetterConsumed DEF NUL
    <3>3. Sound(Char, t)
      BY <3>2 DEF Consumed
    <3>4. Consumed(t, u)
      BY <1>3, <1>11, <3>3, LetterConsumed DEF NUL
    <3>5. PICK d, e : d = Conf(t) /\ e = Conf(u)
      OBVIOUS
    <3>6. d = Config("point", c.form, c.nest)
      BY <1>4, <1>11, <3>1, <3>2, <3>5, MoveNumber DEF Consumed
    <3>7. d.phase = "point" /\ d.form = c.form /\ d.nest = c.nest
      BY <3>6 DEF Config
    <3>8. e = Config("frac", d.form, d.nest)
      BY <1>11, <3>4, <3>5, <3>7, MoveNumber DEF Consumed
    <3>9. e.phase = "frac" /\ e.form = "key" /\ e.nest = c.nest
      BY <3>1, <3>7, <3>8 DEF Config
    <3>10. Used(u)
      BY <1>11, <3>4, UsedOnward DEF Blank, NUL
    <3>11. h.as = "frac"
      BY <2>1, <2>3, <2>6
    <3>12. Base_agrees(<<h>> \o b, u)
      BY <1>8, <2>3, <2>6, <3>5, <3>9, <3>10, <3>11
    <3> QED
      BY <2>4, <3>12, Landing
  <2> QED
    BY <2>5, <2>6
<1>12. ASSUME tok.has_token, NEW u \in Reads(tok),
              Go(u, <<[g EXCEPT !.as = IF is_digit(tok.token) THEN @ ELSE "garbage"]>> \o b)
       PROVE  Lands
  <2>1. PICK as : as = IF is_digit(tok.token) THEN g.as ELSE "garbage"
    OBVIOUS
  <2>2. PICK h : h = [g EXCEPT !.as = as]
    OBVIOUS
  <2>3. h.fn = "number" /\ h.num_end = g.num_end /\ h.as = as
    BY <1>5, <2>2, NumberAgain
  <2>4. Go(u, <<h>> \o b)
    BY <1>12, <2>1, <2>2
  <2>5. CASE as = "garbage"
    BY <1>8, <2>3, <2>4, <2>5, Landing
  <2>6. CASE as # "garbage"
    <3>1. tok.token = "1" /\ as = g.as /\ g.as # "garbage"
      BY <2>1, <2>6 DEF is_digit
    <3>2. Consumed(tok, u)
      BY <1>3, <1>12, <3>1, LetterConsumed DEF NUL
    <3>3. PICK e : e = Conf(u)
      OBVIOUS
    <3>4. e = Move(c, "1", TRUE)
      BY <1>4, <3>1, <3>2, <3>3 DEF Consumed
    <3>5. e.phase = as /\ e.form = "key" /\ e.nest = c.nest
      <4>1. CASE g.as = "int" /\ Ready(c)
        <5>1. e = Config("int", "key", c.nest)
          BY <3>4, <4>1, ReadyMoves
        <5> QED
          BY <3>1, <4>1, <5>1 DEF Config
      <4>2. CASE g.as = c.phase
        <5>1. e = c
          BY <1>6, <3>1, <3>4, <4>2, MoveNumber
        <5> QED
          BY <1>5, <3>1, <4>2, <5>1
      <4> QED
        BY <1>5, <3>1, <4>1, <4>2
    <3>6. Used(u)
      BY <3>1, <3>2, UsedOnward DEF Blank, NUL
    <3>7. Base_agrees(<<h>> \o b, u)
      BY <1>8, <2>3, <3>1, <3>3, <3>5, <3>6
    <3> QED
      BY <2>4, <3>7, Landing
  <2> QED
    BY <2>5, <2>6
<1>13. CASE ~tok.has_token \/ tok.token \in f.num_end
  <2>1. IF f.as = "garbage" THEN Fail(tok) ELSE Return(tok)
    BY <1>13 DEF NumberStep, Loop
  <2> QED
    BY <1>4, <1>7, <1>10, <1>13, <2>1 DEF Return
<1>14. CASE tok.has_token /\ tok.token \notin f.num_end
  <2>1. CASE tok.token = "."
    <3>1. PICK t \in Reads(tok) :
             IF is_digit(t.token) /\ is_digit(t.prev_prev)
             THEN \E u \in Reads(t) :
                     Go(u, <<[f EXCEPT !.as = IF @ = "int" THEN "frac" ELSE "garbage"]>>
                             \o Below)
             ELSE Fail(t)
      BY <1>14, <2>1 DEF NumberStep, Loop
    <3>2. CASE is_digit(t.token) /\ is_digit(t.prev_prev)
      <4>1. PICK u \in Reads(t) :
               Go(u, <<[f EXCEPT !.as = IF @ = "int" THEN "frac" ELSE "garbage"]>> \o Below)
        BY <3>1, <3>2
      <4> QED
        BY <1>4, <1>11, <1>14, <2>1, <3>2, <4>1 DEF is_digit
    <3> QED
      BY <1>7, <3>1, <3>2
  <2>2. CASE tok.token # "."
    <3>1. Next1(<<[f EXCEPT !.as = IF is_digit(tok.token) THEN @ ELSE "garbage"]>> \o Below)
      BY <1>14, <2>2 DEF NumberStep, Loop
    <3>2. PICK u \in Reads(tok) :
             Go(u, <<[f EXCEPT !.as = IF is_digit(tok.token) THEN @ ELSE "garbage"]>> \o Below)
      BY <3>1 DEF Next1
    <3> QED
      BY <1>4, <1>12, <1>14, <3>2
  <2> QED
    BY <2>1, <2>2
<1> QED
  BY <1>13, <1>14

\* Of an array or an inline table only sep changes.
LEMMA ListAgain ==
    ASSUME NEW g \in Fixed, g.fn \in {"array", "inline"}, NEW k, k = [g EXCEPT !.sep = TRUE]
    PROVE  /\ k.fn = g.fn /\ k.sep = TRUE
           /\ g.fn = "array" => k.len = g.len
           /\ g.fn = "inline" => k.first = g.first
<1>1. CASE g.fn = "array"
  <2>1. g \in [fn : {"array"}, sep : BOOLEAN, len : 0 .. MaxArray]
    BY <1>1 DEF Fixed, Whitespace, Comment
  <2> QED
    BY <1>1, <2>1
<1>2. CASE g.fn = "inline"
  <2>1. g \in [fn : {"inline"}, sep : BOOLEAN, first : BOOLEAN]
    BY <1>2 DEF Fixed, Whitespace, Comment
  <2> QED
    BY <1>2, <2>1
<1> QED
  BY <1>1, <1>2

LEMMA CommaLevel ==
    ASSUME NEW l \in Levels, NEW k, k = [l EXCEPT !.sep = TRUE]
    PROVE  k \in Levels /\ k.kind = l.kind /\ k.sep = TRUE /\ k.size = l.size
<1>1. l.kind \in {"array", "inline"} /\ l.size \in Nat
  BY DEF Levels
<1>2. k = [kind |-> l.kind, sep |-> TRUE, size |-> l.size]
  BY DEF Levels
<1> QED
  BY <1>1, <1>2 DEF Levels

\* A bracket or brace closes what a value stands in, which is a value itself.
LEMMA ListCloses ==
    ASSUME NEW t, NEW u, Consumed(t, u), t.token \in {"]", "}"}, NEW b, NEW m, Encloses(b, m),
           Conf(u) = ValueEnd(Config("in", "key", m))
    PROVE  Agrees(b, u)
<1>1. PICK e : e = Conf(u)
  OBVIOUS
<1>2. e.phase \in {"after", "in"}
  <2>1. PICK c : c = Config("in", "key", m)
    OBVIOUS
  <2>2. e = ValueEnd(c)
    BY <1>1, <2>1
  <2> QED
    BY <2>2 DEF ValueEnd, To, SetTop, Config
<1>3. Quiet(u) /\ Settled(u) = e
  BY <1>1, <1>2, NotNumber
<1>4. Used(u)
  BY UsedOnward DEF Blank, NUL
<1> QED
  BY <1>1, <1>3, <1>4, ValueOver

\* A line end in an array.
LEMMA ArrayLine ==
    ASSUME NEW s, NEW c, Around_array(s, c), NEW u, Conf(u) = LineEnd(c)
    PROVE  Array_agrees(s, u)
<1>1. PICK m, l : /\ Inside(c, "array", m, l) /\ Encloses(Tail(s), m)
                  /\ Head(s).sep = l.sep /\ Head(s).len = l.size
  BY DEF Around_array
<1>2. PICK e : e = Conf(u)
  OBVIOUS
<1>3. c.nest # <<>> /\ c.form = "key"
  BY <1>1, Grows DEF Inside
<1>4. e.phase = "in" /\ e.form = "key" /\ e.nest = c.nest
  BY <1>2, <1>3 DEF LineEnd, To, Config
<1>5. Quiet(u) /\ Settled(u) = e
  BY <1>2, <1>4, NotNumber
<1>6. Inside(e, "array", m, l)
  BY <1>1, <1>4 DEF Inside
<1>7. Around_array(s, e)
  BY <1>1, <1>6 DEF Around_array
<1> QED
  BY <1>2, <1>4, <1>5, <1>7 DEF Array_agrees

LEMMA ArrayLands ==
    ASSUME ReadInv, Agrees(stack, tok), ArrayStep
    PROVE  Lands
<1>1. In("array")
  BY DEF ArrayStep, Ended, Loop
<1>2. /\ stack \in Seq(Fixed) /\ stack # <<>> /\ f.fn = "array" /\ f \in Fixed
      /\ Below \in Seq(Fixed) /\ Array_agrees(stack, tok)
  <2>1. stack \in Seq(Fixed) /\ stack # <<>> /\ f.fn = "array" /\ f \in Fixed
        /\ Below \in Seq(Fixed)
    BY <1>1, Running
  <2> QED
    BY <2>1, Knows DEF f
<1>3. scenario.letters \in SUBSET Char /\ Sound(Char, tok)
  BY ScenarioLetters DEF ReadInv
<1>4. PICK g, b, d : g = f /\ b = Below /\ d = Settled(tok)
  OBVIOUS
<1>5. /\ Quiet(tok) /\ d.phase = "in" /\ Around_array(stack, d) /\ g \in Fixed
      /\ g.fn = "array" /\ b \in Seq(Fixed) /\ (g.sep => Conf(tok).phase = "in")
  BY <1>2, <1>4 DEF Array_agrees, f, Below
<1>6. PICK m, l : /\ Inside(d, "array", m, l) /\ Encloses(b, m)
                  /\ g.sep = l.sep /\ g.len = l.size
  BY <1>4, <1>5 DEF Around_array, f, Below
<1>7. /\ m \in Seq(Levels) /\ l \in Levels /\ d.nest = Append(m, l) /\ l.kind = "array"
      /\ d.form = "key"
  BY <1>6 DEF Inside
<1>8. /\ ~l.sep => Move(d, ",", TRUE) = Config("in", "key", Append(m, [l EXCEPT !.sep = TRUE]))
      /\ Move(d, "]", TRUE) = ValueEnd(Config("in", "key", m))
      /\ Move(d, "\n", TRUE) = LineEnd(d)
      /\ Move(d, "\r", TRUE) = Config("cr", d.form, d.nest)
  BY <1>5, <1>7, MoveIn
<1>9. ASSUME NEW t, Fail(t) PROVE Lands
  BY <1>9, Landing
<1>10. ASSUME tok.token = "]", tok.has_token, NEW u \in Reads(tok), Go(u, b)
       PROVE  Lands
  <2>1. Consumed(tok, u)
    BY <1>3, <1>10, LetterConsumed DEF NUL
  <2>2. Conf(u) = ValueEnd(Config("in", "key", m))
    BY <1>4, <1>5, <1>8, <1>10, <2>1, QuietConsumed
  <2>3. Agrees(b, u)
    BY <1>6, <1>10, <2>1, <2>2, ListCloses
  <2> QED
    BY <1>10, <2>3, Landing DEF Good
<1>11. ASSUME tok.token = ",", tok.has_token, ~g.sep, NEW u \in Reads(tok),
              Go(u, <<[g EXCEPT !.sep = TRUE]>> \o b)
       PROVE  Lands
  <2>1. Consumed(tok, u)
    BY <1>3, <1>11, LetterConsumed DEF NUL
  <2>2. PICK k : k = [l EXCEPT !.sep = TRUE]
    OBVIOUS
  <2>3. k \in Levels /\ k.kind = "array" /\ k.sep = TRUE /\ k.size = l.size
    BY <1>7, <2>2, CommaLevel
  <2>4. PICK e : e = Conf(u)
    OBVIOUS
  <2>5. e = Config("in", "key", Append(m, k))
    BY <1>4, <1>5, <1>6, <1>8, <1>11, <2>1, <2>2, <2>4, QuietConsumed
  <2>6. e.phase = "in" /\ Inside(e, "array", m, k)
    BY <1>7, <2>3, <2>5 DEF Config, Inside
  <2>7. PICK h : h = [g EXCEPT !.sep = TRUE]
    OBVIOUS
  <2>8. h.fn = "array" /\ h.sep = TRUE /\ h.len = g.len
    BY <1>5, <2>7, ListAgain
  <2>9. PICK s : s = <<h>> \o b
    OBVIOUS
  <2>10. s # <<>> /\ Head(s) = h /\ Tail(s) = b
    BY <1>5, <2>9, HeadIs
  <2>11. Around_array(s, e)
    BY <1>6, <2>3, <2>6, <2>8, <2>10 DEF Around_array
  <2>12. Quiet(u) /\ Settled(u) = e
    BY <2>4, <2>6, NotNumber
  <2>13. Array_agrees(s, u)
    BY <2>4, <2>6, <2>11, <2>12 DEF Array_agrees
  <2> QED
    BY <1>11, <2>7, <2>9, <2>13, Landing DEF Base_agrees
<1>12. ASSUME NEW n \in AtNewline(tok), NEW u \in Reads(n), Go(u, stack)
       PROVE  Lands
  <2>1. Conf(u) = LineEnd(d)
    BY <1>3, <1>4, <1>5, <1>8, <1>12, LineRead
  <2>2. Array_agrees(stack, u)
    BY <1>5, <2>1, ArrayLine
  <2> QED
    BY <1>12, <2>2, Landing DEF Base_agrees
<1>13. CASE Go(tok, <<Whitespace>> \o stack)
  <2>1. Steady(stack) /\ Base_agrees(stack, tok)
    BY <1>2 DEF Steady, Base_agrees, f
  <2>2. Good(<<Whitespace>> \o stack, tok)
    BY <1>2, <2>1, BlankOn
  <2> QED
    BY <1>13, <2>2, Landing
<1>14. CASE tok.token = "#" /\ Go(tok, <<Comment>> \o stack)
  <2>1. PICK s : s = <<Comment>> \o stack
    OBVIOUS
  <2>2. s # <<>> /\ Head(s) = Comment /\ Tail(s) = stack
    BY <1>2, <2>1, HeadIs
  <2>3. Array_agrees(Tail(s), tok)
    BY <1>2, <2>2, Zenon
  <2>5. Head(s).fn = "comment"
    BY <2>2 DEF Comment
  <2>4. Comment_agrees(s, tok)
    BY <1>14, <2>2, <2>3, <2>5, Zenon DEF Comment_agrees
  <2> QED
    BY <1>14, <2>1, <2>4, Landing DEF Base_agrees
\* A value comes.
<1>15. ASSUME g.sep, g.len < MaxArray, NEW t,
              Go(t, <<Value(ArrayEnd), Array(FALSE, g.len + 1)>> \o b),
              t = tok \/ Alone(t)
       PROVE  Lands
  <2>1. PICK v, k : v = Value(ArrayEnd) /\ k = Array(FALSE, g.len + 1)
    OBVIOUS
  <2>2. v \in Fixed /\ v.fn = "value" /\ v.num_end = ArrayEnd
    BY <2>1, ConstantFrames, NumEndsOf DEF Value
  <2>3. k \in Fixed
    BY <1>5, <1>15, <2>1, ListFrame, ConstantFrames
  <2>4. PICK r : r = <<k>> \o b
    OBVIOUS
  <2>5. r \in Seq(Fixed)
    BY <1>5, <2>3, <2>4, OnTop
  <2>6. PICK s : s = <<v, k>> \o b
    OBVIOUS
  <2>7. s = <<v>> \o r
    BY <1>5, <2>2, <2>3, <2>4, <2>6, TwoOnTop
  <2>8. s # <<>> /\ Head(s) = v /\ Tail(s) = r
    BY <2>5, <2>7, HeadIs
  <2>9. CASE Alone(t)
    <3>1. Good(s, t)
      BY <2>2, <2>8, <2>9 DEF Good, Doomed
    <3> QED
      BY <1>15, <2>1, <2>6, <3>1, Landing
  <2>10. CASE t = tok
    <3>1. PICK c : c = Conf(tok)
      OBVIOUS
    <3>2. c = d /\ l.sep
      BY <1>4, <1>5, <1>6, <1>15, <3>1, NotNumber
    <3>3. Ready(c)
      BY <1>5, <1>6, <1>7, <3>2 DEF Ready
    <3>4. Frame(l) = <<k>>
      BY <1>6, <1>7, <2>1 DEF Frame
    <3>5. Frame(l) \in Seq(Fixed)
      BY <2>3, <3>4
    <3>6. Encloses(r, c.nest)
      BY <1>6, <1>7, <2>4, <3>2, <3>4, <3>5, EnclosesMore
    <3>7. EndOf(c.nest) = ArrayEnd
      <4>1. PICK nest : nest = c.nest
        OBVIOUS
      <4>2. nest # <<>> /\ nest[Len(nest)] = l
        BY <1>7, <3>2, <4>1, Grows
      <4> QED
        BY <1>7, <4>1, <4>2 DEF EndOf
    <3>8. Value_agrees(s, tok)
      BY <2>2, <2>8, <3>1, <3>3, <3>6, <3>7 DEF Value_agrees
    <3> QED
      BY <1>15, <2>1, <2>6, <2>10, <3>8, Landing DEF Base_agrees
  <2> QED
    BY <1>15, <2>9, <2>10
<1>16. ASSUME g.len < MaxArray, NEW n \in NotNewline(tok),
              CASE is_whitespace(n.token) -> Go(n, <<Whitespace>> \o stack)
                [] n.token = "#"          -> Go(n, <<Comment>> \o stack)
                [] OTHER -> IF ~f.sep THEN Fail(n)
                            ELSE Go(n, <<Value(ArrayEnd), Array(FALSE, f.len + 1)>> \o Below)
       PROVE  Lands
  <2>1. \/ is_whitespace(n.token) /\ Go(n, <<Whitespace>> \o stack)
        \/ n.token = "#" /\ Go(n, <<Comment>> \o stack)
        \/ Fail(n)
        \/ g.sep /\ Go(n, <<Value(ArrayEnd), Array(FALSE, g.len + 1)>> \o b)
    BY <1>4, <1>16 DEF is_whitespace
  <2>2. CASE n = tok
    BY <1>9, <1>13, <1>14, <1>15, <1>16, <2>1, <2>2
  <2>3. CASE Alone(n)
    <3>1. n.token = "\r"
      BY <2>3 DEF Alone
    <3> QED
      BY <1>9, <1>15, <1>16, <2>1, <2>3, <3>1 DEF is_whitespace
  <2>4. CASE LostAt(n.stream)
    <3>1. \A s : Go(n, s) => Lands
      BY <2>4, Landing DEF Good
    <3> QED
      BY <1>9, <2>1, <3>1
  <2> QED
    BY <1>3, <1>16, <2>2, <2>3, <2>4, NotNewlineIs
<1>17. CASE Ended("array") /\ Fail(tok)
  BY <1>9, <1>17
<1>18. CASE tok.has_token /\ tok.token = "]" /\ Next1(Below)
  BY <1>4, <1>10, <1>18 DEF Next1
<1>19. CASE /\ tok.has_token /\ tok.token = "," /\ ~f.sep
             /\ Next1(<<[f EXCEPT !.sep = TRUE]>> \o Below)
  BY <1>4, <1>11, <1>19 DEF Next1
<1> QED
  BY <1>4, <1>9, <1>12, <1>16, <1>17, <1>18, <1>19 DEF ArrayStep, Loop

\* What parse_inlinetable calls for a pair.
LEMMA PairOnTop ==
    ASSUME NEW s \in Seq(Fixed)
    PROVE  \E r, q : /\ r = (<<Whitespace>> \o <<Inline(FALSE, FALSE)>>) \o s
                     /\ q = <<Value(InlineEnd)>> \o r
                     /\ <<Key(TRUE), Value(InlineEnd), Whitespace, Inline(FALSE, FALSE)>> \o s =
                        <<Key(TRUE)>> \o q
                     /\ r \in Seq(Fixed) /\ q \in Seq(Fixed)
<1>1. PICK g, h, i, j : /\ g = Key(TRUE) /\ h = Value(InlineEnd) /\ i = Whitespace
                        /\ j = Inline(FALSE, FALSE)
  OBVIOUS
<1>2. g \in Fixed /\ h \in Fixed /\ i \in Fixed /\ j \in Fixed
  BY <1>1, ConstantFrames, NumEndsOf
<1>3. PICK p, u : p = <<i, j>> /\ u = <<g, h>>
  OBVIOUS
<1>4. p \in Seq(Fixed) /\ u \in Seq(Fixed)
  BY <1>2, <1>3, Few
<1>5. <<g, h, i, j>> = u \o p
  <2>1. PICK v : v = u \o p
    OBVIOUS
  <2>2. v \in Seq(Fixed) /\ Len(v) = 4 /\ v[1] = g /\ v[2] = h /\ v[3] = i /\ v[4] = j
    BY <1>3, <1>4, <2>1
  <2>3. v = <<g, h, i, j>>
    BY <2>2
  <2> QED
    BY <2>1, <2>3
<1>6. PICK r \in Seq(Fixed) : r = p \o s
  BY <1>4, Pushed
<1>7. (u \o p) \o s = u \o (p \o s)
  BY <1>4, ConcatAssociative
<1>8. u \o r = <<g>> \o (<<h>> \o r)
  BY <1>2, <1>3, <1>6, TwoOnTop
<1>9. (<<i>> \o <<j>>) \o s = r
  <2>1. /\ (<<i>> \o <<j>>) \o s = <<i>> \o (<<j>> \o s)
        /\ <<i, j>> \o s = <<i>> \o (<<j>> \o s)
    BY <1>2, TwoOnTop
  <2> QED
    BY <1>3, <1>6, <2>1
<1>10. PICK q \in Seq(Fixed) : q = <<h>> \o r
  BY <1>2, <1>6, OnTop
<1>11. <<g, h, i, j>> \o s = <<g>> \o q
  BY <1>5, <1>6, <1>7, <1>8, <1>10
<1> QED
  BY <1>1, <1>9, <1>10, <1>11

LEMMA InlineLands ==
    ASSUME ReadInv, Agrees(stack, tok), InlineStep
    PROVE  Lands
<1>1. In("inline")
  BY DEF InlineStep, Ended, Loop
<1>2. /\ stack \in Seq(Fixed) /\ stack # <<>> /\ f.fn = "inline" /\ f \in Fixed
      /\ Below \in Seq(Fixed) /\ Inline_agrees(stack, tok)
  <2>1. stack \in Seq(Fixed) /\ stack # <<>> /\ f.fn = "inline" /\ f \in Fixed
        /\ Below \in Seq(Fixed)
    BY <1>1, Running
  <2> QED
    BY <2>1, Knows DEF f
<1>3. scenario.letters \in SUBSET Char /\ Sound(Char, tok)
  BY ScenarioLetters DEF ReadInv
<1>4. PICK g, b, d : g = f /\ b = Below /\ d = Settled(tok)
  OBVIOUS
<1>5. /\ Quiet(tok) /\ d.phase = "in" /\ g \in Fixed
      /\ g.fn = "inline" /\ b \in Seq(Fixed) /\ (g.sep => Conf(tok).phase = "in")
  BY <1>2, <1>4 DEF Inline_agrees, f, Below
<1>6. PICK m, l : /\ Inside(d, "inline", m, l) /\ Encloses(b, m)
                  /\ g.sep = l.sep /\ (g.first <=> l.size = 0)
  BY <1>2, <1>4 DEF Inline_agrees, f, Below
<1>7. /\ m \in Seq(Levels) /\ l \in Levels /\ d.nest = Append(m, l) /\ l.kind = "inline"
      /\ d.form = "key"
  BY <1>6 DEF Inside
<1>8. /\ ~l.sep => Move(d, ",", TRUE) = Config("in", "key", Append(m, [l EXCEPT !.sep = TRUE]))
      /\ (l.sep => l.size = 0) => Move(d, "}", TRUE) = ValueEnd(Config("in", "key", m))
  BY <1>5, <1>7, MoveIn
<1>9. ASSUME NEW t, Fail(t) PROVE Lands
  BY <1>9, Landing
<1>10. ASSUME tok.token = "}", tok.has_token, ~(g.sep /\ ~g.first), NEW u \in Reads(tok),
              Go(u, b)
       PROVE  Lands
  <2>1. Consumed(tok, u)
    BY <1>3, <1>10, LetterConsumed DEF NUL
  <2>2. l.sep => l.size = 0
    BY <1>6, <1>10
  <2>3. Conf(u) = ValueEnd(Config("in", "key", m))
    BY <1>4, <1>5, <1>8, <1>10, <2>1, <2>2, QuietConsumed
  <2>4. Agrees(b, u)
    BY <1>6, <1>10, <2>1, <2>3, ListCloses
  <2> QED
    BY <1>10, <2>4, Landing DEF Good
<1>11. ASSUME tok.token = ",", tok.has_token, ~g.sep, NEW u \in Reads(tok),
              Go(u, <<[g EXCEPT !.sep = TRUE]>> \o b)
       PROVE  Lands
  <2>1. Consumed(tok, u)
    BY <1>3, <1>11, LetterConsumed DEF NUL
  <2>2. PICK k : k = [l EXCEPT !.sep = TRUE]
    OBVIOUS
  <2>3. k \in Levels /\ k.kind = "inline" /\ k.sep = TRUE /\ k.size = l.size
    BY <1>7, <2>2, CommaLevel
  <2>4. PICK e : e = Conf(u)
    OBVIOUS
  <2>5. e = Config("in", "key", Append(m, k))
    BY <1>4, <1>5, <1>6, <1>8, <1>11, <2>1, <2>2, <2>4, QuietConsumed
  <2>6. e.phase = "in" /\ Inside(e, "inline", m, k)
    BY <1>7, <2>3, <2>5 DEF Config, Inside
  <2>7. PICK h : h = [g EXCEPT !.sep = TRUE]
    OBVIOUS
  <2>8. h.fn = "inline" /\ h.sep = TRUE /\ h.first = g.first
    BY <1>5, <2>7, ListAgain
  <2>9. PICK s : s = <<h>> \o b
    OBVIOUS
  <2>10. s # <<>> /\ Head(s) = h /\ Tail(s) = b
    BY <1>5, <2>9, HeadIs
  <2>11. Quiet(u) /\ Settled(u) = e
    BY <2>4, <2>6, NotNumber
  <2>12. h.sep = k.sep /\ (h.first <=> k.size = 0)
    BY <1>6, <2>3, <2>8
  <2>13. Inline_agrees(s, u)
    BY <1>6, <2>4, <2>6, <2>8, <2>10, <2>11, <2>12 DEF Inline_agrees
  <2> QED
    BY <1>11, <2>7, <2>9, <2>13, Landing DEF Base_agrees
<1>12. CASE Go(tok, <<Whitespace>> \o stack)
  <2>1. Steady(stack) /\ Base_agrees(stack, tok)
    BY <1>2 DEF Steady, Base_agrees, f
  <2>2. Good(<<Whitespace>> \o stack, tok)
    BY <1>2, <2>1, BlankOn
  <2> QED
    BY <1>12, <2>2, Landing
\* A key comes.
<1>13. ASSUME g.sep, NEW t,
              Go(t, <<Key(TRUE), Value(InlineEnd), Whitespace, Inline(FALSE, FALSE)>> \o b),
              t = tok \/ Alone(t)
       PROVE  Lands
  <2>1. PICK k, v, w, i : /\ k = Key(TRUE) /\ v = Value(InlineEnd) /\ w = Whitespace
                          /\ i = Inline(FALSE, FALSE)
    OBVIOUS
  <2>2. /\ k \in Fixed /\ v \in Fixed /\ i \in Fixed /\ w \in Fixed
        /\ k.fn = "key" /\ k.expecting = TRUE
    BY <2>1, ConstantFrames, NumEndsOf
  <2>3. PICK a, r : /\ a = (<<w>> \o <<i>>) \o b /\ r = <<v>> \o a
                    /\ <<k, v, w, i>> \o b = <<k>> \o r
                    /\ a \in Seq(Fixed) /\ r \in Seq(Fixed)
    BY <1>5, <2>1, PairOnTop
  <2>4. PICK s : s = <<k, v, w, i>> \o b
    OBVIOUS
  <2>5. s = <<k>> \o r
    BY <2>3, <2>4
  <2>7. s # <<>> /\ Head(s) = k /\ Tail(s) = r
    BY <2>3, <2>5, HeadIs
  <2>8. Go(t, s)
    BY <1>13, <2>1, <2>4
  <2>9. CASE Alone(t)
    <3>1. Good(s, t)
      BY <2>2, <2>7, <2>9 DEF Good, Doomed
    <3> QED
      BY <2>8, <3>1, Landing
  <2>10. CASE t = tok
    <3>1. PICK c : c = Conf(tok)
      OBVIOUS
    <3>2. c = d /\ l.sep
      BY <1>4, <1>5, <1>6, <1>13, <3>1, NotNumber
    <3>3. Begins(k, c)
      BY <1>5, <1>6, <2>2, <3>2 DEF Begins
    <3>4. Frame(l) = <<w>> \o <<i>>
      BY <1>7, <2>1 DEF Frame
    <3>5. Frame(l) \in Seq(Fixed)
      <4>1. <<w>> \in Seq(Fixed) /\ <<i>> \in Seq(Fixed)
        BY <2>2, Few
      <4> QED
        BY <3>4, <4>1, Pushed
    <3>6. Encloses(a, c.nest)
      BY <1>6, <1>7, <2>3, <3>2, <3>4, <3>5, EnclosesMore
    <3>7. EndOf(c.nest) = InlineEnd
      <4>1. PICK nest : nest = c.nest
        OBVIOUS
      <4>2. nest # <<>> /\ nest[Len(nest)] = l
        BY <1>7, <3>2, <4>1, Grows
      <4> QED
        BY <1>7, <4>1, <4>2 DEF EndOf
    <3>8. Leads(k, r, c.nest)
      BY <2>1, <2>2, <2>3, <3>6, <3>7 DEF Leads
    <3>9. Key_agrees(s, tok)
      BY <2>2, <2>7, <3>1, <3>3, <3>8 DEF Key_agrees
    <3> QED
      BY <2>8, <2>10, <3>9, Landing DEF Base_agrees
  <2> QED
    BY <1>13, <2>9, <2>10
<1>14. ASSUME NEW n \in NotNewline(tok),
              CASE is_whitespace(n.token) -> Go(n, <<Whitespace>> \o stack)
                [] OTHER -> IF ~f.sep THEN Fail(n)
                            ELSE Go(n, <<Key(TRUE), Value(InlineEnd), Whitespace,
                                         Inline(FALSE, FALSE)>> \o Below)
       PROVE  Lands
  <2>1. \/ is_whitespace(n.token) /\ Go(n, <<Whitespace>> \o stack)
        \/ Fail(n)
        \/ /\ g.sep
           /\ Go(n, <<Key(TRUE), Value(InlineEnd), Whitespace, Inline(FALSE, FALSE)>> \o b)
    BY <1>4, <1>14
  <2>2. CASE n = tok
    BY <1>9, <1>12, <1>13, <2>1, <2>2
  <2>3. CASE Alone(n)
    <3>1. n.token = "\r"
      BY <2>3 DEF Alone
    <3> QED
      BY <1>9, <1>13, <2>1, <2>3, <3>1 DEF is_whitespace
  <2>4. CASE LostAt(n.stream)
    <3>1. \A s : Go(n, s) => Lands
      BY <2>4, Landing DEF Good
    <3> QED
      BY <1>9, <2>1, <3>1
  <2> QED
    BY <1>3, <1>14, <2>2, <2>3, <2>4, NotNewlineIs
<1>15. CASE Ended("inline") /\ Fail(tok)
  BY <1>9, <1>15
<1>16. CASE tok.has_token /\ tok.token = "}" /\ ~(f.sep /\ ~f.first) /\ Next1(Below)
  BY <1>4, <1>10, <1>16 DEF Next1
<1>17. CASE /\ tok.has_token /\ tok.token = "," /\ ~f.sep
             /\ Next1(<<[f EXCEPT !.sep = TRUE]>> \o Below)
  BY <1>4, <1>11, <1>17 DEF Next1
<1> QED
  BY <1>9, <1>14, <1>15, <1>16, <1>17 DEF InlineStep, Loop

\* In a comment the rest of the line is one.
LEMMA InComment ==
    ASSUME ReadInv, stack # <<>>, Comment_agrees(stack, tok), tok.has_token,
           NEW r \in ReadsFrom(tok, CommentLetters)
    PROVE  /\ Conf(r).phase = "comment"
           /\ (Below = <<>> /\ Conf(r).nest = <<>>) \/ Around_array(Below, Conf(r))
<1>1. scenario.letters \in SUBSET Char /\ Sound(Char, tok) /\ CommentLetters \in SUBSET Char
  BY ScenarioLetters DEF ReadInv
<1>2. Consumed(tok, r)
  <2>1. tok.cursor >= 1
    BY Here
  <2> QED
    BY <1>1, <2>1, ReadsConsume
<1>3. PICK c, b : c = Conf(r) /\ b = Below
  OBVIOUS
<1>4. c.phase = "comment" /\ ((b = <<>> /\ c.nest = <<>>) \/ Around_array(b, c))
  <2>1. CASE tok.token = "#" /\ Top_agrees(b, tok)
    <3>1. PICK d : d = Settled(tok)
      OBVIOUS
    <3>2. Quiet(tok) /\ b = <<>> /\ d.nest = <<>> /\ (d.phase = "start" \/ d.phase = "after")
      BY <2>1, <3>1 DEF Top_agrees
    <3>3. Move(d, "#", TRUE) = Config("comment", d.form, d.nest)
      BY <3>2, MoveStart, MoveAfter
    <3>4. c = Config("comment", d.form, d.nest)
      BY <1>2, <1>3, <2>1, <3>1, <3>2, <3>3, QuietConsumed
    <3> QED
      BY <3>2, <3>4 DEF Config
  <2>2. CASE tok.token = "#" /\ Array_agrees(b, tok)
    <3>1. PICK d : d = Settled(tok)
      OBVIOUS
    <3>2. Quiet(tok) /\ Around_array(b, d) /\ d.phase = "in"
      BY <2>2, <3>1 DEF Array_agrees
    <3>3. PICK m, l : /\ Inside(d, "array", m, l) /\ Encloses(Tail(b), m)
                      /\ Head(b).sep = l.sep /\ Head(b).len = l.size
      BY <3>2 DEF Around_array
    <3>4. Move(d, "#", TRUE) = Config("comment", "key", d.nest)
      BY <3>2, <3>3, MoveIn DEF Inside
    <3>5. c = Config("comment", "key", d.nest)
      BY <1>2, <1>3, <2>2, <3>1, <3>2, <3>4, QuietConsumed
    <3>6. c.phase = "comment" /\ c.form = "key" /\ c.nest = d.nest
      BY <3>5 DEF Config
    <3>7. Inside(c, "array", m, l)
      BY <3>3, <3>6 DEF Inside
    <3>8. Around_array(b, c)
      BY <3>2, <3>3, <3>7 DEF Around_array
    <3> QED
      BY <3>6, <3>8
  <2>3. ASSUME Conf(tok).phase = "comment", ~is_control(tok.token),
               (b = <<>> /\ Conf(tok).nest = <<>>) \/ Around_array(b, Conf(tok))
        PROVE  c.phase = "comment" /\ ((b = <<>> /\ c.nest = <<>>) \/ Around_array(b, c))
    <3>1. PICK d : d = Conf(tok)
      OBVIOUS
    <3>2. tok.token \in Char \ {"\n", "\r", "x"}
      BY <1>1, <2>3, SoundToken DEF is_control
    <3>3. Move(d, tok.token, TRUE) = d
      BY <2>3, <3>1, <3>2, MoveLineEnd
    <3>4. c = d
      BY <1>2, <1>3, <3>1, <3>3 DEF Consumed
    <3> QED
      BY <2>3, <3>1, <3>4
  <2> QED
    BY <1>3, <2>1, <2>2, <2>3 DEF Comment_agrees, Below
<1> QED
  BY <1>3, <1>4

LEMMA CommentLands ==
    ASSUME ReadInv, Agrees(stack, tok), CommentStep
    PROVE  Lands
<1>1. In("comment") /\ tok.has_token
  BY DEF CommentStep, Loop
<1>2. /\ stack # <<>> /\ f.fn = "comment" /\ Comment_agrees(stack, tok)
  <2>1. stack # <<>> /\ f.fn = "comment"
    BY <1>1 DEF In
  <2> QED
    BY <2>1, Knows DEF f
<1>3. scenario.letters \in SUBSET Char /\ Sound(Char, tok) /\ CommentLetters \in SUBSET Char
  BY ScenarioLetters DEF ReadInv
<1>4. PICK r \in ReadsFrom(tok, CommentLetters) :
          \/ \E n \in AtNewline(r) : \E t \in Reads(n) : Return(t)
          \/ \E n \in NotNewline(r) : IF is_control(n.token) THEN Fail(n) ELSE Go(n, stack)
  BY DEF CommentStep
<1>5. Consumed(tok, r)
  <2>1. tok.cursor >= 1
    BY Here
  <2> QED
    BY <1>1, <1>3, <1>4, <2>1, ReadsConsume
<1>6. PICK c, b : c = Conf(r) /\ b = Below
  OBVIOUS
\* The rest of the line is a comment.
<1>7. c.phase = "comment" /\ ((b = <<>> /\ c.nest = <<>>) \/ Around_array(b, c))
  BY <1>1, <1>2, <1>4, <1>6, InComment
<1>8. Sound(Char, r) /\ Quiet(r) /\ Settled(r) = c
  BY <1>5, <1>6, <1>7, NotNumber DEF Consumed
<1>9. ASSUME NEW n \in AtNewline(r), NEW u \in Reads(n), Go(u, b)
      PROVE  Lands
  <2>1. Move(c, "\n", TRUE) = LineEnd(c) /\ Move(c, "\r", TRUE) = Config("cr", c.form, c.nest)
    BY <1>7, MoveLineEnd
  <2>2. Conf(u) = LineEnd(c)
    BY <1>3, <1>8, <1>9, <2>1, LineRead
  <2>3. CASE b = <<>> /\ c.nest = <<>>
    <3>1. PICK e : e = Conf(u)
      OBVIOUS
    <3>2. e.phase = "start" /\ e.nest = <<>>
      BY <2>2, <2>3, <3>1 DEF LineEnd, To, Config
    <3>3. Quiet(u) /\ Settled(u) = e
      BY <3>1, <3>2, NotNumber
    <3>4. Top_agrees(b, u)
      BY <2>3, <3>2, <3>3 DEF Top_agrees
    <3> QED
      BY <1>9, <3>4, Landing DEF Base_agrees
  <2>4. CASE Around_array(b, c)
    <3>1. Array_agrees(b, u)
      BY <2>2, <2>4, ArrayLine
    <3> QED
      BY <1>9, <3>1, Landing DEF Base_agrees
  <2> QED
    BY <1>7, <2>3, <2>4
<1>10. ASSUME NEW n \in NotNewline(r), ~is_control(n.token), Go(n, stack)
       PROVE  Lands
  <2>1. CASE n = r
    <3>1. Comment_agrees(stack, r)
      BY <1>2, <1>6, <1>7, <1>10, <2>1 DEF Comment_agrees, Below, f
    <3> QED
      BY <1>10, <2>1, <3>1, Landing DEF Base_agrees
  <2>2. CASE n.token = "\r"
    BY <1>10, <2>2 DEF is_control
  <2>3. CASE LostAt(n.stream)
    BY <1>10, <2>3, Landing DEF Good
  <2> QED
    BY <1>3, <1>8, <1>10, <2>1, <2>2, <2>3, NotNewlineIs DEF Alone
<1>11. ASSUME NEW t, Fail(t) PROVE Lands
  BY <1>11, Landing
<1> QED
  BY <1>4, <1>6, <1>9, <1>10, <1>11 DEF Return

\* A '\r' where a value or a key should start ends the run.
LEMMA DoomedLands ==
    ASSUME ReadInv, Doomed(stack, tok), ValueStep \/ KeyStep \/ BareKeyStep
    PROVE  Lands
<1>1. /\ stack # <<>> /\ tok.has_token /\ tok.token = "\r"
      /\ f.fn = "barekey" => f.idx = 0
  BY DEF Doomed, Alone, f
<1>2. scenario.letters \in SUBSET Char /\ Sound(Char, tok)
  BY ScenarioLetters DEF ReadInv
<1>3. ASSUME NEW t, Fail(t) PROVE Lands
  BY <1>3, Landing
<1>4. CASE ValueStep
  <2>1. ASSUME NEW n \in NotNewline(tok), LostAt(n.stream), NEW t, NEW s, Go(t, s),
               t = n \/ t \in Reads(n)
        PROVE  Lands
    <3>1. Sound(Char, n)
      BY <1>2, NewlinesSound
    <3>2. LostAt(t.stream)
      BY <1>2, <2>1, <3>1, ReadsSound, LostKept DEF Reads
    <3> QED
      BY <2>1, <3>2, Landing DEF Good
  <2>2. ASSUME NEW n \in NotNewline(tok),
               CASE is_whitespace(n.token) -> Go(n, <<Whitespace>> \o stack)
                 [] is_digit(n.token) -> Go(n, <<Lookahead(f.num_end, n.cursor)>> \o Below)
                 [] n.token = "[" -> \E t \in Reads(n) : Go(t, <<Array(TRUE, 0)>> \o Below)
                 [] n.token = "{" -> \E t \in Reads(n) : Go(t, <<Inline(TRUE, TRUE)>> \o Below)
                 [] OTHER -> Fail(n)
        PROVE  Lands
    <3>1. \/ ~(n.token = "\r") /\ Go(n, <<Whitespace>> \o stack)
          \/ ~(n.token = "\r") /\ Go(n, <<Lookahead(f.num_end, n.cursor)>> \o Below)
          \/ ~(n.token = "\r") /\ \E t \in Reads(n) : Go(t, <<Array(TRUE, 0)>> \o Below)
          \/ ~(n.token = "\r") /\ \E t \in Reads(n) : Go(t, <<Inline(TRUE, TRUE)>> \o Below)
          \/ Fail(n)
      BY <2>2 DEF is_whitespace, is_digit
    <3>2. n.token = "\r" \/ LostAt(n.stream)
      BY <1>1, <1>2, NotNewlineIs DEF Alone
    <3> QED
      BY <1>3, <2>1, <3>1, <3>2
  <2> QED
    BY <1>3, <1>4, <2>2 DEF ValueStep
<1>5. CASE KeyStep
  <2>1. Below \in Seq(Fixed)
    BY <1>5, Running DEF KeyStep, Ended, Loop
  <2>2. CASE Segment("=")
    <3>1. PICK a, k : a = BareKey("=") /\ k = [f EXCEPT !.expecting = FALSE]
      OBVIOUS
    <3>2. Go(tok, <<a, k>> \o Below)
      BY <1>1, <2>2, <3>1 DEF Segment, is_whitespace
    <3>3. a.fn = "barekey" /\ a.idx = 0
      BY <3>1 DEF BareKey
    <3>4. PICK s : s = <<a, k>> \o Below
      OBVIOUS
    <3>5. s # <<>> /\ Head(s) = a
      <4>1. PICK S : S = Fixed \cup {a, k}
        OBVIOUS
      <4>2. a \in S /\ k \in S /\ Fixed \subseteq S
        BY <4>1
      <4>3. Below \in Seq(S)
        BY <2>1, <4>2
      <4>4. s = <<a>> \o (<<k>> \o Below) /\ <<k>> \o Below \in Seq(S)
        BY <3>4, <4>2, <4>3, TwoOnTop, OnTop
      <4> QED
        BY <4>4, HeadIs
    <3>6. Good(s, tok)
      BY <1>1, <3>3, <3>5 DEF Good, Doomed
    <3> QED
      BY <3>2, <3>4, <3>6, Landing
  <2> QED
    BY <1>1, <1>3, <1>5, <2>2 DEF KeyStep
<1>6. CASE BareKeyStep
  <2>1. f.fn = "barekey" /\ f \in Fixed
    BY <1>6, Running DEF BareKeyStep, Ended, Loop
  <2>2. f \in [fn : {"barekey"}, end : {"=", "]"}, idx : 0 .. MaxIdLength, done : BOOLEAN]
    BY <2>1 DEF Fixed, Whitespace, Comment
  <2>3. f.end # "\r" /\ f.idx = 0
    BY <1>1, <2>1, <2>2
  <2>4. Fail(tok)
    BY <1>1, <1>6, <2>3 DEF BareKeyStep, is_whitespace, is_bare_ascii, Bare
  <2> QED
    BY <1>3, <2>4
<1> QED
  BY <1>4, <1>5, <1>6

\* toml_load returns 0 only where the text is over.
LEMMA OnlyFinishAccepts ==
    ASSUME Next, result = "running", result' = "ok"
    PROVE  Finish
<1>1. \A t, s : ~Go(t, s)
  BY DEF Go
<1>2. \A t : ~Fail(t)
  BY DEF Fail
<1>3. ~Statement
  BY <1>1, <1>2 DEF Statement
<1>4. ~Segment("=") /\ ~Segment("]") /\ \A s : ~Next1(s)
  BY <1>1, <1>2 DEF Segment, Next1
<1>5. \A t : ~Return(t)
  BY <1>1 DEF Return
<1>6. ~KeyStep /\ ~TableStep
  BY <1>2, <1>4, <1>5 DEF KeyStep, TableStep
<1>7. ~BareKeyStep
  BY <1>1, <1>2, <1>4, <1>5 DEF BareKeyStep
<1>8. ~ValueStep
  BY <1>1, <1>2 DEF ValueStep
<1>9. ~LookaheadStep /\ ~NumberStep
  BY <1>1, <1>2, <1>4, <1>5 DEF LookaheadStep, NumberStep
<1>10. ~ArrayStep
  BY <1>1, <1>2, <1>4 DEF ArrayStep
<1>11. ~InlineStep
  BY <1>1, <1>2, <1>4 DEF InlineStep
<1>12. ~WhitespaceStep /\ ~CommentStep
  BY <1>1, <1>2, <1>4, <1>5 DEF WhitespaceStep, CommentStep
<1>13. ~Stopped
  BY DEF Stopped
<1> QED
  BY <1>3, <1>6, <1>7, <1>8, <1>9, <1>10, <1>11, <1>12, <1>13 DEF Next

LEMMA StepLands ==
    ASSUME ReadInv, result = "running", Good(stack, tok), Next, ~LostAt(tok.stream)
    PROVE  Lands
<1>1. CASE Doomed(stack, tok)
  <2>1. stack # <<>> /\ f.fn \in {"value", "key", "barekey"}
    BY <1>1 DEF Doomed, f
  <2>2. /\ ~Statement /\ ~Finish /\ ~Stopped
        /\ \A fn : fn \notin {"value", "key", "barekey"} => ~In(fn)
    BY <2>1 DEF Statement, Finish, Load, Stopped, In
  <2>3. ValueStep \/ KeyStep \/ BareKeyStep
    BY <2>2 DEF Next, TableStep, LookaheadStep, NumberStep, ArrayStep, InlineStep,
                WhitespaceStep, CommentStep, Ended, Loop
  <2> QED
    BY <1>1, <2>3, DoomedLands
<1>2. CASE Agrees(stack, tok)
  <2>1. Finish \/ Stopped => Lands
    BY DEF Finish, Stopped, Lands
  <2> QED
    BY <1>2, <2>1, StatementLands, KeyLands, TableLands, BareKeyLands, ValueLands,
       LookaheadLands, NumberLands, ArrayLands, InlineLands, WhitespaceLands, CommentLands
       DEF Next
<1> QED
  BY <1>1, <1>2 DEF Good

-----------------------------------------------------------------------------
(* What has been accepted. *)

Accepted == /\ AllRead /\ ~tok.has_token
            /\ Complete(Run(Text, TRUE)) \/ LostReturn

LEMMA FinishAccepts ==
    ASSUME ReadInv, Good(stack, tok), Finish
    PROVE  Accepted
<1>1. Sound(Char, tok) /\ ~tok.has_token /\ stack = <<>>
  BY DEF ReadInv, Finish, Load
<1>2. PICK s, n : s = tok.stream /\ n = tok.cursor
  OBVIOUS
<1>3. s \in Seq(Char \cup {EOF}) /\ Len(s) \in Nat /\ n \in Nat /\ n <= Len(s)
  BY <1>1, <1>2, StreamTyped
<1>4. n > 0 /\ s[n] = EOF /\ \A i \in 1 .. Len(s) - 1 : s[i] # EOF
  BY <1>1, <1>2, <1>3 DEF Sound
<1>5. n = Len(s)
  BY <1>3, <1>4
<1>6. s # <<>> /\ Last(s) = EOF
  BY <1>3, <1>4, <1>5 DEF Last
<1>7. PICK text : text = SubSeq(s, 1, n - 1)
  OBVIOUS
<1>8. AllRead /\ Text = text
  BY <1>2, <1>5, <1>6, <1>7 DEF AllRead, Text, Front
<1>9. CASE LostAt(s)
  <2>1. PICK i \in {1, 2} : i < Len(s) /\ s[i] = "\r" /\ s[i + 1] # "\n"
    BY <1>9 DEF LostAt
  <2>2. Len(text) = n - 1 /\ \A j \in 1 .. n - 1 : text[j] = s[j]
    BY <1>3, <1>4, <1>7
  <2>3. i \in 1 .. n - 1
    BY <1>3, <1>5, <2>1
  <2>4. i <= Len(text) /\ text[i] = "\r"
    BY <1>3, <2>1, <2>2, <2>3
  <2>5. i + 1 <= Len(text) => text[i + 1] # "\n"
    <3>1. i + 1 <= n - 1 => i + 1 \in 1 .. n - 1
      BY <1>3, <2>1
    <3> QED
      BY <2>1, <2>2, <3>1
  <2>6. LostReturn
    BY <1>8, <2>4, <2>5, Zenon DEF LostReturn
  <2> QED
    BY <1>1, <1>8, <2>6 DEF Accepted
<1>10. CASE Agrees(stack, tok)
  <2>1. Top_agrees(stack, tok)
    BY <1>1, <1>10, Knows
  <2>2. PICK c, d : c = Conf(tok) /\ d = Settled(tok)
    OBVIOUS
  <2>3. d.nest = <<>> /\ d.phase \in {"start", "after"} /\ d = Finished(c)
    BY <2>1, <2>2 DEF Top_agrees, Settled
  <2>4. Complete(c)
    <3>1. CASE c.phase \in {"int", "frac"}
      <4>1. d = ValueEnd(c)
        BY <2>3, <3>1 DEF Finished
      <4>2. c.nest = <<>>
        BY <2>3, <4>1 DEF ValueEnd, SetTop, Config
      <4> QED
        BY <3>1, <4>2 DEF Complete
    <3>2. CASE c.phase \notin {"int", "frac"}
      BY <2>3, <3>2 DEF Finished, Complete
    <3> QED
      BY <3>1, <3>2
  <2>5. c = Run(text, TRUE)
    BY <1>2, <1>7, <2>2 DEF Conf, ConfAt
  <2> QED
    BY <1>1, <1>8, <2>4, <2>5 DEF Accepted
<1>11. ~Doomed(stack, tok)
  BY <1>1 DEF Doomed, Alone
<1> QED
  BY <1>2, <1>9, <1>10, <1>11 DEF Good

\* A step of the parser, or one in which the tree makes it give up.
LEMMA AgreeKept ==
    ASSUME AgreeInv, ReadInv', [Next]_vars \/ result' = "failed"
    PROVE  AgreeInv'
<1>1. ReadInv /\ (result = "running" => Good(stack, tok))
      /\ (result = "ok" => AcceptsOnlyDocuments)
  BY DEF AgreeInv, Good
<1>2. SUFFICES /\ result' = "running" => Good(stack', tok')
               /\ result' = "ok" => AcceptsOnlyDocuments'
  BY DEF AgreeInv, Good
<1>3. CASE UNCHANGED vars
  <2>1. stack' = stack /\ tok' = tok /\ result' = result
    BY <1>3 DEF vars
  <2>2. AcceptsOnlyDocuments' <=> AcceptsOnlyDocuments
    BY <2>1 DEF AcceptsOnlyDocuments, AllRead, Text, LostReturn
  <2> QED
    BY <1>1, <2>1, <2>2
<1>4. CASE result' = "failed"
  BY <1>4
<1>5. CASE Next /\ result # "running"
  <2>1. Stopped
    BY <1>5 DEF Next, Statement, Finish, Load, KeyStep, TableStep, BareKeyStep, ValueStep,
                LookaheadStep, NumberStep, ArrayStep, InlineStep, WhitespaceStep, CommentStep,
                Ended, Loop, In
  <2> QED
    BY <1>3, <2>1 DEF Stopped
<1>6. CASE Next /\ result = "running" /\ result' = "ok"
  <2>1. Finish
    BY <1>6, OnlyFinishAccepts
  <2>2. Accepted
    BY <1>1, <1>6, <2>1, FinishAccepts
  <2>3. tok' = tok
    BY <2>1 DEF Finish
  <2>4. AcceptsOnlyDocuments'
    BY <2>2, <2>3 DEF Accepted, AcceptsOnlyDocuments, AllRead, Text, LostReturn
  <2> QED
    BY <1>6, <2>4
<1>7. CASE Next /\ result = "running" /\ result' # "ok"
  <2>1. CASE LostAt(tok.stream)
    <3>1. KeepsText(tok, tok')
      BY <1>1, <1>7, NextGoesOn
    <3>2. Sound(Char, tok) /\ Sound(Char, tok')
      BY <1>1 DEF ReadInv
    <3>3. LostAt(tok'.stream)
      BY <2>1, <3>1, <3>2, LostKept
    <3> QED
      BY <1>7, <3>3 DEF Good
  <2>2. CASE ~LostAt(tok.stream)
    BY <1>1, <1>7, <2>2, StepLands DEF Lands
  <2> QED
    BY <2>1, <2>2
<1> QED
  BY <1>3, <1>4, <1>5, <1>6, <1>7

LEMMA InitAgrees == Init => AgreeInv
<1> SUFFICES ASSUME Init PROVE AgreeInv
  OBVIOUS
<1>1. ReadInv /\ stack = <<>> /\ result = "running"
  BY InitReads DEF Init
<1>2. tok.cursor = 1
  <2>1. scenario \in Scenarios /\ tok \in Reads(Opened(0)) /\ 0 \in 0 .. Len(scenario.start)
    BY ScenarioAssumption DEF Init
  <2>2. Sound(Char, Opened(0)) /\ Opened(0).cursor = 0 /\ Opened(0).has_token
    BY <2>1, OpenedSound
  <2> QED
    BY <2>1, <2>2, ReadsSound, ScenarioLetters DEF Reads
<1>3. Conf(tok) = Begun
  <2>1. PICK s : s = SubSeq(tok.stream, 1, tok.cursor - 1)
    OBVIOUS
  <2>2. tok.stream \in Seq(Char \cup {EOF})
    BY <1>1, StreamTyped DEF ReadInv
  <2>3. s = <<>>
    BY <1>2, <2>1, <2>2
  <2> QED
    BY <2>1, <2>3, RunNone DEF Conf, ConfAt
<1>4. PICK c : c = Conf(tok)
  OBVIOUS
<1>5. c.phase = "start" /\ c.nest = <<>>
  BY <1>3, <1>4 DEF Begun, Config
<1>6. Quiet(tok) /\ Settled(tok) = c
  BY <1>4, <1>5, NotNumber
<1>7. Agrees(stack, tok)
  BY <1>1, <1>5, <1>6 DEF Agrees, Base_agrees, Top_agrees
<1> QED
  BY <1>1, <1>7 DEF AgreeInv

(***************************************************************************)
(* Whatever the input, its length and the sizes of the buffers, toml_load  *)
(* accepts nothing but documents: where it returns without an error, the   *)
(* automaton of TomlSyntax has gone through all of the text and may end    *)
(* there.  The only exception is a text with a lone '\r' among its first   *)
(* two characters, which is lost.                                          *)
(***************************************************************************)
THEOREM OnlyDocumentsRead == Spec => []AcceptsOnlyDocuments
<1>1. AgreeInv /\ [Next]_vars => AgreeInv'
  BY NextGoesOn, AgreeKept DEF AgreeInv
<1>2. AgreeInv => AcceptsOnlyDocuments
  BY DEF AgreeInv, AcceptsOnlyDocuments
<1> QED
  BY <1>1, <1>2, InitAgrees, PTL DEF Spec

(***************************************************************************)
(* The same of toml_load with its tree, which refuses some documents more, *)
(* and accepts none that the functions that read would not.                *)
(***************************************************************************)
THEOREM OnlyDocumentsLoaded == LoadSpec => []AcceptsOnlyDocuments
<1>1. LoadInit => AgreeInv
  BY InitAgrees DEF LoadInit
<1>2. AgreeInv /\ [LoadNext]_load => AgreeInv'
  <2> SUFFICES ASSUME AgreeInv, [LoadNext]_load PROVE AgreeInv'
    OBVIOUS
  <2>1. ReadInv'
    BY LoadNextReads DEF AgreeInv
  <2>2. [Next]_vars \/ result' = "failed"
    BY DEF LoadNext, LoadStatement, LoadSegment, LoadBareKey, LoadKey, LoadTable, LoadValue,
           LoadLookahead, LoadNumber, LoadArray, LoadInline, LoadRest, LoadFinish, LoadStopped,
           Next, Fail, load, vars
  <2> QED
    BY <2>1, <2>2, AgreeKept
<1>3. AgreeInv => AcceptsOnlyDocuments
  BY DEF AgreeInv, AcceptsOnlyDocuments
<1> QED
  BY <1>1, <1>2, <1>3, PTL DEF LoadSpec

-----------------------------------------------------------------------------
(* What toml_load refuses.  The automaton that is not lenient moves like   *)
(* the other one until it finds an error.                                  *)

LEMMA MoveStrict ==
    ASSUME NEW c, NEW ch
    PROVE  Move(c, ch, FALSE) = Move(c, ch, TRUE) \/ Move(c, ch, FALSE).phase = "error"
<1>1. ASSUME NEW d
      PROVE  After(d, ch, FALSE) = After(d, ch, TRUE) \/ After(d, ch, FALSE) = Error
  <2>1. CASE d.phase = "in"
    BY <2>1 DEF After
  <2>2. CASE d.phase # "in" /\ ch = "["
    BY <2>2 DEF After, Blank
  <2>3. CASE d.phase # "in" /\ ch # "["
    BY <2>3 DEF After
  <2> QED
    BY <2>1, <2>2, <2>3
<1>2. Error.phase = "error"
  BY DEF Error, Config
<1>3. CASE c.phase \in {"int", "frac"}
  BY <1>1, <1>2, <1>3 DEF Move
<1>4. CASE c.phase \in {"after", "in"}
  <2>1. \A lenient : Move(c, ch, lenient) = After(c, ch, lenient)
    BY <1>4 DEF Move
  <2> QED
    BY <1>1, <1>2, <2>1
<1>5. CASE c.phase \notin {"int", "frac", "after", "in"}
  BY <1>5 DEF Move
<1> QED
  BY <1>3, <1>4, <1>5

\* Where it finds one.
Stumbles(c, ch) == Move(c, ch, FALSE).phase = "error"

LEMMA ErrorIs == Error.phase = "error"
  BY DEF Error, Config

LEMMA EndLineMisses ==
    ASSUME NEW c, NEW ch, ch \notin {"\n", "\r", "#"}
    PROVE  EndLine(c, ch) = Error
  BY DEF EndLine

LEMMA LineMisses ==
    ASSUME NEW c, NEW ch, ch \notin Blank \cup {"\n", "\r", "#"},
           \/ c.phase = "start" /\ ch \notin Bare \cup {"["}
           \/ c.phase = "after"
    PROVE  Stumbles(c, ch)
<1>1. CASE c.phase = "start" /\ ch \notin Bare \cup {"["}
  <2>1. Move(c, ch, FALSE) = EndLine(c, ch)
    BY <1>1 DEF Move
  <2> QED
    BY <2>1, EndLineMisses, ErrorIs DEF Stumbles
<1>2. CASE c.phase = "after"
  <2>1. Move(c, ch, FALSE) = After(c, ch, FALSE)
    BY <1>2 DEF Move
  <2>2. After(c, ch, FALSE) = IF ch = "[" THEN Error ELSE EndLine(c, ch)
    BY <1>2 DEF After
  <2> QED
    BY <2>1, <2>2, EndLineMisses, ErrorIs DEF Stumbles
<1> QED
  BY <1>1, <1>2

LEMMA InsideTop ==
    ASSUME NEW c, NEW kind, NEW m, NEW l, Inside(c, kind, m, l)
    PROVE  /\ Top(c) = l /\ l.kind = kind /\ l.sep \in BOOLEAN /\ l.size \in Nat
           /\ kind \in {"array", "inline"}
<1>1. m \in Seq(Levels) /\ l \in Levels /\ c.nest = Append(m, l) /\ l.kind = kind
  BY DEF Inside
<1>2. c.nest[Len(c.nest)] = l
  BY <1>1, Grows
<1> QED
  BY <1>1, <1>2 DEF Top, Levels

\* Between the elements of an array, or the pairs of an inline table.
LEMMA BetweenMisses ==
    ASSUME NEW c, c.phase = "in", NEW kind, NEW m, NEW l, Inside(c, kind, m, l),
           NEW ch, ch \notin Blank,
           \/ ch = "," /\ l.sep
           \/ ch = "]" /\ kind = "inline"
           \/ ch = "}" /\ (kind = "array" \/ (l.sep /\ l.size # 0))
           \/ ch \in {"\n", "\r", "#"} /\ kind = "inline"
           \/ /\ ch \notin {",", "]", "}", "\n", "\r", "#"}
              /\ \/ ~l.sep
                 \/ kind = "array" /\ ch \notin {"1", "[", "{"}
                 \/ kind = "inline" /\ ch \notin Bare
    PROVE  Stumbles(c, ch)
<1>1. Top(c) = l /\ l.kind = kind /\ l.sep \in BOOLEAN /\ l.size \in Nat
      /\ kind \in {"array", "inline"}
  BY InsideTop
<1>2. Move(c, ch, FALSE) = Between(c, ch)
  <2>1. Move(c, ch, FALSE) = After(c, ch, FALSE)
    BY DEF Move
  <2> QED
    BY <2>1 DEF After
<1>3. CASE ch \in {",", "]", "}", "\n", "\r", "#"}
  <2>1. Between(c, ch) = Error
    BY <1>1, <1>3 DEF Between
  <2> QED
    BY <1>2, <2>1, ErrorIs DEF Stumbles
<1>4. CASE ch \notin {",", "]", "}", "\n", "\r", "#"}
  <2>1. Between(c, ch) = IF l.sep /\ kind = "array" THEN StartValue(c, ch)
                         ELSE IF l.sep /\ ch \in Bare THEN To(c, "bare") ELSE Error
    BY <1>1, <1>4 DEF Between
  <2>2. ch \notin {"1", "[", "{"} => StartValue(c, ch) = Error
    BY DEF StartValue
  <2>3. Between(c, ch) = Error
    BY <1>1, <1>4, <2>1, <2>2
  <2> QED
    BY <1>2, <2>3, ErrorIs DEF Stumbles
<1> QED
  BY <1>3, <1>4

\* Where a key, a header or a segment of one should start.
LEMMA BeginsMisses ==
    ASSUME NEW g, NEW c, Begins(g, c), NEW ch, ch \notin Blank \cup Bare,
           c.phase = "start" => ch \notin {"[", "#", "\n", "\r"},
           c.phase = "in" => ch # "}",
           c.phase = "header" => ch # "["
    PROVE  Stumbles(c, ch)
<1>1. CASE c.phase = "segment"
  <2>1. Move(c, ch, FALSE) = Error
    BY <1>1 DEF Move
  <2> QED
    BY <2>1, ErrorIs DEF Stumbles
<1>2. CASE c.phase = "start"
  BY <1>2, LineMisses
<1>3. CASE c.phase = "in"
  <2>1. PICK m, l : Inside(c, "inline", m, l) /\ l.sep
    BY <1>3 DEF Begins
  <2> QED
    BY <1>3, <2>1, BetweenMisses
<1>4. CASE c.phase = "header"
  <2>1. Move(c, ch, FALSE) = Error
    BY <1>4 DEF Move
  <2> QED
    BY <2>1, ErrorIs DEF Stumbles
<1> QED
  BY <1>1, <1>2, <1>3, <1>4 DEF Begins

\* Behind a segment.
LEMMA GoesMisses ==
    ASSUME NEW g, g.fn \in {"key", "table"}, NEW c, Goes(g, c),
           NEW ch, ch \notin Blank \cup {".", End(g)}, ch \in Bare => c.phase = "dot"
    PROVE  Stumbles(c, ch)
<1>1. c.phase \in {"bare", "dot"} /\ Closing(c) = End(g)
  BY DEF Goes, Closing, End, Form
<1>2. Move(c, ch, FALSE) = Error
  BY <1>1 DEF Move
<1> QED
  BY <1>2, ErrorIs DEF Stumbles

\* Where a value should start, or go on.
LEMMA ReadyMisses ==
    ASSUME NEW c, Ready(c), NEW ch, ch \notin Blank \cup {"1", "[", "{"},
           c.phase = "in" => ch \notin {",", "]", "\n", "\r", "#"}
    PROVE  Stumbles(c, ch)
<1>1. CASE c.phase = "value"
  <2>1. Move(c, ch, FALSE) = StartValue(c, ch)
    BY <1>1 DEF Move
  <2>2. StartValue(c, ch) = Error
    BY DEF StartValue
  <2> QED
    BY <2>1, <2>2, ErrorIs DEF Stumbles
<1>2. CASE c.phase = "in"
  <2>1. PICK m, l : Inside(c, "array", m, l) /\ l.sep
    BY <1>2 DEF Ready
  <2> QED
    BY <1>2, <2>1, BetweenMisses
<1> QED
  BY <1>1, <1>2 DEF Ready

LEMMA NumberMisses ==
    ASSUME NEW c, c.phase \in {"int", "frac"}, c.form = "key", c.nest \in Seq(Levels),
           NEW ch, ch \notin EndOf(c.nest) \cup {"1", "\t", "\r"},
           ch = "." => c.phase = "frac"
    PROVE  Stumbles(c, ch)
<1>1. PICK d : d = ValueEnd(c)
  OBVIOUS
<1>2. CASE c.nest = <<>>
  <2>1. ch \notin Blank \cup {"\n", "\r", "#"}
    BY <1>2 DEF EndOf, TopEnd, Blank
  <2>2. Move(c, ch, FALSE) = IF ch = "[" THEN Error ELSE After(d, ch, FALSE)
    BY <1>1, <1>2 DEF Move
  <2>3. d.phase = "after"
    BY <1>1, <1>2 DEF ValueEnd, To, Config
  <2>4. Move(d, ch, FALSE) = After(d, ch, FALSE)
    BY <2>3 DEF Move
  <2>5. Stumbles(d, ch)
    BY <2>1, <2>3, LineMisses
  <2> QED
    BY <2>2, <2>4, <2>5, ErrorIs DEF Stumbles
<1>3. CASE c.nest # <<>>
  <2>1. PICK m, l : m \in Seq(Levels) /\ l \in Levels /\ c.nest = Append(m, l)
    BY <1>3, LastLevel
  <2>2. PICK k : k = [l EXCEPT !.sep = FALSE, !.size = @ + 1]
    OBVIOUS
  <2>3. k \in Levels /\ k.kind = l.kind /\ k.sep = FALSE /\ l.kind \in {"array", "inline"}
    <3>1. k = [kind |-> l.kind, sep |-> FALSE, size |-> l.size + 1] /\ l.size \in Nat
          /\ l.kind \in {"array", "inline"}
      BY <2>1, <2>2 DEF Levels
    <3> QED
      BY <3>1 DEF Levels
  <2>4. Top(c) = l /\ Front(c.nest) = m /\ c.nest[Len(c.nest)] = l
    BY <2>1, Grows DEF Top
  <2>5. d = Config("in", "key", Append(m, k))
    BY <1>1, <1>3, <2>2, <2>4 DEF ValueEnd, SetTop
  <2>6. d.phase = "in" /\ Inside(d, l.kind, m, k)
    BY <2>1, <2>3, <2>5 DEF Inside, Config
  <2>7. EndOf(c.nest) = IF l.kind = "array" THEN ArrayEnd ELSE InlineEnd
    BY <1>3, <2>4 DEF EndOf
  <2>8. Stumbles(d, ch)
    <3>1. CASE l.kind = "array"
      <4>1. ch \notin Blank \cup {"#", ",", "]", "\n", "\r"}
        BY <2>7, <3>1 DEF ArrayEnd, Blank
      <4> QED
        BY <2>3, <2>6, <3>1, <4>1, BetweenMisses
    <3>2. CASE l.kind = "inline"
      <4>1. ch \notin Blank \cup {",", "}"}
        BY <2>7, <3>2 DEF InlineEnd, Blank
      <4> QED
        BY <2>3, <2>6, <3>2, <4>1, BetweenMisses
    <3> QED
      BY <2>3, <3>1, <3>2
  <2>9. Move(c, ch, FALSE) = After(d, ch, FALSE)
    BY <1>1, <1>3 DEF Move
  <2>10. Move(d, ch, FALSE) = After(d, ch, FALSE)
    BY <2>6 DEF Move
  <2> QED
    BY <2>8, <2>9, <2>10 DEF Stumbles
<1> QED
  BY <1>2, <1>3

\* And a few more.
LEMMA OthersMiss ==
    ASSUME NEW c, NEW ch
    PROVE  /\ c.phase = "point" /\ ch # "1" => Stumbles(c, ch)
           /\ c.phase = "close" /\ ch # "]" => Stumbles(c, ch)
           /\ c.phase = "comment" /\ ch = "x" => Stumbles(c, ch)
           /\ c.phase = "cr" /\ ch # "\n" => Stumbles(c, ch)
           /\ c.phase = "error" => Stumbles(c, ch)
<1>1. /\ c.phase = "point" /\ ch # "1" => Move(c, ch, FALSE) = Error
      /\ c.phase = "close" /\ ch # "]" => Move(c, ch, FALSE) = Error
      /\ c.phase = "comment" /\ ch = "x" => Move(c, ch, FALSE) = Error
      /\ c.phase = "cr" /\ ch # "\n" => Move(c, ch, FALSE) = Error
      /\ c.phase = "error" => Move(c, ch, FALSE) = Error
  BY DEF Move
<1> QED
  BY <1>1, ErrorIs DEF Stumbles

\* What a configuration is made of, as far as the next move asks.
Phases == {"start", "header", "segment", "bare", "dot", "close", "value", "int", "point",
           "frac", "after", "in", "comment", "cr", "error"}
Typed(c) == c.phase \in Phases /\ c.form \in {"key", "table", "arraytable"}

LEMMA MoveTyped ==
    ASSUME NEW c, Typed(c), NEW ch, NEW lenient
    PROVE  Typed(Move(c, ch, lenient))
<1>1. Typed(Error)
  BY DEF Typed, Error, Config, Phases
<1>2. \A phase \in Phases : \A d : d.form = c.form => Typed(To(d, phase))
  BY DEF Typed, To, Config
<1>3. ASSUME NEW d, d.form = c.form
      PROVE  /\ Typed(LineEnd(d)) /\ Typed(ValueEnd(d))
             /\ ValueEnd(d).form = c.form /\ \A top : Typed(SetTop(d, top))
  <2>1. \A top : Typed(SetTop(d, top)) /\ SetTop(d, top).form = c.form
    BY <1>3 DEF SetTop, Config, Typed, Phases
  <2>2. Typed(To(d, "start")) /\ Typed(To(d, "in")) /\ Typed(To(d, "after"))
        /\ To(d, "after").form = c.form
    BY <1>2, <1>3 DEF Phases, To, Config
  <2> QED
    BY <2>1, <2>2 DEF LineEnd, ValueEnd
<1>4. ASSUME NEW d, d.form = c.form PROVE Typed(EndLine(d, ch)) /\ Typed(StartValue(d, ch))
  <2>1. Typed(To(d, "cr")) /\ Typed(To(d, "comment")) /\ Typed(To(d, "int"))
    BY <1>2, <1>4 DEF Phases
  <2>2. \A kind : Typed(Enter(d, kind))
    BY DEF Enter, Config, Typed, Phases
  <2> QED
    BY <1>1, <1>3, <1>4, <2>1, <2>2 DEF EndLine, StartValue
<1>5. ASSUME NEW d, d.form = c.form, d.phase \in Phases PROVE Typed(After(d, ch, lenient))
  <2>1. Typed(d) /\ Typed(To(d, "header")) /\ Typed(To(d, "bare"))
    BY <1>2, <1>5 DEF Phases, Typed
  <2>2. Typed(Leave(d))
    <3>1. PICK e : e = Config("in", d.form, Front(d.nest))
      OBVIOUS
    <3>2. e.form = c.form
      BY <1>5, <3>1 DEF Config
    <3> QED
      BY <1>3, <3>1, <3>2 DEF Leave
  <2>3. Typed(Between(d, ch))
    <3>1. \A top : Typed(SetTop(d, top))
      BY <1>3, <1>5
    <3>2. Typed(EndLine(d, ch)) /\ Typed(StartValue(d, ch))
      BY <1>4, <1>5
    <3> QED
      BY <1>1, <2>1, <2>2, <3>1, <3>2 DEF Between
  <2>4. Typed(EndLine(d, ch))
    BY <1>4, <1>5
  <2> QED
    BY <1>1, <2>1, <2>3, <2>4 DEF After
<1>6. PICK d : d = Move(c, ch, lenient)
  OBVIOUS
<1>7. CASE c.phase = "start"
  <2>1. \A nest : Typed(Config("bare", "key", nest))
    BY DEF Typed, Config, Phases
  <2>2. Typed(To(c, "header")) /\ Typed(EndLine(c, ch))
    BY <1>2, <1>4 DEF Phases
  <2> QED
    BY <1>7, <2>1, <2>2 DEF Move
<1>8. CASE c.phase = "header"
  <2>1. \A nest : /\ Typed(Config("segment", "arraytable", nest))
                  /\ Typed(Config("segment", "table", nest))
                  /\ Typed(Config("bare", "table", nest))
    BY DEF Typed, Config, Phases
  <2> QED
    BY <1>1, <1>8, <2>1 DEF Move
<1>9. CASE c.phase \in {"segment", "close", "value", "point"}
  <2>1. Typed(To(c, "bare")) /\ Typed(To(c, "after")) /\ Typed(To(c, "frac"))
        /\ Typed(StartValue(c, ch))
    BY <1>2, <1>4 DEF Phases
  <2> QED
    BY <1>1, <1>9, <2>1 DEF Move
<1>10. CASE c.phase \in {"bare", "dot"}
  <2>1. Typed(To(c, "dot")) /\ Typed(To(c, "segment"))
    BY <1>2 DEF Phases
  <2>2. Typed(KeyEnd(c))
    <3>1. Typed(To(c, "value")) /\ Typed(To(c, "after")) /\ Typed(To(c, "close"))
      BY <1>2 DEF Phases
    <3> QED
      BY <3>1 DEF KeyEnd, Typed
  <2> QED
    BY <1>1, <1>10, <2>1, <2>2 DEF Move
<1>11. CASE c.phase \in {"int", "frac"}
  <2>1. Typed(To(c, "point"))
    BY <1>2 DEF Phases
  <2>2. Typed(After(ValueEnd(c), ch, lenient))
    <3>1. PICK e : e = ValueEnd(c)
      OBVIOUS
    <3>2. e.form = c.form /\ e.phase \in Phases
      BY <1>3, <3>1 DEF Typed
    <3> QED
      BY <1>5, <3>1, <3>2
  <2> QED
    BY <1>1, <1>11, <2>1, <2>2 DEF Move
<1>12. CASE c.phase \in {"after", "in"}
  <2>1. Typed(After(c, ch, lenient))
    BY <1>5 DEF Typed
  <2> QED
    BY <1>12, <2>1 DEF Move
<1>13. CASE c.phase \in {"comment", "cr", "error"}
  <2>1. Typed(LineEnd(c)) /\ Typed(EndLine(c, ch))
    BY <1>3, <1>4
  <2> QED
    BY <1>1, <1>13, <2>1 DEF Move
<1> QED
  BY <1>7, <1>8, <1>9, <1>10, <1>11, <1>12, <1>13 DEF Typed, Phases

\* Behind a '\r' a '\n' has to come.
LEMMA ReturnMoves ==
    ASSUME NEW c, Typed(c), c.phase \notin {"int", "frac"}
    PROVE  Stumbles(c, "\r") \/ Move(c, "\r", FALSE).phase = "cr"
<1>1. PICK d : d = Move(c, "\r", FALSE)
  OBVIOUS
<1>2. To(c, "cr").phase = "cr" /\ EndLine(c, "\r") = To(c, "cr")
  BY DEF To, Config, EndLine
<1>3. CASE c.phase \in {"start", "comment"}
  <2>1. d = EndLine(c, "\r")
    BY <1>1, <1>3 DEF Move, Blank, Bare
  <2> QED
    BY <1>1, <1>2, <2>1
<1>4. CASE c.phase \in {"after", "in"}
  <2>1. d = After(c, "\r", FALSE)
    BY <1>1, <1>4 DEF Move
  <2>2. After(c, "\r", FALSE) \in {EndLine(c, "\r"), Error}
    BY DEF After, Between, Blank
  <2> QED
    BY <1>1, <1>2, <2>1, <2>2, ErrorIs DEF Stumbles
<1>5. CASE c.phase \in {"bare", "dot"}
  <2>1. Closing(c) # "\r"
    BY DEF Closing
  <2>2. d = Error
    BY <1>1, <1>5, <2>1 DEF Move, Blank, Bare
  <2> QED
    BY <1>1, <2>2, ErrorIs DEF Stumbles
<1>6. CASE c.phase \in {"header", "segment", "close", "value", "point", "cr", "error"}
  <2>1. d = Error
    BY <1>1, <1>6 DEF Move, StartValue, Blank, Bare
  <2> QED
    BY <1>1, <2>1, ErrorIs DEF Stumbles
<1> QED
  BY <1>3, <1>4, <1>5, <1>6 DEF Typed, Phases

Strict(s, n) == Run(SubSeq(s, 1, n), FALSE)

LEMMA StrictOn ==
    ASSUME NEW S, NEW s \in Seq(S), NEW n \in Nat, n < Len(s)
    PROVE  Strict(s, n + 1) = Move(Strict(s, n), s[n + 1], FALSE)
  BY RunOn DEF Strict

LEMMA StrictNone ==
    ASSUME NEW S, NEW s \in Seq(S)
    PROVE  Strict(s, 0) = Begun /\ ConfAt(s, 0) = Begun
<1>1. SubSeq(s, 1, 0) = <<>>
  OBVIOUS
<1> QED
  BY <1>1, RunNone DEF Strict, ConfAt

LEMMA StrictIs ==
    ASSUME NEW S, NEW s \in Seq(S), NEW n \in Nat, n <= Len(s)
    PROVE  /\ Typed(Strict(s, n))
           /\ Strict(s, n) = ConfAt(s, n) \/ Strict(s, n).phase = "error"
<1> DEFINE T == {i \in Nat : i <= Len(s) =>
                    /\ Typed(Strict(s, i))
                    /\ Strict(s, i) = ConfAt(s, i) \/ Strict(s, i).phase = "error"}
<1>1. 0 \in T
  <2>1. Typed(Begun)
    BY DEF Typed, Begun, Config, Phases
  <2> QED
    BY <2>1, StrictNone
<1>2. ASSUME NEW i \in Nat, i \in T PROVE i + 1 \in T
  <2> SUFFICES ASSUME i + 1 <= Len(s)
               PROVE  /\ Typed(Strict(s, i + 1))
                      /\ \/ Strict(s, i + 1) = ConfAt(s, i + 1)
                         \/ Strict(s, i + 1).phase = "error"
    OBVIOUS
  <2>1. i < Len(s) /\ Typed(Strict(s, i))
        /\ (Strict(s, i) = ConfAt(s, i) \/ Strict(s, i).phase = "error")
    BY <1>2
  <2>2. Strict(s, i + 1) = Move(Strict(s, i), s[i + 1], FALSE)
    BY <2>1, StrictOn
  <2>3. ConfAt(s, i + 1) = Move(ConfAt(s, i), s[i + 1], TRUE)
    BY <2>1, RunOn DEF ConfAt
  <2>4. Typed(Strict(s, i + 1))
    BY <2>1, <2>2, MoveTyped
  <2>5. Strict(s, i).phase = "error" => Strict(s, i + 1).phase = "error"
    BY <2>2, OthersMiss DEF Stumbles
  <2> HIDE DEF T
  <2> QED
    BY <2>1, <2>2, <2>3, <2>4, <2>5, MoveStrict
<1>3. n \in T
  <2>1. Nat \subseteq T
    <3> HIDE DEF T
    <3> QED
      BY <1>1, <1>2, NatInducts
  <2> QED
    BY <2>1
<1> QED
  BY <1>3

LEMMA ErrorStays ==
    ASSUME NEW S, NEW s \in Seq(S), NEW n \in Nat, NEW m \in Nat, n <= m, m <= Len(s),
           Strict(s, n).phase = "error"
    PROVE  Strict(s, m).phase = "error"
<1> DEFINE T == {i \in Nat : n <= i /\ i <= Len(s) => Strict(s, i).phase = "error"}
<1>1. 0 \in T
  OBVIOUS
<1>2. ASSUME NEW i \in Nat, i \in T PROVE i + 1 \in T
  <2> SUFFICES ASSUME n <= i + 1, i + 1 <= Len(s) PROVE Strict(s, i + 1).phase = "error"
    OBVIOUS
  <2>1. CASE n = i + 1
    BY <2>1
  <2>2. CASE n # i + 1
    <3>1. i < Len(s) /\ Strict(s, i).phase = "error"
      BY <1>2, <2>2
    <3>2. Strict(s, i + 1) = Move(Strict(s, i), s[i + 1], FALSE)
      BY <3>1, StrictOn
    <3> QED
      BY <3>1, <3>2, OthersMiss DEF Stumbles
  <2> QED
    BY <2>1, <2>2
<1>3. m \in T
  <2>1. Nat \subseteq T
    <3> HIDE DEF T
    <3> QED
      BY <1>1, <1>2, NatInducts
  <2> QED
    BY <2>1
<1> QED
  BY <1>3

(***************************************************************************)
(* The causes to refuse a text that it shows up to its letter n: it is no  *)
(* beginning of a document, or one of those that toml_load does not take.  *)
(***************************************************************************)
CauseAt(s, n) ==
    \/ s[n] # EOF /\ Strict(s, n).phase = "error"
    \/ n > 1 /\ s[n] \in {"\t", "\r"} /\ Strict(s, n - 1).phase \in {"int", "frac"}
    \/ n > 1 /\ s[n] \in Bare /\ \A i \in 1 .. n - 1 : s[i] \in Blank
    \/ s[n] = EOF /\ (~Complete(Strict(s, n - 1)) \/ Strict(s, n - 1).phase = "comment")

Cause(s) == \E n \in 1 .. Len(s) : CauseAt(s, n)

LEMMA CauseKept ==
    ASSUME NEW t, NEW u, Sound(Char, t), Sound(Char, u), KeepsText(t, u), Cause(t.stream)
    PROVE  Cause(u.stream)
<1>1. Len(t.stream) \in Nat /\ Len(u.stream) \in Nat /\ Len(t.stream) <= Len(u.stream)
  BY StreamTyped DEF KeepsText
<1>2. PICK n \in 1 .. Len(t.stream) : CauseAt(t.stream, n)
  BY DEF Cause
<1>3. \A i \in 1 .. n : u.stream[i] = t.stream[i]
  BY <1>1, <1>2 DEF KeepsText
<1>4. n \in Nat /\ n - 1 \in Nat /\ n <= Len(t.stream) /\ n - 1 <= Len(t.stream)
      /\ n \in 1 .. n /\ \A i \in 1 .. n - 1 : i \in 1 .. n
  BY <1>1, <1>2
<1>5. Strict(u.stream, n) = Strict(t.stream, n) /\ Strict(u.stream, n - 1) = Strict(t.stream, n - 1)
  <2>1. SubSeq(u.stream, 1, n) = SubSeq(t.stream, 1, n)
    BY <1>4, PrefixKept
  <2>2. SubSeq(u.stream, 1, n - 1) = SubSeq(t.stream, 1, n - 1)
    BY <1>4, PrefixKept
  <2> QED
    BY <2>1, <2>2, Zenon DEF Strict
<1>6. CauseAt(u.stream, n)
  BY <1>2, <1>3, <1>4, <1>5 DEF CauseAt
<1>7. n \in 1 .. Len(u.stream)
  BY <1>1, <1>2
<1> QED
  BY <1>6, <1>7 DEF Cause

\* What is found at the character that is looked at.
LEMMA CauseHere ==
    ASSUME NEW t, Sound(Char, t), t.cursor >= 1
    PROVE  /\ t.has_token /\ Stumbles(Conf(t), t.token) => Cause(t.stream)
           /\ t.token \in {"\t", "\r"} /\ Conf(t).phase \in {"int", "frac"} => Cause(t.stream)
           /\ ~t.has_token /\ (~Complete(Conf(t)) \/ Conf(t).phase = "comment")
                 => Cause(t.stream)
<1>1. PICK s, n : s = t.stream /\ n = t.cursor
  OBVIOUS
<1>2. s \in Seq(Char \cup {EOF}) /\ Len(s) \in Nat /\ n \in 1 .. Len(s) /\ n - 1 \in Nat
      /\ n - 1 <= Len(s) /\ n - 1 < Len(s) /\ (n - 1) + 1 = n
  BY <1>1, StreamTyped
<1>3. /\ \A i \in 1 .. Len(s) - 1 : s[i] # EOF
      /\ t.token = Letter(s[n]) /\ (t.has_token <=> s[n] # EOF)
  BY <1>1, <1>2 DEF Sound
<1>4. t.has_token => t.token = s[n]
  BY <1>3 DEF Letter
<1>5. PICK c : c = Strict(s, n - 1)
  OBVIOUS
<1>6. Strict(s, n) = Move(c, s[n], FALSE)
  BY <1>2, <1>5, StrictOn
<1>7. CASE c.phase = "error"
  <2>1. n - 1 # 0
    <3>1. Begun.phase # "error"
      BY DEF Begun, Config
    <3> QED
      BY <1>2, <1>5, <1>7, <3>1, StrictNone
  <2>2. n - 1 \in 1 .. Len(s) - 1 /\ n - 1 \in 1 .. Len(s)
    BY <1>2, <2>1
  <2>3. CauseAt(s, n - 1)
    BY <1>3, <1>5, <1>7, <2>2 DEF CauseAt
  <2> QED
    BY <1>1, <2>2, <2>3 DEF Cause
<1>8. CASE c.phase # "error"
  <2>1. c = Conf(t)
    BY <1>1, <1>2, <1>5, <1>8, StrictIs DEF Conf
  <2>2. t.has_token /\ Stumbles(c, t.token) => CauseAt(s, n)
    BY <1>3, <1>4, <1>6 DEF CauseAt, Stumbles
  <2>3. t.token \in {"\t", "\r"} /\ c.phase \in {"int", "frac"} => CauseAt(s, n)
    <3>1. t.token \in {"\t", "\r"} => s[n] = t.token
      BY <1>3 DEF Letter, NUL
    <3>2. c.phase \in {"int", "frac"} => n - 1 # 0
      <4>1. Begun.phase \notin {"int", "frac"}
        BY DEF Begun, Config
      <4> QED
        BY <1>2, <1>5, <4>1, StrictNone
    <3>3. n - 1 # 0 => n > 1
      BY <1>2
    <3> QED
      BY <1>5, <3>1, <3>2, <3>3 DEF CauseAt
  <2>4. ~t.has_token /\ (~Complete(c) \/ c.phase = "comment") => CauseAt(s, n)
    BY <1>3, <1>5 DEF CauseAt
  <2> QED
    BY <1>1, <1>2, <2>1, <2>2, <2>3, <2>4 DEF Cause
<1> QED
  BY <1>7, <1>8

\* A '\r' that stands alone is never read as a line end.
LEMMA LoneCause ==
    ASSUME NEW t, Sound(Char, t), NEW i \in Nat, i >= 1, i < Len(t.stream),
           t.stream[i] = "\r", t.stream[i + 1] # "\n"
    PROVE  Cause(t.stream)
<1>1. PICK s : s = t.stream
  OBVIOUS
<1>2. s \in Seq(Char \cup {EOF}) /\ Len(s) \in Nat
  BY <1>1, StreamTyped
<1>3. i \in 1 .. Len(s) /\ i + 1 \in 1 .. Len(s) /\ i - 1 \in Nat /\ i - 1 < Len(s)
      /\ (i - 1) + 1 = i /\ i < Len(s) /\ (i + 1) - 1 = i /\ i - 1 <= Len(s)
  BY <1>1, <1>2
<1>4. PICK c, d : c = Strict(s, i - 1) /\ d = Strict(s, i)
  OBVIOUS
<1>5. d = Move(c, "\r", FALSE) /\ Strict(s, i + 1) = Move(d, s[i + 1], FALSE) /\ Typed(c)
  <2>1. Strict(s, (i - 1) + 1) = Move(Strict(s, i - 1), s[(i - 1) + 1], FALSE)
    BY <1>2, <1>3, StrictOn
  <2>2. Strict(s, i + 1) = Move(Strict(s, i), s[i + 1], FALSE)
    BY <1>2, <1>3, StrictOn
  <2>3. Typed(c)
    BY <1>2, <1>3, <1>4, StrictIs
  <2> QED
    BY <1>1, <1>3, <1>4, <2>1, <2>2, <2>3
<1>6. s[i] = "\r" /\ s[i] # EOF
  BY <1>1 DEF EOF
<1>7. CASE c.phase \in {"int", "frac"}
  <2>1. i - 1 # 0
    <3>1. Begun.phase \notin {"int", "frac"}
      BY DEF Begun, Config
    <3> QED
      BY <1>2, <1>4, <1>7, <3>1, StrictNone
  <2>2. i > 1
    BY <1>3, <2>1
  <2>3. CauseAt(s, i)
    BY <1>4, <1>6, <1>7, <2>2 DEF CauseAt
  <2> QED
    BY <1>1, <1>3, <2>3 DEF Cause
<1>8. CASE Stumbles(c, "\r")
  <2>1. CauseAt(s, i)
    BY <1>4, <1>5, <1>6, <1>8 DEF CauseAt, Stumbles
  <2> QED
    BY <1>1, <1>3, <2>1 DEF Cause
<1>9. CASE d.phase = "cr"
  <2>1. ~Complete(d)
    BY <1>9 DEF Complete
  <2>2. Stumbles(d, s[i + 1])
    BY <1>1, <1>9, OthersMiss
  <2>3. CauseAt(s, i + 1)
    BY <1>3, <1>4, <1>5, <2>1, <2>2 DEF CauseAt, Stumbles
  <2> QED
    BY <1>1, <1>3, <2>3 DEF Cause
<1> QED
  BY <1>5, <1>7, <1>8, <1>9, ReturnMoves

LEMMA NoneLost ==
    ASSUME NEW t, Sound(Char, t), ~Cause(t.stream)
    PROVE  ~Alone(t) /\ ~LostAt(t.stream)
<1>1. \A i \in {1, 2} : i \in Nat /\ i >= 1
  OBVIOUS
<1>2. ~LostAt(t.stream)
  BY <1>1, LoneCause DEF LostAt
<1>3. ASSUME Alone(t) PROVE FALSE
  <2>1. t.token = "\r" /\ t.cursor < Len(t.stream) /\ t.stream[t.cursor + 1] # "\n"
    BY <1>3 DEF Alone
  <2>2. t.cursor \in Nat /\ t.cursor > 0
    BY <2>1, SoundToken DEF NUL
  <2>3. t.stream[t.cursor] = "\r" /\ t.cursor >= 1
    BY <2>1, <2>2 DEF Sound, Letter, NUL
  <2> QED
    BY <2>1, <2>2, <2>3, LoneCause
<1> QED
  BY <1>2, <1>3

\* Where there is no cause, a look for a line end that finds none changes nothing.
LEMMA NotNewlineStays ==
    ASSUME scenario.letters \in SUBSET Char, NEW t, Sound(Char, t), NEW n \in NotNewline(t),
           ~Cause(n.stream)
    PROVE  n = t /\ t.token \notin {"\n", "\r"}
<1>1. Sound(Char, n)
  BY NewlinesSound
<1>2. ~Alone(n) /\ ~LostAt(n.stream)
  BY <1>1, NoneLost
<1> QED
  BY <1>2, NotNewlineIs

\* A line end has been read, and its flag is set.
LEMMA NewlineRead ==
    ASSUME scenario.letters \in SUBSET Char, NEW t, Sound(Char, t), NEW n \in AtNewline(t),
           NEW u \in Reads(n)
    PROVE  u.newline /\ is_newline(u.prev)
<1>1. n.token = "\n"
  BY AtNewlineIs
<1>2. Sound(Char, n)
  BY NewlinesSound
<1>3. n.newline
  BY <1>1, <1>2 DEF Sound, is_newline
<1>4. Consumed(n, u)
  BY <1>1, <1>2, LetterConsumed DEF NUL
<1> QED
  BY <1>1, <1>3, <1>4 DEF Consumed, OnBlankLine, is_newline

-----------------------------------------------------------------------------
(***************************************************************************)
(* What the functions on the stack know besides, where there is no cause   *)
(* to refuse the text: parse_key and the others are called only where the  *)
(* character that is looked at leaves no other choice, and toml_load sees  *)
(* from prev and newline that a line starts.  Only white space in the      *)
(* first line hides that from it.                                          *)
(***************************************************************************)
LineStarts(t) ==
    \/ t.newline /\ t.prev \in Blank \cup {"\n"}
    \/ /\ \A i \in 1 .. t.cursor - 1 : t.stream[i] \in Blank
       /\ t.cursor = 1 => t.prev = NUL

\* A key or a header starts here, nothing else.
Opening(t) ==
    /\ Conf(t).phase = "start" => /\ t.has_token
                                  /\ t.token \notin Blank \cup {"[", "#", "\n", "\r"}
    /\ Conf(t).phase = "in" => t.token \notin Blank \cup {"}"}
    /\ Conf(t).phase = "header" => t.token # "["

Has(g, t) ==
    /\ g.fn \in {"key", "table"} /\ g.expecting => Opening(t)
    /\ g.fn = "barekey" /\ g.idx = 0 => Opening(t)
    /\ g.fn = "barekey" /\ g.idx # 0 /\ g.done => Conf(t).phase = "dot" \/ t.token \in Blank
    /\ g.fn = "value" /\ Conf(t).phase = "in" =>
           t.token \notin Blank \cup {"\n", "\r", "#", "]", ","}
    /\ g.fn = "number" => g.as # "garbage" /\ (g.as = Conf(t).phase => t.prev = "1")

Knowing(s, t) == IF s = <<>> THEN Settled(t).phase = "start" => LineStarts(t)
                 ELSE Has(Head(s), t)

Exact(s, t) == /\ Knowing(s, t)
               /\ s # <<>> /\ Head(s).fn = "whitespace" => Knowing(Tail(s), t)

\* A step that reads on knows as much, one that gives up finds a buffer full.
Pays == /\ result' = "failed" => stack' = stack /\ TooLong
        /\ result' = "running" => Exact(stack', tok')

\* What a step may take for granted.
Founded == /\ ReadInv /\ ReadInv' /\ KeepsText(tok, tok') /\ result = "running"
           /\ Agrees(stack, tok) /\ Exact(stack, tok) /\ ~Cause(tok'.stream)

LEMMA NulEnds ==
    ASSUME NEW t, Sound(Char, t), t.cursor >= 1
    PROVE  t.has_token <=> t.token # NUL
<1>1. t.stream \in Seq(Char \cup {EOF}) /\ t.cursor \in 1 .. Len(t.stream)
  BY StreamTyped
<1>2. t.stream[t.cursor] \in Char \cup {EOF}
  BY <1>1
<1>3. t.token = Letter(t.stream[t.cursor]) /\ (t.has_token <=> t.stream[t.cursor] # EOF)
  BY <1>1 DEF Sound
<1> QED
  BY <1>2, <1>3, CharsAre DEF Letter

LEMMA Clean ==
    ASSUME NEW t, Sound(Char, t), t.cursor >= 1, ~Cause(t.stream)
    PROVE  /\ t.has_token => ~Stumbles(Conf(t), t.token)
           /\ t.token \in {"\t", "\r"} => Conf(t).phase \notin {"int", "frac"}
           /\ ~t.has_token => Complete(Conf(t)) /\ Conf(t).phase # "comment"
  BY CauseHere

LEMMA ReadClean ==
    ASSUME scenario.letters \in SUBSET Char, NEW t, Sound(Char, t), NEW u \in Reads(t),
           ~Cause(u.stream)
    PROVE  ~Cause(t.stream)
  BY ReadsSound, CauseKept DEF Reads

LEMMA Foundation ==
    ASSUME Founded
    PROVE  /\ scenario.letters \in SUBSET Char /\ CommentLetters \in SUBSET Char
           /\ Sound(Char, tok) /\ tok.cursor >= 1 /\ ~Cause(tok.stream)
           /\ tok.has_token => ~Stumbles(Conf(tok), tok.token)
           /\ tok.token \in {"\t", "\r"} => Conf(tok).phase \notin {"int", "frac"}
           /\ ~tok.has_token => Complete(Conf(tok)) /\ Conf(tok).phase # "comment"
           /\ tok.has_token <=> tok.token # NUL
<1>1. /\ scenario.letters \in SUBSET Char /\ CommentLetters \in SUBSET Char
      /\ Sound(Char, tok) /\ Sound(Char, tok')
  BY ScenarioLetters DEF Founded, ReadInv
<1>2. tok.cursor >= 1
  BY Here DEF Founded
<1>3. ~Cause(tok.stream)
  BY <1>1, CauseKept DEF Founded
<1> QED
  BY <1>1, <1>2, <1>3, Clean, NulEnds

LEMMA Paying ==
    ASSUME result = "running", NEW t
    PROVE  /\ Fail(t) /\ TooLong => Pays
           /\ \A s : Go(t, s) /\ Exact(s, t) => Pays
  BY DEF Fail, Go, Pays

LEMMA Vacuous ==
    ASSUME NEW s, s # <<>>,
           Head(s).fn \notin {"key", "table", "barekey", "value", "number", "whitespace"},
           NEW t
    PROVE  Exact(s, t) /\ Knowing(s, t)
  BY DEF Exact, Knowing, Has

LEMMA OnBlank ==
    ASSUME NEW S, NEW s \in Seq(S), NEW t, Knowing(s, t)
    PROVE  Exact(<<Whitespace>> \o s, t)
<1>1. PICK r : r = <<Whitespace>> \o s
  OBVIOUS
<1>2. r # <<>> /\ Head(r) = Whitespace /\ Tail(r) = s
  BY <1>1, HeadIs
<1>3. Head(r).fn = "whitespace"
  BY <1>2 DEF Whitespace
<1>4. Knowing(r, t)
  BY <1>2, <1>3 DEF Knowing, Has
<1> QED
  BY <1>1, <1>2, <1>4 DEF Exact

LEMMA OnFrame ==
    ASSUME NEW S, NEW s \in Seq(S), NEW g, g.fn # "whitespace", NEW t, Has(g, t)
    PROVE  Exact(<<g>> \o s, t)
<1>1. PICK r : r = <<g>> \o s
  OBVIOUS
<1>2. r # <<>> /\ Head(r) = g
  BY <1>1, HeadIs
<1> QED
  BY <1>1, <1>2 DEF Exact, Knowing

LEMMA EnclosesKnown ==
    ASSUME NEW b, NEW n, Encloses(b, n), NEW t, n = <<>> => Settled(t).phase # "start"
    PROVE  Exact(b, t)
<1>1. n \in Seq(Levels) /\ <<>> \in Seq(Fixed)
  BY EnclosesTyped
<1>2. CASE n = <<>>
  <2>1. b = <<Whitespace>> \o <<>>
    <3>1. PICK w : w = <<Whitespace>>
      OBVIOUS
    <3>2. w = w \o <<>>
      BY <3>1
    <3> QED
      BY <1>2, <3>1, <3>2, EnclosesNone
  <2>2. Knowing(<<>>, t)
    BY <1>2 DEF Knowing
  <2> QED
    BY <1>1, <2>1, <2>2, OnBlank
<1>3. CASE n # <<>>
  <2>1. PICK m, l : m \in Seq(Levels) /\ l \in Levels /\ n = Append(m, l)
    BY <1>1, <1>3, LastLevel
  <2>2. PICK a \in Seq(Fixed) : Encloses(a, m) /\ b = Frame(l) \o a
    BY <2>1, EnclosedIn
  <2>3. CASE l.kind = "array"
    <3>1. PICK k : k = Array(FALSE, l.size + 1)
      OBVIOUS
    <3>2. k.fn = "array" /\ b = <<k>> \o a
      BY <2>2, <2>3, <3>1 DEF Array, Frame
    <3> QED
      BY <2>2, <3>2, OnFrame DEF Has
  <2>4. CASE l.kind # "array"
    <3>1. PICK w, i : w = Whitespace /\ i = Inline(FALSE, FALSE) /\ w \in Fixed /\ i \in Fixed
      BY ConstantFrames
    <3>2. PICK r : r = <<i>> \o a
      OBVIOUS
    <3>3. r \in Seq(Fixed) /\ r # <<>> /\ Head(r) = i
      <4>1. i \in Fixed /\ a \in Seq(Fixed)
        BY <3>1
      <4> QED
        BY <3>2, <4>1, OnTop
    <3>4. i.fn = "inline"
      BY <3>1 DEF Inline
    <3>5. Knowing(r, t)
      BY <3>3, <3>4 DEF Knowing, Has
    <3>6. (<<w>> \o <<i>>) \o a = <<w>> \o r
      BY <2>2, <3>1, <3>2, TwoOnTop
    <3>7. b = <<w>> \o r
      BY <2>2, <2>4, <3>1, <3>6 DEF Frame
    <3> QED
      BY <3>1, <3>3, <3>5, <3>7, OnBlank
  <2> QED
    BY <2>3, <2>4
<1> QED
  BY <1>2, <1>3

\* Behind a value, or a header, and between two values.
LEMMA QuietMisses ==
    ASSUME NEW t, Quiet(t), t.has_token, Stumbles(Settled(t), t.token)
    PROVE  Stumbles(Conf(t), t.token)
  BY FinishedMoves DEF Quiet, Settled, Stumbles

LEMMA NestSettles ==
    ASSUME NEW t, Settled(t).nest # <<>>
    PROVE  ~Complete(Conf(t))
<1>1. PICK c, d : c = Conf(t) /\ d = Settled(t)
  OBVIOUS
<1>2. c.nest = <<>> => d.nest = <<>>
  <2>1. SUFFICES ASSUME c.nest = <<>> PROVE d.nest = <<>>
    OBVIOUS
  <2>2. CASE c.phase \in {"int", "frac"}
    <3>1. d = To(c, "after")
      BY <1>1, <2>1, <2>2 DEF Settled, Finished, ValueEnd
    <3> QED
      BY <2>1, <3>1 DEF To, Config
  <2>3. CASE c.phase \notin {"int", "frac"}
    BY <1>1, <2>1, <2>3 DEF Settled, Finished
  <2> QED
    BY <2>2, <2>3
<1> QED
  BY <1>1, <1>2 DEF Complete

\* Where a line starts no number stands.
LEMMA StartSettles ==
    ASSUME NEW t
    PROVE  /\ Settled(t).phase = "start" <=> Conf(t).phase = "start"
           /\ Settled(t).phase = "start" => Settled(t) = Conf(t)
<1>1. PICK c, d : c = Conf(t) /\ d = Settled(t)
  OBVIOUS
<1>2. c.phase \in {"int", "frac"} => d.phase \in {"after", "in"}
  BY <1>1 DEF Settled, Finished, ValueEnd, To, SetTop, Config
<1>3. c.phase \notin {"int", "frac"} => d = c
  BY <1>1 DEF Settled, Finished
<1> QED
  BY <1>1, <1>2, <1>3

\* White space hides nothing, but in the first line.
LEMMA BlankStarts ==
    ASSUME NEW t, Sound(Char, t), t.cursor >= 1, t.has_token, t.token \in Blank,
           NEW u, Consumed(t, u), LineStarts(t)
    PROVE  LineStarts(u)
<1>1. /\ u.prev = t.token /\ u.cursor = t.cursor + 1 /\ KeepsText(t, u)
      /\ (t.newline => u.newline)
  BY DEF Consumed, OnBlankLine, Blank, is_whitespace
<1>2. t.cursor \in Nat /\ t.cursor <= Len(t.stream) /\ Len(t.stream) \in Nat
  BY StreamTyped
<1>3. CASE t.newline /\ t.prev \in Blank \cup {"\n"}
  BY <1>1, <1>3 DEF LineStarts
<1>4. CASE \A i \in 1 .. t.cursor - 1 : t.stream[i] \in Blank
  <2>1. t.stream[t.cursor] = t.token
    BY <1>2 DEF Sound, Letter
  <2>2. ASSUME NEW i \in 1 .. u.cursor - 1 PROVE u.stream[i] \in Blank
    <3>1. i \in 1 .. Len(t.stream) /\ (i = t.cursor \/ i \in 1 .. t.cursor - 1)
      BY <1>1, <1>2
    <3>2. u.stream[i] = t.stream[i]
      BY <1>1, <3>1 DEF KeepsText
    <3> QED
      BY <1>4, <2>1, <3>1, <3>2
  <2>3. u.cursor # 1
    BY <1>1, <1>2
  <2> QED
    BY <2>2, <2>3 DEF LineStarts
<1> QED
  BY <1>3, <1>4 DEF LineStarts

LEMMA BlankKnown ==
    ASSUME NEW s, NEW t, Sound(Char, t), t.cursor >= 1, Base_agrees(s, t), Steady(s),
           t.has_token, t.token \in Blank, NEW u, Consumed(t, u), Knowing(s, t)
    PROVE  Knowing(s, u)
<1>1. Agrees(s, t)
  BY DEF Agrees
<1>2. PICK c : c = Conf(t)
  OBVIOUS
<1>3. Conf(u) = Move(c, t.token, TRUE) /\ t.token \notin {".", "=", "]"}
  BY <1>2 DEF Consumed, Blank
<1>4. CASE s = <<>>
  <2>1. Top_agrees(s, t)
    BY <1>1, <1>4, Knows
  <2>2. PICK d : d = Settled(t)
    OBVIOUS
  <2>3. Conf(u) = Move(d, t.token, TRUE)
    BY <2>1, <2>2, QuietConsumed DEF Top_agrees
  <2>4. d.phase = "start" \/ d.phase = "after"
    BY <2>1, <2>2 DEF Top_agrees
  <2>5. Conf(u) = d
    BY <2>3, <2>4, MoveStart, MoveAfter
  <2>6. d.phase = "start" => LineStarts(u)
    BY <1>4, <2>2, BlankStarts DEF Knowing
  <2> QED
    BY <1>4, <2>5, <2>6, StartSettles DEF Knowing
<1>5. CASE s # <<>> /\ Head(s).fn \in {"key", "table"}
  <2>1. Key_agrees(s, t)
    BY <1>1, <1>5, Knows
  <2>2. PICK g : g = Head(s)
    OBVIOUS
  <2>3. g.expecting
    BY <1>3, <2>1, <2>2 DEF Key_agrees, End
  <2>4. Begins(g, c)
    BY <1>2, <2>1, <2>2, <2>3 DEF Key_agrees
  <2>5. c.phase \notin {"start", "in"}
    BY <1>2, <1>5, <2>2, <2>3 DEF Knowing, Has, Opening
  <2>6. c.phase = "segment" \/ c.phase = "header"
    BY <2>4, <2>5 DEF Begins
  <2>7. Conf(u).phase = "segment"
    <3>1. CASE c.phase = "segment"
      BY <1>3, <3>1, MoveSegment
    <3>2. CASE c.phase = "header"
      <4>1. Conf(u) = Config("segment", "table", c.nest)
        BY <1>3, <3>2, MoveHeader
      <4> QED
        BY <4>1 DEF Config
    <3> QED
      BY <2>6, <3>1, <3>2
  <2>8. Opening(u)
    BY <2>7 DEF Opening
  <2> QED
    BY <1>5, <2>8 DEF Knowing, Has
<1>6. CASE s # <<>> /\ Head(s).fn = "barekey"
  <2>1. BareKey_agrees(s, t) /\ Head(s).done
    BY <1>1, <1>6, Knows DEF Steady
  <2>2. Head(s).idx # 0 /\ (c.phase = "bare" \/ c.phase = "dot")
    BY <1>2, <2>1 DEF BareKey_agrees, Segment_agrees, Goes
  <2>3. Conf(u) = Config("dot", c.form, c.nest)
    BY <1>3, <2>2, MoveBare
  <2>4. Conf(u).phase = "dot"
    BY <2>3 DEF Config
  <2> QED
    BY <1>6, <2>2, <2>4 DEF Knowing, Has
<1>7. CASE s # <<>> /\ Head(s).fn = "value"
  <2>1. Value_agrees(s, t)
    BY <1>1, <1>7, Knows
  <2>2. Conf(u) = c
    BY <1>2, <1>3, <2>1, ReadyMoves DEF Value_agrees
  <2>3. c.phase # "in"
    BY <1>2, <1>7 DEF Knowing, Has
  <2> QED
    BY <1>7, <2>2, <2>3 DEF Knowing, Has
<1>8. CASE s # <<>> /\ Head(s).fn \in {"array", "inline"}
  BY <1>8, Vacuous
<1> QED
  BY <1>4, <1>5, <1>6, <1>7, <1>8 DEF Steady

LEMMA WhitespaceExact ==
    ASSUME Founded, WhitespaceStep
    PROVE  Pays
<1>1. result = "running" /\ stack # <<>> /\ f.fn = "whitespace" /\ Exact(stack, tok)
      /\ Agrees(stack, tok)
  BY DEF WhitespaceStep, In, Founded
<1>2. Steady(Below) /\ Base_agrees(Below, tok) /\ Knowing(Below, tok)
  BY <1>1, Knows DEF f, Below, Exact
<1>3. CASE tok.has_token /\ is_whitespace(tok.token)
  <2>1. PICK u \in Reads(tok) : Go(u, stack)
    BY <1>3 DEF WhitespaceStep, Next1
  <2>2. tok.token \in Blank /\ tok.token # NUL
    BY <1>3 DEF is_whitespace, Blank, NUL
  <2>3. Knowing(Below, u)
    BY <1>2, <1>3, <2>1, <2>2, Foundation, LetterConsumed, BlankKnown
  <2>4. Knowing(stack, u)
    BY <1>1 DEF Knowing, Has, f
  <2>5. Exact(stack, u)
    BY <2>3, <2>4 DEF Exact, Below
  <2> QED
    BY <1>1, <2>1, <2>5, Paying
<1>4. CASE ~(tok.has_token /\ is_whitespace(tok.token))
  <2>1. Go(tok, Below)
    BY <1>4 DEF WhitespaceStep, Return
  <2>2. Below # <<>> => Head(Below).fn # "whitespace"
    BY <1>2 DEF Steady
  <2>3. Exact(Below, tok)
    BY <1>2, <2>2 DEF Exact
  <2> QED
    BY <1>1, <2>1, <2>3, Paying
<1> QED
  BY <1>3, <1>4

\* A line end has been read where statements are.
LEMMA LineKnown ==
    ASSUME scenario.letters \in SUBSET Char, NEW t, Sound(Char, t), NEW n \in AtNewline(t),
           NEW u \in Reads(n)
    PROVE  Exact(<<>>, u)
<1>1. u.newline /\ u.prev = "\n"
  BY NewlineRead DEF is_newline
<1> QED
  BY <1>1 DEF Exact, Knowing, LineStarts

LEMMA CommentExact ==
    ASSUME Founded, CommentStep
    PROVE  Pays
<1>1. /\ result = "running" /\ stack # <<>> /\ f.fn = "comment" /\ tok.has_token
      /\ Comment_agrees(stack, tok) /\ ReadInv
  <2>1. stack # <<>> /\ f.fn = "comment" /\ tok.has_token
    BY DEF CommentStep, Loop, In
  <2> QED
    BY <2>1, Knows DEF f, Founded
<1>2. /\ scenario.letters \in SUBSET Char /\ CommentLetters \in SUBSET Char
      /\ Sound(Char, tok) /\ tok.cursor >= 1
  BY Foundation
<1>3. PICK r \in ReadsFrom(tok, CommentLetters) :
          \/ \E n \in AtNewline(r) : \E t \in Reads(n) : Return(t)
          \/ \E n \in NotNewline(r) : IF is_control(n.token) THEN Fail(n) ELSE Go(n, stack)
  BY DEF CommentStep
<1>4. Consumed(tok, r)
  BY <1>1, <1>2, <1>3, ReadsConsume
<1>5. PICK c, b : c = Conf(r) /\ b = Below
  OBVIOUS
<1>6. Sound(Char, r) /\ r.cursor >= 1
  <2>1. r.cursor = tok.cursor + 1 /\ Sound(Char, r)
    BY <1>4 DEF Consumed
  <2> QED
    BY <1>2, <2>1, StreamTyped
<1>7. c.phase = "comment" /\ ((b = <<>> /\ c.nest = <<>>) \/ Around_array(b, c))
  BY <1>1, <1>3, <1>5, InComment
<1>8. ASSUME NEW n \in AtNewline(r), NEW u \in Reads(n), Go(u, b)
      PROVE  Pays
  <2>1. CASE b = <<>>
    <3>1. Exact(<<>>, u)
      BY <1>2, <1>6, <1>8, LineKnown
    <3> QED
      BY <1>1, <1>8, <2>1, <3>1, Paying
  <2>2. CASE Around_array(b, c)
    <3>1. b # <<>> /\ Head(b).fn = "array"
      BY <2>2 DEF Around_array
    <3>2. Exact(b, u)
      BY <3>1, Vacuous
    <3> QED
      BY <1>1, <1>8, <3>2, Paying
  <2> QED
    BY <1>7, <2>1, <2>2
<1>9. ASSUME NEW n \in NotNewline(r), ~is_control(n.token), Go(n, stack)
      PROVE  Pays
  <2>1. Exact(stack, n)
    BY <1>1, Vacuous DEF f
  <2> QED
    BY <1>1, <1>9, <2>1, Paying
<1>10. ASSUME NEW n \in NotNewline(r), is_control(n.token), Fail(n)
       PROVE  Pays
  <2>1. ~Cause(n.stream)
    BY <1>10 DEF Fail, Founded
  <2>2. n = r /\ r.token \notin {"\n", "\r"}
    BY <1>2, <1>6, <1>10, <2>1, NotNewlineStays
  <2>3. r.token = "x" \/ (r.token = NUL /\ ~r.has_token)
    <3>1. r.token = NUL => ~r.has_token
      BY <1>6, NulEnds
    <3> QED
      BY <1>10, <2>2, <3>1 DEF is_control
  <2>4. r.token = "x" => r.has_token
    BY <1>6, SoundToken DEF NUL
  <2>5. r.token = "x" => Stumbles(c, r.token)
    BY <1>7, OthersMiss
  <2> QED
    BY <1>5, <1>6, <1>7, <2>1, <2>2, <2>3, <2>4, <2>5, Clean
<1> QED
  BY <1>3, <1>5, <1>8, <1>9, <1>10 DEF Return

\* A key or header that is read.
LEMMA KeyRuns ==
    ASSUME Founded, NEW fn \in {"key", "table"}, In(fn)
    PROVE  /\ stack \in Seq(Fixed) /\ stack # <<>> /\ Below \in Seq(Fixed) /\ f \in Fixed
           /\ f.fn = fn /\ Has(f, tok) /\ Knowing(stack, tok) /\ result = "running"
           /\ Leads(f, Below, Conf(tok).nest)
           /\ f.expecting => Begins(f, Conf(tok))
           /\ ~f.expecting => Goes(f, Conf(tok)) /\ tok.token \in {".", End(f)}
<1>1. /\ stack \in Seq(Fixed) /\ stack # <<>> /\ Below \in Seq(Fixed) /\ f \in Fixed
      /\ f.fn = fn
  BY Running DEF Founded
<1>2. Key_agrees(stack, tok)
  BY <1>1, Knows DEF f, Founded
<1>3. Knowing(stack, tok) /\ Has(f, tok)
  BY <1>1 DEF Founded, Exact, Knowing, f
<1> QED
  BY <1>1, <1>2, <1>3 DEF Key_agrees, f, Below, Founded

\* What may not come where a segment starts.
LEMMA BeginsSafely ==
    ASSUME Founded, NEW g, Begins(g, Conf(tok))
    PROVE  /\ tok.token \notin {".", "=", "]"}
           /\ Opening(tok) => tok.has_token /\ tok.token \in Blank \cup Bare
<1>1. PICK c : c = Conf(tok)
  OBVIOUS
<1>2. /\ tok.has_token => ~Stumbles(c, tok.token)
      /\ ~tok.has_token => Complete(c)
      /\ tok.has_token <=> tok.token # NUL
  BY <1>1, Foundation
<1>3. ASSUME tok.token \in {".", "=", "]"} PROVE FALSE
  <2>1. tok.has_token /\ tok.token \notin Blank \cup Bare
    BY <1>2, <1>3 DEF NUL, Blank, Bare
  <2>2. tok.token \notin {"[", "#", "\n", "\r", "}"}
    BY <1>3
  <2>3. Stumbles(c, tok.token)
    BY <1>1, <2>1, <2>2, BeginsMisses
  <2> QED
    BY <1>2, <2>1, <2>3
<1>4. ASSUME Opening(tok) PROVE tok.has_token /\ tok.token \in Blank \cup Bare
  <2>1. tok.has_token
    BY <1>1, <1>2, <1>4 DEF Begins, Complete, Opening
  <2>2. tok.token \notin Blank \cup Bare => Stumbles(c, tok.token)
    BY <1>1, <1>4, BeginsMisses DEF Opening
  <2> QED
    BY <1>2, <2>1, <2>2
<1> QED
  BY <1>3, <1>4

LEMMA SegmentExact ==
    ASSUME Founded, NEW fn \in {"key", "table"}, In(fn), tok.has_token,
           NEW end, end = End(f), Segment(end)
    PROVE  Pays
<1>1. PICK g, b, c : g = f /\ b = Below /\ c = Conf(tok)
  OBVIOUS
<1>2. /\ stack \in Seq(Fixed) /\ result = "running" /\ Knowing(stack, tok) /\ Has(g, tok)
      /\ g \in Fixed /\ g.fn \in {"key", "table"} /\ b \in Seq(Fixed)
      /\ g.expecting => Begins(g, c)
      /\ ~g.expecting => Goes(g, c) /\ tok.token \in {".", end}
  BY <1>1, KeyRuns
<1>3. CASE tok.token = "."
  <2>1. ~g.expecting
    BY <1>1, <1>2, <1>3, BeginsSafely
  <2>2. PICK k : k = [g EXCEPT !.expecting = TRUE]
    OBVIOUS
  <2>3. k.fn = g.fn
    BY <1>2, <2>2, KeyAgain
  <2>4. PICK u \in Reads(tok) : Go(u, <<k>> \o b)
    BY <1>1, <1>3, <2>1, <2>2 DEF Segment, Next1, is_whitespace
  <2>5. Consumed(tok, u)
    BY <1>3, <2>4, Foundation, LetterConsumed DEF NUL
  <2>6. Conf(u) = Move(c, ".", TRUE)
    BY <1>1, <1>3, <2>5 DEF Consumed
  <2>7. c.phase = "bare" \/ c.phase = "dot"
    BY <1>2, <2>1 DEF Goes
  <2>8. Conf(u) = Config("segment", c.form, c.nest)
    BY <2>6, <2>7, MoveBare
  <2>9. Conf(u).phase = "segment"
    BY <2>8 DEF Config
  <2>10. Has(k, u)
    BY <1>2, <2>3, <2>9 DEF Has, Opening
  <2>11. Exact(<<k>> \o b, u)
    BY <1>2, <2>3, <2>10, OnFrame
  <2> QED
    BY <1>2, <2>4, <2>11, Paying
<1>4. CASE is_whitespace(tok.token)
  <2>1. Go(tok, <<Whitespace>> \o stack)
    BY <1>4 DEF Segment, is_whitespace
  <2>2. Exact(<<Whitespace>> \o stack, tok)
    BY <1>2, OnBlank
  <2> QED
    BY <1>2, <2>1, <2>2, Paying
<1>5. CASE tok.token # "." /\ ~is_whitespace(tok.token)
  <2>1. PICK a, k : a = BareKey(end) /\ k = [g EXCEPT !.expecting = FALSE]
    OBVIOUS
  <2>2. k \in Fixed /\ a \in Fixed
    <3>1. End(g) \in {"=", "]"}
      BY DEF End
    <3> QED
      BY <1>1, <1>2, <2>1, <3>1, KeyAgain, ConstantFrames
  <2>3. a.fn = "barekey" /\ a.idx = 0
    BY <2>1 DEF BareKey
  <2>4. Go(tok, <<a, k>> \o b)
    BY <1>1, <1>5, <2>1 DEF Segment
  <2>5. g.expecting
    BY <1>1, <1>2, <1>5 DEF Segment
  <2>6. Opening(tok)
    BY <1>2, <2>5 DEF Has
  <2>7. Has(a, tok)
    BY <2>3, <2>6 DEF Has
  <2>8. PICK r \in Seq(Fixed) : r = <<k>> \o b
    BY <1>2, <2>2, OnTop
  <2>9. <<a, k>> \o b = <<a>> \o r
    BY <1>2, <2>2, <2>8, TwoOnTop
  <2>10. Exact(<<a>> \o r, tok)
    BY <2>3, <2>7, <2>8, OnFrame
  <2> QED
    BY <1>2, <2>4, <2>9, <2>10, Paying
<1> QED
  BY <1>3, <1>4, <1>5

\* The text does not end in a key or header, nor does either end at once.
LEMMA KeyGoesOn ==
    ASSUME Founded, NEW fn \in {"key", "table"}, In(fn)
    PROVE  /\ tok.has_token
           /\ tok.token = End(f) => ~f.expecting
<1>1. PICK g : g = f
  OBVIOUS
<1>2. /\ Has(g, tok) /\ g.fn \in {"key", "table"}
      /\ g.expecting => Begins(g, Conf(tok))
      /\ ~g.expecting => tok.token \in {".", End(g)}
  BY <1>1, KeyRuns
<1>3. End(g) \in {"=", "]"}
  BY DEF End
<1>4. tok.has_token
  <2>1. CASE g.expecting
    BY <1>2, <2>1, BeginsSafely DEF Has
  <2>2. CASE ~g.expecting
    BY <1>2, <1>3, <2>2, Foundation DEF NUL
  <2> QED
    BY <2>1, <2>2
<1> QED
  BY <1>1, <1>2, <1>3, <1>4, BeginsSafely

LEMMA KeyExact ==
    ASSUME Founded, KeyStep
    PROVE  Pays
<1>1. In("key")
  BY DEF KeyStep, Ended, Loop
<1>2. PICK g, b, c : g = f /\ b = Below /\ c = Conf(tok)
  OBVIOUS
<1>3. /\ g.fn = "key" /\ result = "running" /\ Leads(g, b, c.nest)
      /\ ~g.expecting => Goes(g, c)
  BY <1>1, <1>2, KeyRuns
<1>4. End(g) = "=" /\ Form(g) = "key"
  BY <1>3, FormIs
<1>5. tok.has_token /\ (tok.token = "=" => ~g.expecting)
  BY <1>1, <1>2, <1>4, KeyGoesOn
<1>6. CASE Segment("=")
  BY <1>1, <1>2, <1>4, <1>5, <1>6, SegmentExact
<1>7. CASE tok.token = "=" /\ ~g.expecting /\ Next1(b)
  <2>1. PICK u \in Reads(tok) : Go(u, b)
    BY <1>7 DEF Next1
  <2>2. Consumed(tok, u)
    BY <1>7, <2>1, Foundation, LetterConsumed DEF NUL
  <2>3. (c.phase = "bare" \/ c.phase = "dot") /\ c.form = "key"
    BY <1>3, <1>4, <1>7 DEF Goes
  <2>4. Conf(u) = Config("value", "key", c.nest)
    BY <1>2, <1>7, <2>2, <2>3, MoveBare DEF Consumed
  <2>5. Conf(u).phase = "value"
    BY <2>4 DEF Config
  <2>6. PICK a : b = <<Value(EndOf(c.nest))>> \o a /\ Encloses(a, c.nest)
    BY <1>3 DEF Leads
  <2>7. PICK v : v = Value(EndOf(c.nest))
    OBVIOUS
  <2>8. a \in Seq(Fixed) /\ b = <<v>> \o a /\ v.fn = "value"
    BY <2>6, <2>7, EnclosesTyped DEF Value
  <2>9. Has(v, u)
    BY <2>5, <2>8 DEF Has
  <2>10. Exact(b, u)
    BY <2>8, <2>9, OnFrame
  <2> QED
    BY <1>3, <2>1, <2>10, Paying
<1> QED
  BY <1>2, <1>5, <1>6, <1>7 DEF KeyStep, Ended, Loop

\* A header is over.
LEMMA HeaderKnown ==
    ASSUME NEW u, NEW d, Conf(u) = Config("after", d, <<>>)
    PROVE  Exact(<<>>, u)
<1>1. Conf(u).phase = "after"
  BY DEF Config
<1> QED
  BY <1>1, StartSettles DEF Exact, Knowing

LEMMA TableExact ==
    ASSUME Founded, TableStep
    PROVE  Pays
<1>1. In("table")
  BY DEF TableStep, Ended, Loop
<1>2. PICK g, b, c : g = f /\ b = Below /\ c = Conf(tok)
  OBVIOUS
<1>3. /\ g.fn = "table" /\ result = "running" /\ Leads(g, b, c.nest)
      /\ ~g.expecting => Goes(g, c)
  BY <1>1, <1>2, KeyRuns
<1>4. End(g) = "]" /\ b = <<>> /\ c.nest = <<>>
  BY <1>3, FormIs DEF Leads
<1>5. tok.has_token /\ (tok.token = "]" => ~g.expecting)
  BY <1>1, <1>2, <1>4, KeyGoesOn
<1>6. CASE Segment("]")
  BY <1>1, <1>2, <1>4, <1>5, <1>6, SegmentExact
<1>7. scenario.letters \in SUBSET Char /\ Sound(Char, tok) /\ tok.cursor >= 1
  BY Foundation
<1>8. ~g.expecting => /\ c.phase = "bare" \/ c.phase = "dot"
                      /\ c.form = IF g.double THEN "arraytable" ELSE "table"
  BY <1>3, FormIs DEF Goes
<1>9. ASSUME tok.token = "]", ~g.expecting, ~g.double, NEW u \in Reads(tok), Go(u, b)
      PROVE  Pays
  <2>1. Consumed(tok, u)
    BY <1>7, <1>9, LetterConsumed DEF NUL
  <2>2. Conf(u) = Config("after", "table", <<>>)
    BY <1>2, <1>4, <1>8, <1>9, <2>1, MoveBare DEF Consumed
  <2>3. Exact(b, u)
    BY <1>4, <2>2, HeaderKnown
  <2> QED
    BY <1>3, <1>9, <2>3, Paying
<1>10. ASSUME tok.token = "]", ~g.expecting, g.double, NEW t \in Reads(tok),
              IF t.token # "]" THEN Fail(t) ELSE \E u \in Reads(t) : Go(u, b)
       PROVE  Pays
  <2>1. Consumed(tok, t)
    BY <1>7, <1>10, LetterConsumed DEF NUL
  <2>2. PICK e : e = Conf(t)
    OBVIOUS
  <2>3. e = Config("close", "arraytable", <<>>)
    BY <1>2, <1>4, <1>8, <1>10, <2>1, <2>2, MoveBare DEF Consumed
  <2>4. e.phase = "close" /\ e.form = "arraytable" /\ e.nest = <<>>
    BY <2>3 DEF Config
  <2>5. Sound(Char, t) /\ t.cursor >= 1
    <3>1. t.cursor = tok.cursor + 1 /\ Sound(Char, t)
      BY <2>1 DEF Consumed
    <3> QED
      BY <1>7, <3>1, StreamTyped
  <2>6. CASE t.token = "]"
    <3>1. PICK u \in Reads(t) : Go(u, b)
      BY <1>10, <2>6
    <3>2. Consumed(t, u)
      BY <1>7, <2>5, <2>6, <3>1, LetterConsumed DEF NUL
    <3>3. Conf(u) = Config("after", "arraytable", <<>>)
      BY <2>2, <2>4, <2>6, <3>2, MoveClose DEF Consumed
    <3>4. Exact(b, u)
      BY <1>4, <3>3, HeaderKnown
    <3> QED
      BY <1>3, <3>1, <3>4, Paying
  <2>7. CASE t.token # "]" /\ Fail(t)
    <3>1. ~Cause(t.stream)
      BY <2>7 DEF Fail, Founded
    <3>2. Stumbles(e, t.token) /\ ~Complete(e)
      BY <2>4, <2>7, OthersMiss DEF Complete
    <3> QED
      BY <2>2, <2>5, <3>1, <3>2, Clean
  <2> QED
    BY <1>10, <2>6, <2>7
<1> QED
  BY <1>2, <1>5, <1>6, <1>9, <1>10 DEF TableStep, Ended, Loop, Next1, Return

LEMMA BareKeyExact ==
    ASSUME Founded, BareKeyStep
    PROVE  Pays
<1>1. In("barekey") /\ ReadInv /\ Agrees(stack, tok) /\ Exact(stack, tok) /\ result = "running"
  BY DEF BareKeyStep, Ended, Loop, Founded
<1>2. /\ stack # <<>> /\ f.fn = "barekey" /\ f \in Fixed /\ Below \in Seq(Fixed)
      /\ BareKey_agrees(stack, tok) /\ Has(f, tok)
  <2>1. stack # <<>> /\ f.fn = "barekey" /\ f \in Fixed /\ Below \in Seq(Fixed)
    BY <1>1, Running
  <2> QED
    BY <1>1, <2>1, Knows DEF f, Exact, Knowing
<1>3. PICK k, r, g, c : k = f /\ r = Below /\ g = Head(r) /\ c = Conf(tok)
  OBVIOUS
<1>4. k \in Fixed /\ k.fn = "barekey" /\ r \in Seq(Fixed) /\ r # <<>> /\ Has(k, tok)
      /\ Segment_agrees(k, g, Tail(r), tok)
  BY <1>2, <1>3 DEF BareKey_agrees, f, Below
<1>5. /\ g.fn \in {"key", "table"} /\ ~g.expecting /\ k.end = End(g)
      /\ k.idx = 0 => ~k.done /\ Begins(g, c) /\ tok.token \notin Blank /\ Opening(tok)
      /\ k.idx # 0 => Goes(g, c)
      /\ k.idx # 0 /\ k.done => c.phase = "dot" \/ tok.token \in Blank
  BY <1>3, <1>4 DEF Segment_agrees, Has
<1>6. tok.has_token
  <2>1. CASE k.idx = 0
    BY <1>3, <1>5, <2>1, BeginsSafely
  <2>2. CASE k.idx # 0
    <3>1. ~Complete(c)
      BY <1>5, <2>2 DEF Goes, Complete
    <3> QED
      BY <1>3, <3>1, Foundation
  <2> QED
    BY <2>1, <2>2
<1>7. ~Stumbles(c, tok.token)
  BY <1>3, <1>6, Foundation
<1>8. CASE IdFull(k.idx) /\ Fail(tok)
  <2>1. k \in [fn : {"barekey"}, end : {"=", "]"}, idx : 0 .. MaxIdLength, done : BOOLEAN]
    BY <1>4 DEF Fixed, Whitespace, Comment
  <2>2. k.idx \in 0 .. MaxIdLength /\ MaxIdLength \in Nat
    BY <2>1, MaxIdAssumption
  <2>3. k.idx = MaxIdLength
    BY <1>8, <2>2 DEF IdFull
  <2>4. TooLong
    BY <1>2, <1>3, <1>4, <2>3 DEF TooLong
  <2> QED
    BY <1>1, <1>8, <2>4, Paying
<1>9. tok.token \in {".", k.end} => k.idx # 0
  <2>1. End(g) \in {"=", "]"}
    BY DEF End
  <2> QED
    BY <1>3, <1>5, <2>1, BeginsSafely
<1>10. CASE Go(tok, r)
  <2>1. Exact(r, tok)
    BY <1>3, <1>4, <1>5 DEF Exact, Knowing, Has
  <2> QED
    BY <1>1, <1>10, <2>1, Paying
<1>11. CASE tok.token \in Blank /\ Go(tok, <<Whitespace, [k EXCEPT !.done = TRUE]>> \o r)
  <2>1. PICK h : /\ h = [k EXCEPT !.done = TRUE] /\ h.fn = "barekey" /\ h.idx = k.idx
                 /\ h \in Fixed
    BY <1>4, BareKeyAgain
  <2>2. k.idx # 0
    BY <1>5, <1>11
  <2>3. Has(h, tok)
    BY <1>11, <2>1, <2>2 DEF Has
  <2>4. PICK s : s = <<h>> \o r
    OBVIOUS
  <2>5. s \in Seq(Fixed) /\ s # <<>> /\ Head(s) = h
    BY <1>4, <2>1, <2>4, OnTop
  <2>6. Exact(<<Whitespace>> \o s, tok)
    BY <2>3, <2>5, OnBlank DEF Knowing
  <2>7. <<Whitespace, h>> \o r = <<Whitespace>> \o s
    <3>1. PICK w \in Fixed : w = Whitespace
      BY ConstantFrames
    <3>2. h \in Fixed /\ r \in Seq(Fixed)
      BY <1>4, <2>1
    <3>3. <<w, h>> \o r = <<w>> \o (<<h>> \o r)
      BY <3>2, TwoOnTop, Zenon
    <3> QED
      BY <2>4, <3>1, <3>3
  <2> QED
    BY <1>1, <1>11, <2>1, <2>6, <2>7, Paying
<1>12. CASE ~k.done /\ Next1(<<[k EXCEPT !.idx = @ + 1]>> \o r)
  <2>1. PICK h : h = [k EXCEPT !.idx = @ + 1]
    OBVIOUS
  <2>2. h.fn = "barekey" /\ h.done = k.done /\ h.idx # 0
    BY <1>4, <2>1, BareKeyAgain
  <2>3. PICK u \in Reads(tok) : Go(u, <<h>> \o r)
    BY <1>12, <2>1 DEF Next1
  <2>4. Has(h, u)
    BY <1>12, <2>2 DEF Has
  <2>5. Exact(<<h>> \o r, u)
    BY <1>4, <2>2, <2>4, OnFrame
  <2> QED
    BY <1>1, <2>3, <2>5, Paying
<1>13. ASSUME tok.token \notin {".", k.end}, tok.token \notin Blank,
              tok.token \in Bare => k.done
       PROVE  FALSE
  <2>1. CASE k.idx = 0
    BY <1>3, <1>5, <1>13, <2>1, BeginsSafely
  <2>2. CASE k.idx # 0
    <3>1. Stumbles(c, tok.token)
      BY <1>5, <1>13, <2>2, GoesMisses
    <3> QED
      BY <1>7, <3>1
  <2> QED
    BY <2>1, <2>2
<1>14. \/ IdFull(k.idx) /\ Fail(tok)
       \/ tok.token \in {".", k.end} /\ k.idx = 0
       \/ Go(tok, r)
       \/ tok.token \in Blank /\ Go(tok, <<Whitespace, [k EXCEPT !.done = TRUE]>> \o r)
       \/ ~k.done /\ Next1(<<[k EXCEPT !.idx = @ + 1]>> \o r)
       \/ /\ tok.token \notin {".", k.end} /\ tok.token \notin Blank
          /\ tok.token \in Bare => k.done
  BY <1>3, <1>6 DEF BareKeyStep, Ended, Return, is_whitespace, is_bare_ascii, Blank
<1> QED
  BY <1>8, <1>9, <1>10, <1>11, <1>12, <1>13, <1>14

\* Without a cause a look for a line end goes on where it was.
LEMMA LooksClean ==
    ASSUME Founded, NEW n \in NotNewline(tok), NEW s,
           Fail(n) \/ Go(n, s) \/ \E u \in Reads(n) : Go(u, s)
    PROVE  n = tok /\ tok.token \notin {"\n", "\r"}
<1>1. scenario.letters \in SUBSET Char /\ Sound(Char, tok)
  BY Foundation
<1>2. Sound(Char, n)
  BY <1>1, NewlinesSound
<1>3. ~Cause(n.stream)
  BY <1>1, <1>2, ReadClean DEF Fail, Go, Founded
<1> QED
  BY <1>1, <1>3, NotNewlineStays

LEMMA ValueExact ==
    ASSUME Founded, ValueStep
    PROVE  Pays
<1>1. In("value") /\ ReadInv /\ Agrees(stack, tok) /\ Exact(stack, tok) /\ result = "running"
  BY DEF ValueStep, Ended, Loop, Founded
<1>2. /\ stack \in Seq(Fixed) /\ stack # <<>> /\ f.fn = "value" /\ Below \in Seq(Fixed)
      /\ Value_agrees(stack, tok) /\ Has(f, tok) /\ Knowing(stack, tok)
  <2>1. stack \in Seq(Fixed) /\ stack # <<>> /\ f.fn = "value" /\ Below \in Seq(Fixed)
    BY <1>1, Running
  <2> QED
    BY <1>1, <2>1, Knows DEF f, Exact, Knowing
<1>3. PICK v, b, c : v = f /\ b = Below /\ c = Conf(tok)
  OBVIOUS
<1>4. /\ Ready(c) /\ b \in Seq(Fixed)
      /\ c.phase = "in" => tok.token \notin Blank \cup {"\n", "\r", "#", "]", ","}
  BY <1>2, <1>3 DEF Value_agrees, Has
<1>5. tok.has_token /\ ~Stumbles(c, tok.token)
  <2>1. ~Complete(c)
    BY <1>4 DEF Ready, Complete
  <2> QED
    BY <1>3, <2>1, Foundation
<1>6. tok.token \in Blank \cup {"1", "[", "{"}
  BY <1>4, <1>5, ReadyMisses
<1>7. AtNewline(tok) = {}
  BY <1>6, AtNewlineIs DEF Blank
<1>8. CASE is_whitespace(tok.token) /\ Go(tok, <<Whitespace>> \o stack)
  <2>1. Exact(<<Whitespace>> \o stack, tok)
    BY <1>2, OnBlank
  <2> QED
    BY <1>1, <1>8, <2>1, Paying
<1>9. ASSUME NEW g, g.fn \in {"lookahead", "array", "inline"}, NEW t, Go(t, <<g>> \o b)
      PROVE  Pays
  <2>1. Exact(<<g>> \o b, t)
    BY <1>4, <1>9, OnFrame DEF Has
  <2> QED
    BY <1>1, <1>9, <2>1, Paying
<1>10. ASSUME NEW n \in NotNewline(tok),
              CASE is_whitespace(n.token) -> Go(n, <<Whitespace>> \o stack)
                [] is_digit(n.token) -> Go(n, <<Lookahead(f.num_end, n.cursor)>> \o Below)
                [] n.token = "[" -> \E t \in Reads(n) : Go(t, <<Array(TRUE, 0)>> \o Below)
                [] n.token = "{" -> \E t \in Reads(n) : Go(t, <<Inline(TRUE, TRUE)>> \o Below)
                [] OTHER -> Fail(n)
       PROVE  Pays
  <2>1. \/ is_whitespace(n.token) /\ Go(n, <<Whitespace>> \o stack)
        \/ Go(n, <<Lookahead(v.num_end, n.cursor)>> \o b)
        \/ \E t \in Reads(n) : Go(t, <<Array(TRUE, 0)>> \o b)
        \/ \E t \in Reads(n) : Go(t, <<Inline(TRUE, TRUE)>> \o b)
        \/ n.token \notin Blank \cup {"1", "[", "{"} /\ Fail(n)
    BY <1>3, <1>10 DEF is_whitespace, is_digit, Blank
  <2>2. /\ Lookahead(v.num_end, n.cursor).fn = "lookahead"
        /\ Array(TRUE, 0).fn = "array" /\ Inline(TRUE, TRUE).fn = "inline"
    BY DEF Lookahead, Array, Inline
  <2>3. n.token \notin Blank \cup {"1", "[", "{"} => ~Fail(n)
    BY <1>6, LooksClean
  <2>4. is_whitespace(n.token) /\ Go(n, <<Whitespace>> \o stack) => Pays
    <3>1. Go(n, <<Whitespace>> \o stack) => n = tok
      BY LooksClean
    <3> QED
      BY <1>8, <3>1
  <2>5. PICK a, i, l : a = Array(TRUE, 0) /\ i = Inline(TRUE, TRUE)
                       /\ l = Lookahead(v.num_end, n.cursor)
    OBVIOUS
  <2>6. {a.fn, i.fn, l.fn} \subseteq {"lookahead", "array", "inline"}
    BY <2>2, <2>5
  <2>7. \A t : Go(t, <<l>> \o b) => Pays
    BY <1>9, <2>6
  <2>8. \A t : Go(t, <<a>> \o b) => Pays
    BY <1>9, <2>6
  <2>9. \A t : Go(t, <<i>> \o b) => Pays
    BY <1>9, <2>6
  <2> QED
    BY <2>1, <2>3, <2>4, <2>5, <2>7, <2>8, <2>9
<1> QED
  BY <1>5, <1>7, <1>10 DEF ValueStep, Ended

LEMMA LookaheadExact ==
    ASSUME Founded, LookaheadStep
    PROVE  Pays
<1>1. /\ stack # <<>> /\ f.fn = "lookahead" /\ Lookahead_agrees(stack, tok)
      /\ ReadInv /\ result = "running"
  BY Knows DEF LookaheadStep, In, f, Founded
<1>2. Sound(Char, tok)
  BY Foundation
<1>3. PICK g, b, p : g = f /\ b = Below /\ p = g.from
  OBVIOUS
<1>4. PICK c : /\ p \in 3 .. Len(tok.stream) /\ tok.stream[p] = "1"
               /\ c = ConfAt(tok.stream, p - 1) /\ Ready(c) /\ Encloses(b, c.nest)
  BY <1>1, <1>3 DEF Lookahead_agrees, f, Below
<1>5. b \in Seq(Fixed) /\ Len(tok.stream) \in Nat
  BY <1>2, <1>4, EnclosesTyped, StreamTyped
<1>6. CASE EnoughSeen
  <2>1. ReadInv' /\ KeepsText(tok, tok') /\ tok'.cursor = p
    BY <1>1, <1>3, <1>6, LookaheadReturns
  <2>2. PICK t, h : t = tok' /\ h = Number(g.num_end)
    OBVIOUS
  <2>3. Go(t, <<h>> \o b)
    BY <1>3, <1>6, <2>2 DEF LookaheadStep, Go
  <2>4. Sound(Char, t) /\ KeepsText(tok, t) /\ t.cursor = p
    BY <2>1, <2>2 DEF ReadInv
  <2>5. p - 1 \in Nat /\ p - 1 <= Len(tok.stream)
    BY <1>4, <1>5
  <2>6. Conf(t) = c
    BY <1>2, <1>4, <2>4, <2>5, ConfKept DEF Conf
  <2>7. h.fn = "number" /\ h.as = "int" /\ c.phase # "int"
    BY <1>4, <2>2 DEF Number, Ready
  <2>8. Has(h, t)
    BY <2>6, <2>7 DEF Has
  <2>9. Exact(<<h>> \o b, t)
    BY <1>5, <2>7, <2>8, OnFrame
  <2> QED
    BY <1>1, <2>3, <2>9, Paying
<1>7. CASE ~EnoughSeen
  <2>1. PICK h : h = [g EXCEPT !.count = @ + 1]
    OBVIOUS
  <2>2. PICK t \in Reads(tok) : Go(t, <<h>> \o b)
    BY <1>3, <1>7, <2>1 DEF LookaheadStep, Next1
  <2>3. h.fn = "lookahead"
    BY <1>1, <1>3, <2>1
  <2>4. Exact(<<h>> \o b, t)
    BY <1>5, <2>3, OnFrame DEF Has
  <2> QED
    BY <1>1, <2>2, <2>4, Paying
<1> QED
  BY <1>6, <1>7

LEMMA NumberExact ==
    ASSUME Founded, NumberStep
    PROVE  Pays
<1>1. In("number") /\ ReadInv /\ Agrees(stack, tok) /\ Exact(stack, tok) /\ result = "running"
  BY DEF NumberStep, Loop, Founded
<1>2. /\ stack # <<>> /\ f.fn = "number" /\ f \in Fixed /\ Below \in Seq(Fixed)
      /\ Number_agrees(stack, tok) /\ Has(f, tok)
  <2>1. stack # <<>> /\ f.fn = "number" /\ f \in Fixed /\ Below \in Seq(Fixed)
    BY <1>1, Running
  <2> QED
    BY <1>1, <2>1, Knows DEF f, Exact, Knowing
<1>3. scenario.letters \in SUBSET Char /\ Sound(Char, tok) /\ tok.cursor >= 1
      /\ (tok.has_token <=> tok.token # NUL)
  BY Foundation
<1>4. PICK g, b, c : g = f /\ b = Below /\ c = Conf(tok)
  OBVIOUS
<1>5. /\ g \in Fixed /\ g.fn = "number" /\ b \in Seq(Fixed) /\ g.as \in {"int", "frac"}
      /\ c.form = "key" /\ g.num_end = EndOf(c.nest) /\ Encloses(b, c.nest)
      /\ \/ g.as = "int" /\ Ready(c) /\ tok.token = "1"
         \/ g.as = c.phase /\ tok.prev = "1"
  <2>1. g.as # "garbage" /\ (g.as = c.phase => tok.prev = "1")
    BY <1>2, <1>4 DEF Has
  <2>2. g.as \in {"int", "frac", "garbage"}
    BY <1>2, <1>4, NumberFrame
  <2> QED
    BY <1>2, <1>4, <2>1, <2>2 DEF Number_agrees, f, Below
<1>6. c.nest \in Seq(Levels)
  BY <1>5, EnclosesTyped
<1>7. tok.token # "1" => g.as = c.phase /\ tok.prev = "1"
  BY <1>5
<1>8. EndOf(c.nest) \cap {"1", "."} = {}
  BY DEF EndOf, TopEnd, ArrayEnd, InlineEnd
\* The number ends.
<1>9. CASE Go(tok, b) /\ (~tok.has_token \/ tok.token \in g.num_end)
  <2>1. tok.token # "1"
    BY <1>3, <1>5, <1>8, <1>9 DEF NUL
  <2>2. c.phase \in {"int", "frac"}
    BY <1>5, <1>7, <2>1
  <2>3. Settled(tok).phase # "start"
    BY <1>4, <2>2, StartSettles
  <2>4. Exact(b, tok)
    BY <1>5, <2>3, EnclosesKnown
  <2> QED
    BY <1>1, <1>9, <2>4, Paying
\* It goes on.
<1>10. ASSUME NEW as \in {"int", "frac"}, NEW h, h = [g EXCEPT !.as = as],
              NEW u, u.prev = "1", Go(u, <<h>> \o b)
       PROVE  Pays
  <2>1. h.fn = "number" /\ h.as = as
    BY <1>5, <1>10, NumberAgain
  <2>2. Has(h, u)
    BY <1>10, <2>1 DEF Has
  <2>3. Exact(<<h>> \o b, u)
    BY <1>5, <2>1, <2>2, OnFrame
  <2> QED
    BY <1>1, <1>10, <2>3, Paying
<1>11. ASSUME tok.has_token, tok.token \notin g.num_end, tok.token # "1",
              tok.token = "." => g.as # "int"
       PROVE  FALSE
  <2>1. g.as = c.phase
    BY <1>7, <1>11
  <2>2. tok.token \notin {"\t", "\r"} /\ ~Stumbles(c, tok.token)
    BY <1>4, <1>5, <1>11, <2>1, Foundation
  <2>3. Stumbles(c, tok.token)
    BY <1>5, <1>6, <1>11, <2>1, <2>2, NumberMisses
  <2> QED
    BY <2>2, <2>3
<1>12. ASSUME tok.has_token, tok.token = ".", g.as = "int", NEW t \in Reads(tok)
       PROVE  /\ t.prev_prev = "1" /\ Sound(Char, t) /\ t.cursor >= 1
              /\ Conf(t).phase = "point"
  <2>1. c.phase = "int" /\ tok.prev = "1"
    BY <1>7, <1>12
  <2>2. Consumed(tok, t)
    BY <1>3, <1>12, LetterConsumed DEF NUL
  <2>3. Conf(t) = Config("point", c.form, c.nest)
    BY <1>4, <1>12, <2>1, <2>2, MoveNumber DEF Consumed
  <2>4. Conf(t).phase = "point"
    BY <2>3 DEF Config
  <2>5. t.cursor = tok.cursor + 1 /\ Sound(Char, t) /\ t.prev_prev = "1"
    BY <2>1, <2>2 DEF Consumed
  <2> QED
    BY <1>3, <2>4, <2>5, StreamTyped
<1>13. ASSUME tok.has_token, tok.token = ".", g.as = "int", NEW t \in Reads(tok), Fail(t),
              t.token # "1"
       PROVE  FALSE
  <2>1. Sound(Char, t) /\ t.cursor >= 1 /\ Conf(t).phase = "point"
    BY <1>12, <1>13
  <2>2. ~Cause(t.stream)
    BY <1>13 DEF Fail, Founded
  <2>3. Stumbles(Conf(t), t.token) /\ ~Complete(Conf(t))
    BY <1>13, <2>1, OthersMiss DEF Complete
  <2> QED
    BY <2>1, <2>2, <2>3, Clean
<1>14. ASSUME tok.has_token, tok.token = ".", g.as = "int", NEW t \in Reads(tok), t.token = "1",
              NEW u \in Reads(t),
              Go(u, <<[g EXCEPT !.as = IF @ = "int" THEN "frac" ELSE "garbage"]>> \o b)
       PROVE  Pays
  <2>1. Sound(Char, t)
    BY <1>12, <1>14
  <2>2. u.prev = "1"
    BY <1>3, <1>14, <2>1, LetterConsumed DEF Consumed, NUL
  <2>3. PICK h : h = [g EXCEPT !.as = "frac"]
    OBVIOUS
  <2>4. Go(u, <<h>> \o b)
    BY <1>14, <2>3
  <2> QED
    BY <1>10, <2>2, <2>3, <2>4
<1>15. ASSUME tok.token = "1", NEW u \in Reads(tok),
              Go(u, <<[g EXCEPT !.as = IF is_digit(tok.token) THEN @ ELSE "garbage"]>> \o b)
       PROVE  Pays
  <2>1. u.prev = "1"
    BY <1>3, <1>15, LetterConsumed DEF Consumed, NUL
  <2>2. PICK as, h : as = g.as /\ h = [g EXCEPT !.as = as]
    OBVIOUS
  <2>3. Go(u, <<h>> \o b)
    BY <1>15, <2>2 DEF is_digit
  <2> QED
    BY <1>5, <1>10, <2>1, <2>2, <2>3
<1>16. CASE ~tok.has_token \/ tok.token \in f.num_end
  <2>1. IF f.as = "garbage" THEN Fail(tok) ELSE Return(tok)
    BY <1>16 DEF NumberStep, Loop
  <2> QED
    BY <1>4, <1>5, <1>9, <1>16, <2>1 DEF Return
<1>17. CASE tok.has_token /\ tok.token \notin f.num_end /\ tok.token = "."
  <2>1. g.as = "int"
    BY <1>4, <1>11, <1>17
  <2>2. PICK t \in Reads(tok) :
           IF is_digit(t.token) /\ is_digit(t.prev_prev)
           THEN \E u \in Reads(t) :
                   Go(u, <<[f EXCEPT !.as = IF @ = "int" THEN "frac" ELSE "garbage"]>>
                           \o Below)
           ELSE Fail(t)
    BY <1>17 DEF NumberStep, Loop
  <2>3. t.prev_prev = "1"
    BY <1>12, <1>17, <2>1
  <2>4. CASE t.token = "1"
    <3>1. PICK u \in Reads(t) :
             Go(u, <<[f EXCEPT !.as = IF @ = "int" THEN "frac" ELSE "garbage"]>> \o Below)
      BY <2>2, <2>3, <2>4 DEF is_digit
    <3> QED
      BY <1>4, <1>14, <1>17, <2>1, <2>4, <3>1
  <2>5. CASE t.token # "1"
    <3>1. Fail(t)
      BY <2>2, <2>5 DEF is_digit
    <3> QED
      BY <1>13, <1>17, <2>1, <2>5, <3>1
  <2> QED
    BY <2>4, <2>5
<1>18. CASE tok.has_token /\ tok.token \notin f.num_end /\ tok.token # "."
  <2>1. Next1(<<[f EXCEPT !.as = IF is_digit(tok.token) THEN @ ELSE "garbage"]>> \o Below)
    BY <1>18 DEF NumberStep, Loop
  <2>2. PICK u \in Reads(tok) :
           Go(u, <<[f EXCEPT !.as = IF is_digit(tok.token) THEN @ ELSE "garbage"]>> \o Below)
    BY <2>1 DEF Next1
  <2>3. tok.token = "1"
    BY <1>4, <1>11, <1>18
  <2> QED
    BY <1>4, <1>15, <2>2, <2>3
<1> QED
  BY <1>16, <1>17, <1>18

\* Where a value or a header may be over there is no error either.
LEMMA SettledClean ==
    ASSUME Founded, Quiet(tok), tok.has_token, Stumbles(Settled(tok), tok.token)
    PROVE  FALSE
  BY QuietMisses, Foundation

\* In an array or an inline table.
LEMMA ListGoesOn ==
    ASSUME Founded, NEW m, NEW l, NEW kind, Inside(Settled(tok), kind, m, l)
    PROVE  tok.has_token
<1>1. PICK d : d = Settled(tok)
  OBVIOUS
<1>2. m \in Seq(Levels) /\ l \in Levels /\ d.nest = Append(m, l)
  BY <1>1 DEF Inside
<1>3. d.nest # <<>>
  BY <1>2, Grows
<1> QED
  BY <1>1, <1>3, NestSettles, Foundation

\* It is closed.
LEMMA CloseKnown ==
    ASSUME NEW m, NEW u, Conf(u) = ValueEnd(Config("in", "key", m)), NEW b, Encloses(b, m)
    PROVE  Exact(b, u)
<1>1. PICK c : c = Conf(u)
  OBVIOUS
<1>2. m = <<>> => c = Config("after", "key", m)
  <2>1. PICK e : e = Config("in", "key", m)
    OBVIOUS
  <2>2. e.nest = m /\ e.form = "key"
    BY <2>1 DEF Config
  <2> QED
    BY <1>1, <2>1, <2>2 DEF ValueEnd, To
<1>3. m = <<>> => c.phase # "start"
  BY <1>2 DEF Config
<1> QED
  BY <1>1, <1>3, StartSettles, EnclosesKnown

LEMMA ArrayExact ==
    ASSUME Founded, ArrayStep
    PROVE  Pays
<1>1. In("array") /\ ReadInv /\ Agrees(stack, tok) /\ result = "running"
  BY DEF ArrayStep, Ended, Loop, Founded
<1>2. /\ stack \in Seq(Fixed) /\ stack # <<>> /\ f.fn = "array" /\ f \in Fixed
      /\ Below \in Seq(Fixed) /\ Array_agrees(stack, tok)
  <2>1. stack \in Seq(Fixed) /\ stack # <<>> /\ f.fn = "array" /\ f \in Fixed
        /\ Below \in Seq(Fixed)
    BY <1>1, Running
  <2> QED
    BY <1>1, <2>1, Knows DEF f
<1>3. scenario.letters \in SUBSET Char /\ Sound(Char, tok)
  BY Foundation
<1>4. PICK g, b, d : g = f /\ b = Below /\ d = Settled(tok)
  OBVIOUS
<1>5. /\ Quiet(tok) /\ d.phase = "in" /\ Around_array(stack, d) /\ g \in Fixed
      /\ g.fn = "array" /\ b \in Seq(Fixed) /\ (g.sep => Conf(tok).phase = "in")
  BY <1>2, <1>4 DEF Array_agrees, f, Below
<1>6. PICK m, l : /\ Inside(d, "array", m, l) /\ Encloses(b, m)
                  /\ g.sep = l.sep /\ g.len = l.size
  BY <1>4, <1>5 DEF Around_array, f, Below
<1>7. /\ m \in Seq(Levels) /\ l \in Levels /\ d.nest = Append(m, l) /\ l.kind = "array"
      /\ d.form = "key"
  BY <1>6 DEF Inside
<1>8. tok.has_token /\ ~Stumbles(d, tok.token)
  BY <1>4, <1>5, <1>6, ListGoesOn, SettledClean
<1>9. CASE f.len >= MaxArray /\ Fail(tok)
  <2>1. g \in [fn : {"array"}, sep : BOOLEAN, len : 0 .. MaxArray]
    BY <1>5 DEF Fixed, Whitespace, Comment
  <2>2. g.len \in 0 .. MaxArray /\ MaxArray \in Nat
    BY <2>1, MaxArrayAssumption
  <2>3. g.len = MaxArray
    BY <1>4, <1>9, <2>2
  <2>4. TooLong
    BY <1>2, <1>4, <2>3 DEF TooLong
  <2> QED
    BY <1>1, <1>9, <2>4, Paying
<1>10. ASSUME tok.token = "]", NEW u \in Reads(tok), Go(u, b)
       PROVE  Pays
  <2>1. Consumed(tok, u)
    BY <1>3, <1>8, <1>10, LetterConsumed DEF NUL
  <2>2. Move(d, "]", TRUE) = ValueEnd(Config("in", "key", m))
    BY <1>5, <1>7, MoveIn
  <2>3. Conf(u) = ValueEnd(Config("in", "key", m))
    BY <1>4, <1>5, <1>8, <1>10, <2>1, <2>2, QuietConsumed
  <2>4. Exact(b, u)
    BY <1>6, <2>3, CloseKnown
  <2> QED
    BY <1>1, <1>10, <2>4, Paying
<1>11. ASSUME NEW h, h = [g EXCEPT !.sep = TRUE], NEW u, Go(u, <<h>> \o b)
       PROVE  Pays
  <2>1. h.fn = "array"
    BY <1>5, <1>11, ListAgain
  <2>2. Exact(<<h>> \o b, u)
    BY <1>5, <2>1, OnFrame DEF Has
  <2> QED
    BY <1>1, <1>11, <2>2, Paying
<1>12. ~(tok.token = "," /\ g.sep)
  BY <1>5, <1>6, <1>8, BetweenMisses DEF Blank
<1>13. ASSUME NEW t, Go(t, stack) PROVE Pays
  <2>1. Exact(stack, t)
    BY <1>2, Vacuous DEF f
  <2> QED
    BY <1>1, <1>13, <2>1, Paying
<1>14. CASE Go(tok, <<Whitespace>> \o stack)
  <2>1. Knowing(stack, tok)
    BY <1>2, Vacuous DEF f
  <2>2. Exact(<<Whitespace>> \o stack, tok)
    BY <1>2, <2>1, OnBlank
  <2> QED
    BY <1>1, <1>14, <2>2, Paying
<1>15. CASE Go(tok, <<Comment>> \o stack)
  <2>1. Comment.fn = "comment"
    BY DEF Comment
  <2>2. Exact(<<Comment>> \o stack, tok)
    BY <1>2, <2>1, OnFrame DEF Has
  <2> QED
    BY <1>1, <1>15, <2>2, Paying
\* A value comes.
<1>16. ASSUME f.len < MaxArray, tok.token \notin Blank \cup {"]", ",", "#", "\n", "\r"},
              Go(tok, <<Value(ArrayEnd), Array(FALSE, g.len + 1)>> \o b)
       PROVE  Pays
  <2>1. PICK v, k : v = Value(ArrayEnd) /\ k = Array(FALSE, g.len + 1)
    OBVIOUS
  <2>2. v \in Fixed /\ v.fn = "value"
    BY <2>1, ConstantFrames, NumEndsOf DEF Value
  <2>3. k \in Fixed
    BY <1>4, <1>5, <1>16, <2>1, ListFrame, ConstantFrames
  <2>4. PICK r : r = <<k>> \o b
    OBVIOUS
  <2>5. r \in Seq(Fixed)
    BY <1>5, <2>3, <2>4, OnTop
  <2>6. PICK s : s = <<v, k>> \o b
    OBVIOUS
  <2>7. s = <<v>> \o r
    BY <1>5, <2>2, <2>3, <2>4, <2>6, TwoOnTop
  <2>8. Has(v, tok)
    BY <1>16, <2>2 DEF Has
  <2>9. Exact(s, tok)
    BY <2>2, <2>5, <2>7, <2>8, OnFrame
  <2>10. Go(tok, s)
    BY <1>16, <2>1, <2>6
  <2> QED
    BY <1>1, <2>9, <2>10, Paying
<1>17. ASSUME tok.token \notin Blank \cup {"]", ",", "#", "\n", "\r"}, ~g.sep
       PROVE  FALSE
  <2>1. tok.token = "}" \/ tok.token \notin {",", "]", "}", "\n", "\r", "#"}
    BY <1>17
  <2> QED
    BY <1>5, <1>6, <1>8, <1>17, <2>1, BetweenMisses
<1>18. ASSUME f.len < MaxArray, tok.token \notin {"]", ","}, NEW n \in NotNewline(tok),
              CASE is_whitespace(n.token) -> Go(n, <<Whitespace>> \o stack)
                [] n.token = "#"          -> Go(n, <<Comment>> \o stack)
                [] OTHER -> IF ~f.sep THEN Fail(n)
                            ELSE Go(n, <<Value(ArrayEnd), Array(FALSE, f.len + 1)>> \o Below)
       PROVE  Pays
  <2>1. \/ is_whitespace(n.token) /\ Go(n, <<Whitespace>> \o stack)
        \/ n.token = "#" /\ Go(n, <<Comment>> \o stack)
        \/ ~is_whitespace(n.token) /\ n.token # "#" /\ ~g.sep /\ Fail(n)
        \/ /\ ~is_whitespace(n.token) /\ n.token # "#"
           /\ Go(n, <<Value(ArrayEnd), Array(FALSE, g.len + 1)>> \o b)
    BY <1>4, <1>18 DEF is_whitespace
  <2>2. n = tok /\ tok.token \notin {"\n", "\r"}
    BY <2>1, LooksClean
  <2> QED
    BY <1>14, <1>15, <1>16, <1>17, <1>18, <2>1, <2>2 DEF is_whitespace, Blank
<1>19. CASE tok.token = "]" /\ Next1(Below)
  BY <1>4, <1>10, <1>19 DEF Next1
<1>20. CASE /\ tok.token = ","
             /\ IF f.sep THEN Fail(tok) ELSE Next1(<<[f EXCEPT !.sep = TRUE]>> \o Below)
  <2>1. PICK h : h = [g EXCEPT !.sep = TRUE]
    OBVIOUS
  <2>2. PICK u \in Reads(tok) : Go(u, <<h>> \o b)
    BY <1>4, <1>12, <1>20, <2>1 DEF Next1
  <2> QED
    BY <1>11, <2>1, <2>2
<1>21. CASE \E n \in AtNewline(tok) : \E t \in Reads(n) : Go(t, stack)
  BY <1>13, <1>21
<1> QED
  BY <1>8, <1>9, <1>18, <1>19, <1>20, <1>21 DEF ArrayStep, Ended, Loop

LEMMA InlineExact ==
    ASSUME Founded, InlineStep
    PROVE  Pays
<1>1. In("inline") /\ ReadInv /\ Agrees(stack, tok) /\ result = "running"
  BY DEF InlineStep, Ended, Loop, Founded
<1>2. /\ stack \in Seq(Fixed) /\ stack # <<>> /\ f.fn = "inline" /\ f \in Fixed
      /\ Below \in Seq(Fixed) /\ Inline_agrees(stack, tok)
  <2>1. stack \in Seq(Fixed) /\ stack # <<>> /\ f.fn = "inline" /\ f \in Fixed
        /\ Below \in Seq(Fixed)
    BY <1>1, Running
  <2> QED
    BY <1>1, <2>1, Knows DEF f
<1>3. scenario.letters \in SUBSET Char /\ Sound(Char, tok)
  BY Foundation
<1>4. PICK g, b, d : g = f /\ b = Below /\ d = Settled(tok)
  OBVIOUS
<1>5. /\ Quiet(tok) /\ d.phase = "in" /\ g \in Fixed
      /\ g.fn = "inline" /\ b \in Seq(Fixed) /\ (g.sep => Conf(tok).phase = "in")
  BY <1>2, <1>4 DEF Inline_agrees, f, Below
<1>6. PICK m, l : /\ Inside(d, "inline", m, l) /\ Encloses(b, m)
                  /\ g.sep = l.sep /\ (g.first <=> l.size = 0)
  BY <1>2, <1>4 DEF Inline_agrees, f, Below
<1>7. /\ m \in Seq(Levels) /\ l \in Levels /\ d.nest = Append(m, l) /\ l.kind = "inline"
      /\ d.form = "key"
  BY <1>6 DEF Inside
<1>8. tok.has_token /\ ~Stumbles(d, tok.token)
  BY <1>4, <1>5, <1>6, ListGoesOn, SettledClean
<1>9. ~(tok.token = "}" /\ g.sep /\ ~g.first)
  BY <1>5, <1>6, <1>8, BetweenMisses DEF Blank
<1>10. ASSUME tok.token = "}", NEW u \in Reads(tok), Go(u, b)
       PROVE  Pays
  <2>1. Consumed(tok, u)
    BY <1>3, <1>8, <1>10, LetterConsumed DEF NUL
  <2>2. l.sep => l.size = 0
    BY <1>6, <1>9, <1>10
  <2>3. Move(d, "}", TRUE) = ValueEnd(Config("in", "key", m))
    BY <1>5, <1>7, <2>2, MoveIn
  <2>4. Conf(u) = ValueEnd(Config("in", "key", m))
    BY <1>4, <1>5, <1>8, <1>10, <2>1, <2>3, QuietConsumed
  <2>5. Exact(b, u)
    BY <1>6, <2>4, CloseKnown
  <2> QED
    BY <1>1, <1>10, <2>5, Paying
<1>11. ASSUME NEW h, h = [g EXCEPT !.sep = TRUE], NEW u, Go(u, <<h>> \o b)
       PROVE  Pays
  <2>1. h.fn = "inline"
    BY <1>5, <1>11, ListAgain
  <2>2. Exact(<<h>> \o b, u)
    BY <1>5, <2>1, OnFrame DEF Has
  <2> QED
    BY <1>1, <1>11, <2>2, Paying
<1>12. ~(tok.token = "," /\ g.sep)
  BY <1>5, <1>6, <1>8, BetweenMisses DEF Blank
<1>13. tok.token \notin {"\n", "\r"}
  BY <1>5, <1>6, <1>8, BetweenMisses DEF Blank
<1>14. AtNewline(tok) = {}
  BY <1>13, AtNewlineIs
<1>15. CASE Go(tok, <<Whitespace>> \o stack)
  <2>1. Knowing(stack, tok)
    BY <1>2, Vacuous DEF f
  <2>2. Exact(<<Whitespace>> \o stack, tok)
    BY <1>2, <2>1, OnBlank
  <2> QED
    BY <1>1, <1>15, <2>2, Paying
\* A key comes.
<1>16. ASSUME g.sep, tok.token \notin Blank \cup {"}"},
              Go(tok, <<Key(TRUE), Value(InlineEnd), Whitespace, Inline(FALSE, FALSE)>> \o b)
       PROVE  Pays
  <2>1. PICK k : k = Key(TRUE)
    OBVIOUS
  <2>2. k.fn = "key"
    BY <2>1, ConstantFrames
  <2>3. PICK r : /\ <<Key(TRUE), Value(InlineEnd), Whitespace, Inline(FALSE, FALSE)>> \o b
                      = <<k>> \o r
                 /\ r \in Seq(Fixed)
    BY <1>5, <2>1, PairOnTop
  <2>4. Conf(tok).phase = "in"
    BY <1>5, <1>16
  <2>5. Has(k, tok)
    BY <1>16, <2>2, <2>4 DEF Has, Opening
  <2>6. Exact(<<k>> \o r, tok)
    BY <2>2, <2>3, <2>5, OnFrame
  <2> QED
    BY <1>1, <1>16, <2>3, <2>6, Paying
<1>17. ASSUME tok.token \notin Blank \cup {"}", ","}, ~g.sep
       PROVE  FALSE
  <2>1. tok.token \in {"]", "#", "\n", "\r"} \/ tok.token \notin {",", "]", "}", "\n", "\r", "#"}
    BY <1>17
  <2> QED
    BY <1>5, <1>6, <1>8, <1>17, <2>1, BetweenMisses
<1>18. ASSUME tok.token \notin {"}", ","}, NEW n \in NotNewline(tok),
              CASE is_whitespace(n.token) -> Go(n, <<Whitespace>> \o stack)
                [] OTHER -> IF ~f.sep THEN Fail(n)
                            ELSE Go(n, <<Key(TRUE), Value(InlineEnd), Whitespace,
                                         Inline(FALSE, FALSE)>> \o Below)
       PROVE  Pays
  <2>1. \/ is_whitespace(n.token) /\ Go(n, <<Whitespace>> \o stack)
        \/ ~is_whitespace(n.token) /\ ~g.sep /\ Fail(n)
        \/ /\ ~is_whitespace(n.token) /\ g.sep
           /\ Go(n, <<Key(TRUE), Value(InlineEnd), Whitespace, Inline(FALSE, FALSE)>> \o b)
    BY <1>4, <1>18
  <2>2. n = tok
    BY <2>1, LooksClean
  <2> QED
    BY <1>15, <1>16, <1>17, <1>18, <2>1, <2>2 DEF is_whitespace, Blank
<1>19. CASE tok.token = "}" /\ IF f.sep /\ ~f.first THEN Fail(tok) ELSE Next1(Below)
  BY <1>4, <1>9, <1>10, <1>19 DEF Next1
<1>20. CASE /\ tok.token = ","
             /\ IF f.sep THEN Fail(tok) ELSE Next1(<<[f EXCEPT !.sep = TRUE]>> \o Below)
  <2>1. PICK h : h = [g EXCEPT !.sep = TRUE]
    OBVIOUS
  <2>2. PICK u \in Reads(tok) : Go(u, <<h>> \o b)
    BY <1>4, <1>12, <1>20, <2>1 DEF Next1
  <2> QED
    BY <1>11, <2>1, <2>2
<1> QED
  BY <1>8, <1>14, <1>18, <1>19, <1>20 DEF InlineStep, Ended

\* What the first line tells toml_load.
LEMMA FirstLine ==
    ASSUME NEW t, Sound(Char, t), t.cursor >= 1, t.token \in Bare, LineStarts(t),
           ~KeyMayStart(t)
    PROVE  Cause(t.stream)
<1>1. t.cursor \in Nat /\ t.cursor <= Len(t.stream) /\ Len(t.stream) \in Nat
  BY StreamTyped
<1>2. ~(t.newline /\ t.prev \in Blank \cup {"\n"})
  BY DEF KeyMayStart, is_newline, is_whitespace, Blank
<1>3. /\ \A i \in 1 .. t.cursor - 1 : t.stream[i] \in Blank
      /\ t.cursor # 1
  BY <1>2 DEF LineStarts, KeyMayStart
<1>4. t.cursor > 1 /\ t.cursor \in 1 .. Len(t.stream)
  BY <1>1, <1>3
<1>5. t.stream[t.cursor] = t.token
  BY <1>4 DEF Sound, Letter, Bare, NUL
<1>6. CauseAt(t.stream, t.cursor)
  BY <1>3, <1>4, <1>5 DEF CauseAt
<1> QED
  BY <1>4, <1>6 DEF Cause

LEMMA StatementExact ==
    ASSUME Founded, Statement
    PROVE  Pays
<1>1. /\ stack = <<>> /\ tok.has_token /\ result = "running"
      /\ Top_agrees(stack, tok) /\ Knowing(stack, tok)
  BY Knows DEF Statement, Load, Founded, Exact
<1>2. scenario.letters \in SUBSET Char /\ Sound(Char, tok) /\ tok.cursor >= 1
      /\ ~Cause(tok.stream)
  BY Foundation
<1>3. PICK d : d = Settled(tok)
  OBVIOUS
<1>4. /\ Quiet(tok) /\ d.nest = <<>> /\ (d.phase = "start" \/ d.phase = "after")
      /\ d.phase = "start" => LineStarts(tok)
  BY <1>1, <1>3 DEF Top_agrees, Knowing
<1>5. ~Stumbles(d, tok.token)
  BY <1>1, <1>3, <1>4, SettledClean
<1>6. CASE tok.token = "#"
  <2>1. Go(tok, <<Comment>>)
    BY <1>1, <1>6 DEF Statement, is_whitespace
  <2>2. <<Comment>> # <<>> /\ Head(<<Comment>>) = Comment /\ Comment.fn = "comment"
    BY DEF Comment
  <2>3. Exact(<<Comment>>, tok)
    BY <2>2, Vacuous
  <2> QED
    BY <1>1, <2>1, <2>3, Paying
<1>7. CASE is_whitespace(tok.token)
  <2>1. Go(tok, <<Whitespace>>)
    BY <1>1, <1>7 DEF Statement, is_whitespace
  <2>2. <<Whitespace>> # <<>> /\ Head(<<Whitespace>>) = Whitespace /\ Tail(<<Whitespace>>) = <<>>
    OBVIOUS
  <2>3. Whitespace.fn = "whitespace"
    BY DEF Whitespace
  <2>4. Exact(<<Whitespace>>, tok)
    BY <1>1, <2>2, <2>3 DEF Exact, Knowing, Has
  <2> QED
    BY <1>1, <2>1, <2>4, Paying
<1>8. ASSUME NEW n \in AtNewline(tok), NEW u \in Reads(n), Go(u, <<>>)
      PROVE  Pays
  BY <1>1, <1>2, <1>8, LineKnown, Paying
\* A header comes.
<1>9. ASSUME tok.token = "[", NEW t \in Reads(tok),
             \/ t.token # "[" /\ Go(t, <<Table(TRUE, FALSE)>>)
             \/ t.token = "[" /\ \E u \in Reads(t) : Go(u, <<Table(TRUE, TRUE)>>)
      PROVE  Pays
  <2>1. Consumed(tok, t)
    BY <1>2, <1>9, LetterConsumed DEF NUL
  <2>2. PICK c : c = Conf(t)
    OBVIOUS
  <2>3. c = Config("header", d.form, d.nest)
    <3>1. Move(d, "[", TRUE) = Config("header", d.form, d.nest)
      BY <1>4, MoveStart, MoveAfter
    <3> QED
      BY <1>1, <1>3, <1>4, <1>9, <2>1, <2>2, <3>1, QuietConsumed
  <2>4. c.phase = "header"
    BY <2>3 DEF Config
  <2>5. ASSUME NEW double \in BOOLEAN, NEW u, Opening(u), Go(u, <<Table(TRUE, double)>>)
        PROVE  Pays
    <3>1. PICK g : g = Table(TRUE, double)
      OBVIOUS
    <3>2. g.fn = "table"
      BY <3>1 DEF Table
    <3>3. <<g>> # <<>> /\ Head(<<g>>) = g
      OBVIOUS
    <3>4. Exact(<<g>>, u)
      BY <2>5, <3>2, <3>3 DEF Exact, Knowing, Has
    <3> QED
      BY <1>1, <2>5, <3>1, <3>4, Paying
  <2>6. CASE t.token # "[" /\ Go(t, <<Table(TRUE, FALSE)>>)
    <3>1. Opening(t)
      BY <2>2, <2>4, <2>6 DEF Opening
    <3> QED
      BY <2>5, <2>6, <3>1
  <2>7. ASSUME t.token = "[", NEW u \in Reads(t), Go(u, <<Table(TRUE, TRUE)>>)
        PROVE  Pays
    <3>1. Consumed(t, u)
      BY <1>2, <2>1, <2>7, LetterConsumed DEF NUL, Consumed
    <3>2. Conf(u) = Config("segment", "arraytable", c.nest)
      BY <2>2, <2>4, <2>7, <3>1, MoveHeader DEF Consumed
    <3>3. Conf(u).phase = "segment"
      BY <3>2 DEF Config
    <3>4. Opening(u)
      BY <3>3 DEF Opening
    <3> QED
      BY <2>5, <2>7, <3>4
  <2> QED
    BY <1>9, <2>6, <2>7
\* A key comes, or nothing that may.
<1>10. ASSUME tok.token \notin Blank \cup {"[", "#", "\n", "\r"}
       PROVE  d.phase = "start" /\ tok.token \in Bare /\ KeyMayStart(tok)
  <2>1. d.phase = "start" /\ tok.token \in Bare
    BY <1>4, <1>5, <1>10, LineMisses
  <2> QED
    BY <1>2, <1>4, <2>1, FirstLine
<1>11. ASSUME tok.token \notin Blank \cup {"[", "#", "\n", "\r"},
              Go(tok, <<Key(TRUE), Value(TopEnd), Whitespace>>)
       PROVE  Pays
  <2>1. PICK k, s : k = Key(TRUE) /\ s = <<k, Value(TopEnd), Whitespace>>
    OBVIOUS
  <2>2. k.fn = "key"
    BY <2>1 DEF Key
  <2>3. s # <<>> /\ Head(s) = k
    BY <2>1
  <2>4. d = Conf(tok) /\ d.phase = "start"
    BY <1>3, <1>10, <1>11, StartSettles
  <2>5. Opening(tok)
    BY <1>1, <1>11, <2>4 DEF Opening
  <2>6. Exact(s, tok)
    BY <2>2, <2>3, <2>5 DEF Exact, Knowing, Has
  <2>7. Go(tok, s)
    BY <1>11, <2>1
  <2> QED
    BY <1>1, <2>6, <2>7, Paying
<1>12. ASSUME tok.token # "#", ~is_whitespace(tok.token), NEW n \in NotNewline(tok),
              CASE n.token = "[" ->
                     \E t \in Reads(n) :
                        IF t.token # "[" THEN Go(t, <<Table(TRUE, FALSE)>>)
                        ELSE \E u \in Reads(t) : Go(u, <<Table(TRUE, TRUE)>>)
                [] n.token # "[" /\ KeyMayStart(n) ->
                     Go(n, <<Key(TRUE), Value(TopEnd), Whitespace>>)
                [] OTHER -> Fail(n)
       PROVE  Pays
  <2>1. CASE n.token = "["
    <3>1. PICK t \in Reads(n) :
             \/ t.token # "[" /\ Go(t, <<Table(TRUE, FALSE)>>)
             \/ t.token = "[" /\ \E u \in Reads(t) : Go(u, <<Table(TRUE, TRUE)>>)
      BY <1>12, <2>1
    <3>2. Sound(Char, n)
      BY <1>2, NewlinesSound
    <3>3. ~Cause(n.stream)
      <4>1. \/ \E s : Go(t, s)
            \/ \E u \in Reads(t) : \E s : Go(u, s)
        BY <3>1
      <4>2. Sound(Char, t)
        BY <1>2, <3>2, ReadsSound DEF Reads
      <4>3. ~Cause(t.stream)
        BY <1>2, <4>1, <4>2, ReadClean DEF Go, Founded
      <4> QED
        BY <1>2, <3>2, <4>3, ReadClean
    <3>4. n = tok
      BY <1>2, <3>3, NotNewlineStays
    <3> QED
      BY <1>9, <2>1, <3>1, <3>4
  <2>2. CASE n.token # "["
    <3>1. IF KeyMayStart(n) THEN Go(n, <<Key(TRUE), Value(TopEnd), Whitespace>>) ELSE Fail(n)
      BY <1>12, <2>2
    <3>2. n = tok /\ tok.token \notin {"\n", "\r"}
      BY <3>1, LooksClean
    <3> QED
      BY <1>10, <1>11, <1>12, <2>2, <3>1, <3>2 DEF is_whitespace, Blank
  <2> QED
    BY <2>1, <2>2
<1>13. CASE tok.token # "#" /\ ~is_whitespace(tok.token)
  <2>1. \/ \E n \in AtNewline(tok) : \E t \in Reads(n) : Go(t, <<>>)
        \/ \E n \in NotNewline(tok) :
              CASE n.token = "[" ->
                     \E t \in Reads(n) :
                        IF t.token # "[" THEN Go(t, <<Table(TRUE, FALSE)>>)
                        ELSE \E u \in Reads(t) : Go(u, <<Table(TRUE, TRUE)>>)
                [] n.token # "[" /\ KeyMayStart(n) ->
                     Go(n, <<Key(TRUE), Value(TopEnd), Whitespace>>)
                [] OTHER -> Fail(n)
    BY <1>13 DEF Statement
  <2> QED
    BY <1>8, <1>12, <1>13, <2>1
<1> QED
  BY <1>6, <1>7, <1>13

LEMMA StepExact ==
    ASSUME Founded, Next
    PROVE  Pays
<1>1. Finish => Pays
  BY DEF Finish, Pays
<1>2. ~Stopped
  BY DEF Stopped, Founded
<1> QED
  BY <1>1, <1>2, StatementExact, KeyExact, TableExact, BareKeyExact, ValueExact, LookaheadExact,
     NumberExact, ArrayExact, InlineExact, WhitespaceExact, CommentExact DEF Next

(***************************************************************************)
(* Either the text has a cause to be refused, or the functions that read   *)
(* it know all they have to.                                               *)
(***************************************************************************)
RejectInv == /\ AgreeInv
             /\ result = "running" => Cause(tok.stream) \/ Exact(stack, tok)
             /\ result = "failed" => Cause(tok.stream) \/ TooLong

LEMMA InitRejects == Init => RejectInv
<1> SUFFICES ASSUME Init PROVE RejectInv
  OBVIOUS
<1>1. AgreeInv /\ ReadInv /\ stack = <<>> /\ result = "running"
  BY InitReads, InitAgrees DEF Init
<1>2. tok.cursor = 1 /\ tok.prev = NUL
  <2>1. scenario \in Scenarios /\ tok \in Reads(Opened(0)) /\ 0 \in 0 .. Len(scenario.start)
    BY ScenarioAssumption DEF Init
  <2>2. Sound(Char, Opened(0)) /\ Opened(0).cursor = 0 /\ Opened(0).has_token
    BY <2>1, OpenedSound
  <2>3. Opened(0).token = NUL
    BY <2>2 DEF Sound
  <2> QED
    BY <2>1, <2>2, <2>3, ReadsSound, ScenarioLetters DEF Reads
<1>3. LineStarts(tok)
  BY <1>2 DEF LineStarts
<1> QED
  BY <1>1, <1>3 DEF RejectInv, Exact, Knowing

LEMMA RejectKept ==
    ASSUME RejectInv, [Next]_vars
    PROVE  RejectInv'
<1>1. ReadInv /\ ReadInv' /\ AgreeInv /\ AgreeInv' /\ KeepsText(tok, tok')
  BY NextGoesOn, AgreeKept DEF RejectInv, AgreeInv
<1>2. Sound(Char, tok) /\ Sound(Char, tok')
  BY <1>1 DEF ReadInv
<1>3. CASE UNCHANGED vars
  <2>1. tok' = tok /\ stack' = stack /\ result' = result
    BY <1>3 DEF vars
  <2>2. TooLong => TooLong'
    BY <2>1 DEF TooLong, f
  <2>3. Exact(stack, tok) => Exact(stack', tok')
    BY <2>1
  <2>4. Cause(tok.stream) => Cause(tok'.stream)
    BY <2>1
  <2> QED
    BY <1>1, <2>1, <2>2, <2>3, <2>4 DEF RejectInv
<1>4. CASE Next /\ result # "running"
  <2>1. Stopped
    BY <1>4 DEF Next, Statement, Finish, Load, KeyStep, TableStep, BareKeyStep, ValueStep,
                LookaheadStep, NumberStep, ArrayStep, InlineStep, WhitespaceStep, CommentStep,
                Ended, Loop, In
  <2> QED
    BY <1>3, <2>1 DEF Stopped
<1>5. CASE Cause(tok'.stream)
  BY <1>1, <1>5 DEF RejectInv
<1>6. CASE Next /\ result = "running" /\ ~Cause(tok'.stream)
  <2>1. ~Cause(tok.stream)
    BY <1>1, <1>2, <1>6, CauseKept
  <2>2. ~Alone(tok) /\ ~LostAt(tok.stream)
    BY <1>2, <2>1, NoneLost
  <2>3. Agrees(stack, tok) /\ Exact(stack, tok)
    BY <1>1, <1>6, <2>1, <2>2 DEF RejectInv, AgreeInv, Doomed
  <2>4. Pays
    BY <1>1, <1>6, <2>3, StepExact DEF Founded
  <2>5. result' = "failed" => TooLong'
    <3>1. stack' = stack /\ TooLong => TooLong'
      BY DEF TooLong, f
    <3> QED
      BY <2>4, <3>1 DEF Pays
  <2>6. result' = "running" => Exact(stack', tok')
    BY <2>4 DEF Pays
  <2> QED
    BY <1>1, <2>5, <2>6 DEF RejectInv
<1> QED
  BY <1>3, <1>4, <1>5, <1>6

\* What there is cause to refuse is none of the documents in question.
LEMMA CauseRejects ==
    ASSUME Sound(Char, tok), Cause(tok.stream)
    PROVE  RejectsOnlyOthers
<1>1. PICK s, k : s = tok.stream /\ k = IF AllRead THEN Len(s) - 1 ELSE Len(s)
  OBVIOUS
<1>2. s \in Seq(Char \cup {EOF}) /\ Len(s) \in Nat /\ \A i \in 1 .. Len(s) - 1 : s[i] # EOF
  BY <1>1, StreamTyped DEF Sound
<1>3. AllRead <=> s # <<>> /\ s[Len(s)] = EOF
  BY <1>1 DEF AllRead, Last
<1>4. k \in Nat /\ k <= Len(s)
  BY <1>1, <1>2, <1>3
<1>5. PICK text : text = Text
  OBVIOUS
<1>6. text = SubSeq(s, 1, k)
  <2>1. SubSeq(s, 1, Len(s)) = s
    BY <1>2
  <2> QED
    BY <1>1, <1>5, <2>1 DEF Text, Front
<1>7. Len(text) = k /\ \A i \in 1 .. k : text[i] = s[i]
  BY <1>2, <1>4, <1>6
<1>8. Run(text, FALSE) = Strict(s, k)
  BY <1>6 DEF Strict
<1>9. \A i \in 1 .. k : Run(SubSeq(text, 1, i - 1), FALSE) = Strict(s, i - 1)
  <2> TAKE i \in 1 .. k
  <2>1. SubSeq(text, 1, i - 1) = SubSeq(s, 1, i - 1)
    BY <1>2, <1>4, <1>6, <1>7
  <2> QED
    BY <2>1 DEF Strict
<1>10. PICK n \in 1 .. Len(s) : CauseAt(s, n)
  BY <1>1 DEF Cause
<1>11. s[n] # EOF => n \in 1 .. k
  BY <1>1, <1>2, <1>3, <1>4, <1>10
<1>12. s[n] = EOF => AllRead /\ k = n - 1
  BY <1>1, <1>2, <1>3, <1>10
<1>13. CASE s[n] # EOF /\ Strict(s, n).phase = "error"
  <2>1. Strict(s, k).phase = "error"
    BY <1>2, <1>4, <1>11, <1>13, ErrorStays
  <2> QED
    BY <1>5, <1>8, <2>1 DEF RejectsOnlyOthers, MayBecomeDocument
<1>14. CASE n > 1 /\ s[n] \in {"\t", "\r"} /\ Strict(s, n - 1).phase \in {"int", "frac"}
  <2>1. n \in 2 .. Len(text) /\ n \in 1 .. k
    BY <1>4, <1>7, <1>10, <1>11, <1>14 DEF EOF
  <2>2. NumberThen({"\t", "\r"})
    BY <1>5, <1>7, <1>9, <1>14, <2>1 DEF NumberThen
  <2> QED
    BY <2>2 DEF RejectsOnlyOthers
<1>15. CASE n > 1 /\ s[n] \in Bare /\ \A i \in 1 .. n - 1 : s[i] \in Blank
  <2>1. n \in 2 .. Len(text) /\ n \in 1 .. k /\ \A i \in 1 .. n - 1 : i \in 1 .. k
    BY <1>4, <1>7, <1>10, <1>11, <1>15 DEF EOF, Bare
  <2>2. text[n] \in Bare /\ \A i \in 1 .. n - 1 : text[i] \in Blank
    BY <1>7, <1>15, <2>1
  <2>3. text # <<>> /\ 1 \in 1 .. n - 1
    BY <1>7, <1>15, <2>1
  <2>4. FirstLineIndented
    BY <1>5, <2>1, <2>2, <2>3 DEF FirstLineIndented
  <2> QED
    BY <2>4 DEF RejectsOnlyOthers
<1>16. CASE s[n] = EOF /\ (~Complete(Strict(s, n - 1)) \/ Strict(s, n - 1).phase = "comment")
  <2>1. AllRead /\ Run(text, FALSE) = Strict(s, n - 1)
    BY <1>8, <1>12, <1>16
  <2>2. MayBecomeDocument => EndsInComment
    BY <1>5, <1>16, <2>1 DEF MayBecomeDocument, EndsInComment
  <2> QED
    BY <2>2 DEF RejectsOnlyOthers
<1> QED
  BY <1>10, <1>13, <1>14, <1>15, <1>16 DEF CauseAt

(***************************************************************************)
(* Whatever the input, its length and the sizes of the buffers, toml_load  *)
(* gives up on nothing that could still become a document, as the strict   *)
(* automaton of TomlSyntax has it, but where a buffer is full, a comment   *)
(* ends the input, white space precedes a key in the first line, or a tab  *)
(* or a '\r' follows a number.                                             *)
(***************************************************************************)
THEOREM OnlyOthersRejected == Spec => []RejectsOnlyOthers
<1>1. RejectInv => RejectsOnlyOthers
  <2> SUFFICES ASSUME RejectInv, result = "failed" PROVE RejectsOnlyOthers
    BY DEF RejectsOnlyOthers
  <2>1. Sound(Char, tok) /\ (Cause(tok.stream) \/ TooLong)
    BY DEF RejectInv, AgreeInv, ReadInv
  <2>2. TooLong => RejectsOnlyOthers
    BY DEF RejectsOnlyOthers
  <2> QED
    BY <2>1, <2>2, CauseRejects
<1>2. RejectInv /\ [Next]_vars => RejectInv'
  BY RejectKept
<1> QED
  BY <1>1, <1>2, InitRejects, PTL DEF Spec

-----------------------------------------------------------------------------
(* The tree of keys.                                                       *)

Heap == INSTANCE KeyTreeProofs WITH Values <- {"number", "list"}

-----------------------------------------------------------------------------
\* A segment is taken or refused by add_subkey.
LEMMA SegmentBuilds == ASSUME LoadSegment PROVE Tree!Segment
<1>1. Final \in BOOLEAN
  BY DEF Final
<1>2. PICK id \in Ids : \/ Tree!Descend(id, Final) \/ Tree!Create(id, Final)
                       \/ Tree!Redefine(id, Final) \/ Tree!Overflow(id)
  BY DEF LoadSegment
<1> QED
  BY <1>1, <1>2 DEF Tree!Segment

\* Every step is one of the tree, or leaves it alone.
LEMMA StepBuilds == ASSUME LoadNext PROVE [Tree!Next]_tree
<1>1. CASE LoadStatement
  <2>1. Tree!Invalid \/ Tree!StartKey \/ Tree!StartTable \/ UNCHANGED tree
    BY <1>1 DEF LoadStatement, Along
  <2> QED
    BY <2>1 DEF Tree!Next
<1>2. CASE LoadSegment
  BY <1>2, SegmentBuilds DEF Tree!Next
<1>3. CASE LoadBareKey \/ LoadKey \/ LoadRest
  <2>1. Tree!Invalid \/ UNCHANGED tree
    BY <1>3 DEF LoadBareKey, LoadKey, LoadRest, Along
  <2> QED
    BY <2>1 DEF Tree!Next
<1>4. CASE LoadTable
  <2>1. Tree!Invalid \/ Tree!NewElement \/ Tree!ArrayOverflow \/ UNCHANGED tree
    BY <1>4 DEF LoadTable, Along
  <2> QED
    BY <2>1 DEF Tree!Next
<1>5. CASE LoadValue
  <2>1. Tree!Invalid \/ Tree!OpenInline \/ UNCHANGED tree
    BY <1>5 DEF LoadValue, Along
  <2> QED
    BY <2>1 DEF Tree!Next
<1>6. CASE LoadNumber \/ LoadArray
  <2>1. Tree!Invalid \/ Tree!SetValue \/ UNCHANGED tree
    BY <1>6 DEF LoadNumber, LoadArray, Along, Stores
  <2> QED
    BY <2>1 DEF Tree!Next
<1>7. CASE LoadInline
  <2>1. Tree!Invalid \/ Tree!InlineKey \/ Tree!CloseInline \/ UNCHANGED tree
    BY <1>7 DEF LoadInline, Along
  <2> QED
    BY <2>1 DEF Tree!Next
<1>8. CASE LoadFinish
  BY <1>8 DEF LoadFinish, Tree!Next
<1>9. CASE LoadLookahead \/ LoadStopped
  BY <1>9 DEF LoadLookahead, LoadStopped, load
<1> QED
  BY <1>1, <1>2, <1>3, <1>4, <1>5, <1>6, <1>7, <1>8, <1>9 DEF LoadNext

(***************************************************************************)
(* toml_load implements KeyTree: KeyTree allows every segment, value and   *)
(* failure at any time, the text decides which of them comes.              *)
(***************************************************************************)
THEOREM LoadBuildsTree == LoadSpec => Tree!Spec
<1>1. LoadInit => Tree!Init
  BY DEF LoadInit
<1>2. [LoadNext]_load => [Tree!Next]_(Tree!vars)
  BY StepBuilds DEF load, tree, Tree!vars
<1> QED
  BY <1>1, <1>2, PTL DEF LoadSpec, Tree!Spec

-----------------------------------------------------------------------------
(* Tree and Heap are the same specification: Tree comes with the operators *)
(* that use the tree, Heap with the theorems about it.                     *)

LEMMA SameLookup == ASSUME NEW k, NEW id
                    PROVE  /\ Tree!has_subkey(k, id) = Heap!has_subkey(k, id)
                           /\ Tree!Holder(k, id) = Heap!Holder(k, id)
                           /\ Tree!Found(k, id) = Heap!Found(k, id)
                           /\ Tree!NoRoom(k, id) <=> Heap!NoRoom(k, id)
<1>1. /\ Tree!has_subkey(k, id) = Heap!has_subkey(k, id)
      /\ Tree!Holder(k, id) = Heap!Holder(k, id)
  BY DEF Tree!has_subkey, Heap!has_subkey, Tree!Holder, Heap!Holder, Tree!NULL, Heap!NULL
<1>2. Tree!Found(k, id) = Heap!Found(k, id)
  BY DEF Tree!has_subkey, Heap!has_subkey, Tree!Holder, Heap!Holder, Tree!NULL, Heap!NULL,
         Tree!Found, Heap!Found
<1>3. ASSUME NEW j PROVE Tree!Full(j) <=> Heap!Full(j)
  <2>1. Tree!UsedIds(j) = Heap!UsedIds(j)
    BY DEF Tree!UsedIds, Heap!UsedIds, Tree!has_subkey, Heap!has_subkey, Tree!NULL, Heap!NULL
  <2>2. Tree!Cardinality(Tree!UsedIds(j)) = Heap!Cardinality(Heap!UsedIds(j))
    BY <2>1 DEF Tree!Cardinality, Heap!Cardinality
  <2> QED
    BY <2>2 DEF Tree!Full, Heap!Full
<1>4. Tree!NoRoom(k, id) <=> Heap!NoRoom(k, id)
  BY <1>1, <1>3 DEF Tree!NoRoom, Heap!NoRoom
<1> QED
  BY <1>1, <1>2, <1>4

LEMMA SameSegment == Tree!Segment => Heap!Segment
<1> SUFFICES ASSUME NEW id \in Ids, NEW final \in BOOLEAN
             PROVE  /\ Tree!Overflow(id) => Heap!Overflow(id)
                    /\ Tree!Descend(id, final) => Heap!Descend(id, final)
                    /\ Tree!Redefine(id, final) => Heap!Redefine(id, final)
                    /\ Tree!Create(id, final) => Heap!Create(id, final)
  BY DEF Tree!Segment, Heap!Segment
<1>1. /\ Tree!Holder(at, id) = Heap!Holder(at, id)
      /\ Tree!Found(at, id) = Heap!Found(at, id)
      /\ Tree!NoRoom(at, id) <=> Heap!NoRoom(at, id)
  BY SameLookup
<1>2. Tree!NewType(final) = Heap!NewType(final)
  BY DEF Tree!NewType, Heap!NewType
<1>3. ASSUME NEW a, NEW b PROVE Tree!compatible_keys(a, b) <=> Heap!compatible_keys(a, b)
  BY DEF Tree!compatible_keys, Heap!compatible_keys
<1>4. ASSUME NEW k PROVE Tree!Arrive(k, final) <=> Heap!Arrive(k, final)
  BY DEF Tree!Arrive, Heap!Arrive, Tree!NULL, Heap!NULL
<1>5. Tree!Overflow(id) => Heap!Overflow(id)
  BY <1>1 DEF Tree!Overflow, Heap!Overflow, Tree!Walking, Heap!Walking, Tree!NULL, Heap!NULL
<1>6. Tree!Descend(id, final) => Heap!Descend(id, final)
  BY <1>1, <1>2, <1>3, <1>4
     DEF Tree!Descend, Heap!Descend, Tree!Walking, Heap!Walking, Tree!NULL, Heap!NULL
<1>7. Tree!Redefine(id, final) => Heap!Redefine(id, final)
  BY <1>1, <1>2, <1>3
     DEF Tree!Redefine, Heap!Redefine, Tree!Walking, Heap!Walking, Tree!NULL, Heap!NULL
<1>8. Tree!Create(id, final) => Heap!Create(id, final)
  BY <1>1, <1>2, <1>4
     DEF Tree!Create, Heap!Create, Tree!Walking, Heap!Walking, Tree!NULL, Heap!NULL,
         Tree!new, Heap!new, Tree!CanAlloc, Heap!CanAlloc, Tree!new_key, Heap!new_key,
         Tree!NoSubkeys, Heap!NoSubkeys
<1> QED
  BY <1>5, <1>6, <1>7, <1>8

LEMMA SameElement == /\ Tree!NewElement => Heap!NewElement
                     /\ Tree!ArrayOverflow => Heap!ArrayOverflow
  BY DEF Tree!NewElement, Heap!NewElement, Tree!ArrayOverflow, Heap!ArrayOverflow,
         Tree!new, Heap!new, Tree!CanAlloc, Heap!CanAlloc, Tree!new_key, Heap!new_key,
         Tree!NoSubkeys, Heap!NoSubkeys, Tree!NULL, Heap!NULL

LEMMA SameClose == Tree!CloseInline => Heap!CloseInline
<1>1. /\ Tree!Top = Heap!Top
      /\ Tree!NoSubkeys = Heap!NoSubkeys
      /\ Tree!NULL = Heap!NULL
      /\ \A s : Tree!AfterValue(s) = Heap!AfterValue(s)
      /\ \A k, id : Tree!has_subkey(k, id) = Heap!has_subkey(k, id)
  BY DEF Tree!Top, Heap!Top, Tree!NoSubkeys, Heap!NoSubkeys, Tree!NULL, Heap!NULL,
         Tree!AfterValue, Heap!AfterValue, Tree!has_subkey, Heap!has_subkey
<1>2. \A k : Tree!UsedIds(k) = Heap!UsedIds(k)
  BY <1>1 DEF Tree!UsedIds, Heap!UsedIds
<1>3. Tree!Clash <=> Heap!Clash
  BY <1>1, <1>2 DEF Tree!Clash, Heap!Clash, Tree!compatible_keys, Heap!compatible_keys
<1>4. Tree!TooMany <=> Heap!TooMany
  <2>1. Tree!Cardinality(Tree!UsedIds(Tree!Top.key) \cup Tree!UsedIds(Tree!Top.keys)) =
        Heap!Cardinality(Heap!UsedIds(Heap!Top.key) \cup Heap!UsedIds(Heap!Top.keys))
    BY <1>1, <1>2 DEF Tree!Cardinality, Heap!Cardinality
  <2> QED
    BY <2>1 DEF Tree!TooMany, Heap!TooMany
<1>5. Tree!Merged = Heap!Merged
  BY <1>1 DEF Tree!Merged, Heap!Merged
<1> QED
  BY <1>1, <1>3, <1>4, <1>5 DEF Tree!CloseInline, Heap!CloseInline

LEMMA SameValue == /\ Tree!SetValue => Heap!SetValue
                   /\ Tree!OpenInline => Heap!OpenInline
                   /\ Tree!InlineKey => Heap!InlineKey
  BY DEF Tree!SetValue, Heap!SetValue, Tree!OpenInline, Heap!OpenInline, Tree!InlineKey,
         Heap!InlineKey, Tree!AfterValue, Heap!AfterValue, Tree!Top, Heap!Top,
         Tree!new, Heap!new, Tree!CanAlloc, Heap!CanAlloc, Tree!new_key, Heap!new_key,
         Tree!NoSubkeys, Heap!NoSubkeys, Tree!NULL, Heap!NULL

LEMMA SameEnds == /\ Tree!StartKey => Heap!StartKey
                  /\ Tree!StartTable => Heap!StartTable
                  /\ Tree!Finish => Heap!Finish
                  /\ Tree!Invalid => Heap!Invalid
                  /\ Tree!Halted => Heap!Halted
  BY DEF Tree!StartKey, Heap!StartKey, Tree!StartTable, Heap!StartTable, Tree!Finish,
         Heap!Finish, Tree!Invalid, Heap!Invalid, Tree!Halted, Heap!Halted,
         Tree!Stopped, Heap!Stopped, Tree!Root, Heap!Root, Tree!vars, Heap!vars

LEMMA SameSpec == Tree!Spec => Heap!Spec
<1>1. Tree!Init => Heap!Init
  BY DEF Tree!Init, Heap!Init, Tree!new_key, Heap!new_key, Tree!NoSubkeys,
         Heap!NoSubkeys, Tree!Root, Heap!Root, Tree!NULL, Heap!NULL
<1>2. [Tree!Next]_(Tree!vars) => [Heap!Next]_(Heap!vars)
  BY SameSegment, SameElement, SameClose, SameValue, SameEnds
     DEF Tree!Next, Heap!Next, Tree!vars, Heap!vars
<1> QED
  BY <1>1, <1>2, PTL DEF Tree!Spec, Heap!Spec

-----------------------------------------------------------------------------
\* The assumptions of KeyTree hold of the constants it is given.
LEMMA HeapConstants == /\ "none" \notin {"number", "list"} /\ "array" \notin {"number", "list"}
                       /\ MaxSubkeys \in Nat \ {0} /\ MaxArray \in Nat \ {0}
                       /\ MaxKeys \in Nat \ {0}
  BY MaxSubkeysAssumption, MaxArrayAssumption, MaxKeysAssumption

(***************************************************************************)
(* Whatever toml_load reads, the keys it builds are a tree, no value is    *)
(* overwritten, none shares its key with subkeys, and the inline tables    *)
(* that are open can be added to their keys.                               *)
(***************************************************************************)
THEOREM LoadKeepsTree ==
    LoadSpec => /\ []Heap!TreeShaped
                /\ []Heap!InlineMerges
                /\ []Heap!ValueOrSubkeys
                /\ Heap!ValuesKept
<1>1. LoadSpec => Heap!Spec
  BY LoadBuildsTree, SameSpec
<1>2. Heap!Spec => []Heap!TreeShaped
  BY Heap!TreeStaysTree, HeapConstants
<1>3. Heap!Spec => []Heap!InlineMerges
  BY Heap!MergesNeverFail, HeapConstants
<1>4. Heap!Spec => []Heap!ValueOrSubkeys
  BY Heap!NothingHidden, HeapConstants
<1>5. Heap!Spec => Heap!ValuesKept
  BY Heap!NoRedefinition, HeapConstants
<1> QED
  BY <1>1, <1>2, <1>3, <1>4, <1>5

(***************************************************************************)
(* Whatever toml_load reads, a definition is accepted only if TOML allows  *)
(* it after those before it, and nothing is added to what is closed.       *)
(***************************************************************************)
THEOREM LoadObeysRules == LoadSpec => Heap!ObeysTomlRules /\ Heap!ClosedSealed
<1>1. LoadSpec => Heap!Spec
  BY LoadBuildsTree, SameSpec
<1>2. Heap!Spec => Heap!ObeysTomlRules
  BY Heap!KeyTreeObeysTomlRules, HeapConstants
<1>3. Heap!Spec => Heap!ClosedSealed
  BY Heap!KeyTreeSealed, HeapConstants
<1> QED
  BY <1>1, <1>2, <1>3

(***************************************************************************)
(* Whatever toml_load reads, toml_get_key finds every key under its path,  *)
(* but where an identifier follows itself.                                 *)
(***************************************************************************)
THEOREM LoadedKeysFound ==
    Ids \cap (0 .. MaxArray - 1) = {} => (LoadSpec => []Heap!FoundByPath)
<1> SUFFICES ASSUME Ids \cap (0 .. MaxArray - 1) = {}
             PROVE  LoadSpec => []Heap!FoundByPath
  OBVIOUS
<1>1. LoadSpec => Heap!Spec
  BY LoadBuildsTree, SameSpec
<1>2. Heap!Spec => []Heap!FoundByPath
  BY Heap!KeysFound, HeapConstants
<1> QED
  BY <1>1, <1>2

(***************************************************************************)
(* Whatever toml_load reads, the dump of what it returns is JSON in which  *)
(* every key, table and value of the tree is found once, under its path.   *)
(***************************************************************************)
THEOREM LoadedTreeDumps == LoadSpec => []Heap!DumpReadsBack
<1>1. LoadSpec => Heap!Spec
  BY LoadBuildsTree, SameSpec
<1>2. Heap!Spec => []Heap!DumpReadsBack
  BY Heap!DumpComplete, HeapConstants
<1> QED
  BY <1>1, <1>2
=============================================================================
