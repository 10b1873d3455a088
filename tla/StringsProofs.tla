---------------------------- MODULE StringsProofs ----------------------------
(***************************************************************************)
(* No string, quoted key or escape outgrows the buffer it is read into,    *)
(* whatever the text and the sizes of the buffers.                         *)
(***************************************************************************)
EXTENDS Strings, TokenizerProofs, SequenceTheorems

LEMMA CharsAre == EOF \notin Char /\ NUL \notin Char /\ Quotes \subseteq Char
  BY DEF Char, Quotes, Blanks, Digits, EOF, NUL

LEMMA ScenarioLetters ==
    ASSUME scenario \in Scenarios
    PROVE  scenario.letters \in SUBSET Char
  BY ScenarioAssumption

-----------------------------------------------------------------------------
(* What a read leaves behind, a look for a line end, and a step back.      *)

LEMMA ReadsSound ==
    ASSUME scenario \in Scenarios, NEW t, Sound(Char, t), NEW u \in Reads(t)
    PROVE  /\ Sound(Char, u)
           /\ u.cursor = IF t.has_token THEN t.cursor + 1 ELSE t.cursor
<1>1. PICK L : L = IF Len(t.stream) < Len(scenario.start) + MaxLen THEN scenario.letters
                   ELSE {}
  OBVIOUS
<1>2. L \in SUBSET Char
  BY <1>1, ScenarioLetters
<1>3. PICK i \in Offered(t, L) : u = next_token(i)
  BY <1>1 DEF Reads, ReadsFrom, Offered, Grown
<1> QED
  BY <1>2, <1>3, SoundOffers

LEMMA BackSound ==
    ASSUME NEW t, Sound(Char, t), NEW count \in Nat
    PROVE  Sound(Char, Back(t, count))
  BY CharsAre, SoundBacks DEF Back

LEMMA NewlinesSound ==
    ASSUME scenario \in Scenarios, NEW t, Sound(Char, t), NEW n \in NotNewline(t) \cup AtNewline(t)
    PROVE  Sound(Char, n)
<1>1. CASE n = t
  BY <1>1
<1>2. CASE n # t
  <2>1. PICK r \in Reads(t) : is_return(t.token) /\ (n = r \/ n = Back(r, Returned(t)))
    BY <1>2 DEF NotNewline, AtNewline, Newlines
  <2>2. Returned(t) \in Nat
    BY DEF Returned
  <2> QED
    BY <2>1, <2>2, ReadsSound, BackSound
<1> QED
  BY <1>1, <1>2

LEMMA OpenedSound ==
    ASSUME scenario \in Scenarios
    PROVE  /\ Sound(Char, Opened(scenario.open))
           /\ Opened(scenario.open).token \in Quotes
<1>1. PICK s \in Seq(Char) : s = scenario.start
  BY ScenarioAssumption
<1>2. PICK x : x = [new_tokenizer(<<>>) EXCEPT !.stream = s]
  OBVIOUS
<1>3. s \in Seq(Char \cup {EOF}) /\ \A i \in 1 .. Len(s) : s[i] # EOF
  <2>1. \A i \in 1 .. Len(s) : s[i] \in Char
    OBVIOUS
  <2>2. s \in Seq(Char \cup {EOF})
    OBVIOUS
  <2> QED
    BY <2>1, <2>2, CharsAre
<1>4. x.stream = s /\ x.cursor = 0 /\ x.has_token /\ x.token = NUL
  BY <1>2 DEF new_tokenizer
<1>5. x \in Tokenizers(Char)
  BY <1>2, <1>3, MaxNumLinesAssumption DEF new_tokenizer, Tokenizers
<1>6. Sound(Char, x)
  BY <1>3, <1>4, <1>5 DEF Sound, is_newline, NUL
<1>7. PICK count \in 1 .. Len(s) : count = scenario.open /\ s[count] \in Quotes
  BY <1>1, ScenarioAssumption
<1>8. PICK t : t = AfterReads(x, count)
  OBVIOUS
<1>9. Sound(Char, t) /\ t.stream = s /\ t.cursor = count
  BY <1>3, <1>4, <1>6, <1>7, <1>8, SoundOpens
<1>10. Opened(scenario.open) = t
  BY <1>1, <1>2, <1>7, <1>8 DEF Opened, AfterReads
<1>11. t.token = s[count]
  <2>1. t.token = Letter(s[count])
    BY <1>7, <1>9 DEF Sound
  <2> QED
    BY <1>3, <1>7, <2>1 DEF Letter
<1> QED
  BY <1>7, <1>9, <1>10, <1>11

-----------------------------------------------------------------------------
(***************************************************************************)
(* TypeOK with what makes it inductive: the tokenizer is sound, and only   *)
(* the values of parse_value have more than one line.                      *)
(***************************************************************************)
Capacity == IF IsKey THEN MaxIdLength ELSE MaxString
Places   == {"open", "string", "closing", "escape", "unicode", "fold", "returned", "failed"}
Byte     == 0 .. 255

StringInv ==
    /\ scenario \in Scenarios /\ Sound(Char, tok)
    /\ at \in Places
    /\ quote \in Quotes /\ multi \in BOOLEAN /\ hit \in BOOLEAN
    /\ multi => ~IsKey
    /\ value \in Seq(Byte) /\ Len(value) <= Capacity
    /\ code \in Seq(Digits) /\ Len(code) <= 9

LEMMA InvTypes == StringInv => TypeOK
<1> SUFFICES ASSUME StringInv PROVE TypeOK
  OBVIOUS
<1>1. tok.stream \in Seq(Char \cup {EOF}) /\ tok.cursor \in 0 .. Len(tok.stream)
  BY SoundToken DEF StringInv
<1> QED
  BY <1>1 DEF StringInv, TypeOK, Places, Byte, Capacity

LEMMA CapacityIs ==
    /\ Capacity \in Nat \ {0} /\ (~IsKey => Capacity = MaxString)
    /\ Full <=> Len(value) >= Capacity
  BY MaxStringAssumption, MaxIdAssumption DEF Capacity, Full

LEMMA InitTyped == Init => StringInv
<1> SUFFICES ASSUME Init PROVE StringInv
  OBVIOUS
<1>1. scenario \in Scenarios /\ Sound(Char, tok) /\ quote \in Quotes
  BY OpenedSound DEF Init
<1>2. /\ at = "open" /\ multi = FALSE /\ hit = FALSE /\ value = <<>> /\ code = <<>>
  BY DEF Init
<1>3. Len(value) <= Capacity /\ Len(code) <= 9 /\ value \in Seq(Byte) /\ code \in Seq(Digits)
  BY <1>2, CapacityIs
<1> QED
  BY <1>1, <1>2, <1>3 DEF StringInv, Places

\* What a step has to show.
LEMMA Steps ==
    ASSUME StringInv, Sound(Char, tok'), at' \in Places,
           multi' \in BOOLEAN, multi' => ~IsKey,
           value' \in Seq(Byte), Len(value') <= Capacity, Kept
    PROVE  StringInv'
<1>1. scenario' = scenario /\ quote' = quote /\ code' = code /\ hit' = hit
  BY DEF Kept
<1>2. IsKey' = IsKey /\ Capacity' = Capacity
  BY <1>1 DEF IsKey, Capacity
<1> QED
  BY <1>1, <1>2 DEF StringInv

LEMMA GotoSteps ==
    ASSUME StringInv, NEW t, Sound(Char, t), NEW a \in Places, Goto(a, t)
    PROVE  StringInv'
<1>1. at' = a /\ tok' = t /\ multi' = multi /\ value' = value /\ Kept
  BY DEF Goto
<1>2. multi \in BOOLEAN /\ (multi => ~IsKey) /\ value \in Seq(Byte) /\ Len(value) <= Capacity
  BY DEF StringInv
<1> QED
  BY <1>1, <1>2, Steps

LEMMA StopSteps ==
    ASSUME StringInv, NEW t, Sound(Char, t), Fail(t) \/ Return(t)
    PROVE  StringInv'
  BY GotoSteps DEF Fail, Return, Places

\* Bytes behind value.
LEMMA Longer ==
    ASSUME NEW v \in Seq(Byte), NEW bytes \in Seq(Byte)
    PROVE  /\ v \o bytes \in Seq(Byte) /\ Len(v \o bytes) = Len(v) + Len(bytes)
           /\ Len(v) \in Nat /\ Len(bytes) \in Nat
  BY ConcatProperties

LEMMA AddSteps ==
    ASSUME StringInv, NEW t, Sound(Char, t), NEW bytes \in Seq(Byte),
           Len(value) + Len(bytes) <= Capacity, Add(t, bytes)
    PROVE  StringInv'
<1>1. at' = at /\ tok' = t /\ multi' = multi /\ value' = value \o bytes /\ Kept
  BY DEF Add
<1>2. at \in Places /\ multi \in BOOLEAN /\ (multi => ~IsKey) /\ value \in Seq(Byte)
  BY DEF StringInv
<1>3. value' \in Seq(Byte) /\ Len(value') <= Capacity
  BY <1>1, <1>2, Longer
<1> QED
  BY <1>1, <1>2, <1>3, Steps

\* One byte fits wherever the loops have tested it.
LEMMA AddOne ==
    ASSUME StringInv, ~Full, NEW t, Sound(Char, t), NEW b \in Byte, Add(t, <<b>>)
    PROVE  StringInv'
<1>1. Len(value) \in Nat /\ Len(value) < Capacity
  BY CapacityIs DEF StringInv
<1>2. <<b>> \in Seq(Byte) /\ Len(<<b>>) = 1
  OBVIOUS
<1>3. Len(value) + Len(<<b>>) <= Capacity
  BY <1>1, <1>2, CapacityIs
<1> QED
  BY <1>2, <1>3, AddSteps

LEMMA CodeIsByte ==
    /\ \A c \in Char : Code(c) \in Byte
    /\ \A c \in {"n", "f", "\"", "\\"} : Escaped(c) \in Byte
  BY DEF Char, Quotes, Blanks, Digits, Code, Escaped, Byte

-----------------------------------------------------------------------------
(* The actions. *)

LEMMA OpenSteps == ASSUME StringInv, Open PROVE StringInv'
<1>1. scenario \in Scenarios /\ Sound(Char, tok) /\ value \in Seq(Byte) /\ Len(value) <= Capacity
  BY DEF StringInv
<1>2. PICK t \in Reads(tok) :
          \/ (IsKey \/ t.token # quote) /\ Goto("string", t)
          \/ /\ ~IsKey
             /\ \E u \in Reads(t) :
                   \/ \E w \in Reads(u) : /\ at' = "string" /\ multi' = TRUE /\ tok' = w
                                          /\ UNCHANGED value /\ Kept
                   \/ Return(u)
                   \/ \/ \E n \in AtNewline(u) : Return(n)
                      \/ \E n \in NotNewline(u) : Fail(n)
  BY DEF Open
<1>3. Sound(Char, t)
  BY <1>1, ReadsSound
<1>4. CASE Goto("string", t)
  BY <1>3, <1>4, GotoSteps DEF Places
<1>5. ASSUME ~IsKey, NEW u \in Reads(t), NEW w \in Reads(u),
             at' = "string" /\ multi' = TRUE /\ tok' = w /\ UNCHANGED value /\ Kept
      PROVE  StringInv'
  <2>1. Sound(Char, tok')
    BY <1>1, <1>3, <1>5, ReadsSound
  <2> QED
    BY <1>1, <1>5, <2>1, Steps DEF Places
<1>6. ASSUME NEW u \in Reads(t), NEW n \in {u} \cup AtNewline(u) \cup NotNewline(u),
             Return(n) \/ Fail(n)
      PROVE  StringInv'
  <2>1. Sound(Char, u)
    BY <1>1, <1>3, <1>6, ReadsSound
  <2>2. Sound(Char, n)
    BY <1>1, <1>6, <2>1, NewlinesSound
  <2> QED
    BY <1>6, <2>2, StopSteps
<1> QED
  BY <1>2, <1>4, <1>5, <1>6

LEMMA QuietSteps ==
    ASSUME StringInv, NoEnd \/ CloseLine \/ CloseKey \/ AfterKey
    PROVE  StringInv'
<1>1. scenario \in Scenarios /\ Sound(Char, tok)
  BY DEF StringInv
<1>2. \A t \in Reads(tok) : Sound(Char, t)
  BY <1>1, ReadsSound
<1>3. CASE NoEnd
  BY <1>1, <1>3, StopSteps DEF NoEnd
<1>4. CASE CloseLine
  BY <1>2, <1>4, StopSteps DEF CloseLine
<1>5. CASE CloseKey
  BY <1>2, <1>5, GotoSteps DEF CloseKey, Places
<1>6. CASE AfterKey
  <2>1. CASE \E t \in Reads(tok) : Goto("closing", t)
    BY <1>2, <2>1, GotoSteps DEF Places
  <2>2. CASE Return(tok) \/ Fail(tok)
    BY <1>1, <2>2, StopSteps
  <2> QED
    BY <1>6, <2>1, <2>2 DEF AfterKey
<1> QED
  BY <1>3, <1>4, <1>5, <1>6

\* Quotes in front of the closing ones are tested for one by one.
LEMMA CloseLinesSteps == ASSUME StringInv, CloseLines PROVE StringInv'
<1>1. scenario \in Scenarios /\ Sound(Char, tok) /\ multi = TRUE /\ ~IsKey /\ ~Full
      /\ tok.has_token /\ value \in Seq(Byte) /\ quote \in Quotes
  BY DEF StringInv, CloseLines, Turn, In
<1>2. PICK b \in Byte : b = Code(quote)
  BY <1>1, CharsAre, CodeIsByte
<1>3. PICK n \in Nat : n = Len(value) /\ n < MaxString
  BY <1>1, CapacityIs
<1>4. PICK one : one = Append(value, b)
  OBVIOUS
<1>5. /\ one \in Seq(Byte) /\ Len(one) = n + 1
      /\ Append(one, b) \in Seq(Byte) /\ Len(Append(one, b)) = n + 2
  BY <1>1, <1>3, <1>4
<1>6. PICK t, u : /\ t \in Reads(tok) /\ u \in Reads(t)
                  /\ \/ \E w \in Reads(u) :
                           \/ Return(w)
                           \/ \E y \in Reads(w) :
                                 /\ IF Len(one) >= MaxString
                                    THEN value' = one /\ tok' = y /\ at' = "failed"
                                    ELSE \/ value' = one /\ tok' = y /\ at' = "returned"
                                         \/ /\ value' = Append(one, b)
                                            /\ tok' \in Reads(y) /\ at' = "returned"
                                 /\ UNCHANGED multi /\ Kept
                     \/ Add(GivenBack(u, Returned(tok) + Returned(t)), <<b>>)
  BY <1>2, <1>4 DEF CloseLines
<1>7. Sound(Char, t) /\ Sound(Char, u)
  BY <1>1, <1>6, ReadsSound
<1>8. \A w \in Reads(u) : Sound(Char, w) /\ \A y \in Reads(w) :
          Sound(Char, y) /\ \A z \in Reads(y) : Sound(Char, z)
  BY <1>1, <1>7, ReadsSound
<1>9. ASSUME NEW w \in Reads(u), Return(w) PROVE StringInv'
  BY <1>8, <1>9, StopSteps
<1>10. ASSUME NEW w \in Reads(u), NEW y \in Reads(w), tok' = y \/ tok' \in Reads(y),
              \/ value' = one
              \/ n + 1 < MaxString /\ value' = Append(one, b),
              at' \in Places, UNCHANGED multi, Kept
       PROVE  StringInv'
  <2>1. Sound(Char, tok')
    BY <1>8, <1>10
  <2>2. value' \in Seq(Byte) /\ Len(value') <= Capacity
    BY <1>1, <1>3, <1>5, <1>10, CapacityIs, MaxStringAssumption
  <2> QED
    BY <1>1, <1>10, <2>1, <2>2, Steps
<1>11. CASE Add(GivenBack(u, Returned(tok) + Returned(t)), <<b>>)
  <2>1. PICK sum : sum = Returned(tok) + Returned(t)
    OBVIOUS
  <2>2. PICK count \in Nat : count = sum - 1
    BY <1>1, <2>1 DEF Returned, CanRead
  <2>3. GivenBack(u, sum) = Back(u, count)
    BY <2>2 DEF GivenBack
  <2>4. Sound(Char, Back(u, count))
    BY <1>7, BackSound
  <2> QED
    BY <1>1, <1>11, <2>1, <2>3, <2>4, AddOne
<1>12. "failed" \in Places /\ "returned" \in Places
  BY DEF Places
<1>13. MaxString \in Nat
  BY MaxStringAssumption
<1> QED
  BY <1>3, <1>5, <1>6, <1>9, <1>10, <1>11, <1>12, <1>13

\* A control character, with which the input ends too, is never stored.
LEMMA PlainSteps ==
    ASSUME StringInv, ~Full, NEW t, Sound(Char, t), Plain(t)
    PROVE  StringInv'
<1>1. scenario \in Scenarios
  BY DEF StringInv
<1>2. \A u \in Reads(t) : Sound(Char, u)
  BY <1>1, ReadsSound
<1>3. CASE \E u \in Reads(t) : Goto("escape", u)
  BY <1>2, <1>3, GotoSteps DEF Places
<1>4. CASE Fail(t)
  BY <1>4, StopSteps
<1>5. ASSUME t.token # NUL, NEW u \in Reads(t), Add(u, <<Code(t.token)>>) PROVE StringInv'
  <2>1. t.token \in Char
    BY <1>5, SoundToken
  <2>2. Code(t.token) \in Byte
    BY <2>1, CodeIsByte
  <2> QED
    BY <1>2, <1>5, <2>2, AddOne
<1> QED
  BY <1>3, <1>4, <1>5 DEF Plain, is_control_multi, is_control, is_control_literal

LEMMA OtherSteps == ASSUME StringInv, Other PROVE StringInv'
<1>1. scenario \in Scenarios /\ Sound(Char, tok) /\ ~Full /\ value \in Seq(Byte)
  BY DEF StringInv, Other, Turn
<1>2. \A n \in NotNewline(tok) \cup AtNewline(tok) : Sound(Char, n)
  BY <1>1, NewlinesSound
<1>3. CASE Fail(tok) \/ Plain(tok)
  BY <1>1, <1>3, StopSteps, PlainSteps
<1>4. ASSUME NEW n \in NotNewline(tok) \cup AtNewline(tok), Plain(n) \/ Fail(n)
      PROVE  StringInv'
  BY <1>1, <1>2, <1>4, StopSteps, PlainSteps
<1>5. ASSUME NEW n \in AtNewline(tok), NEW u \in Reads(n), Add(u, <<>>) PROVE StringInv'
  <2>1. Sound(Char, u)
    BY <1>1, <1>2, <1>5, ReadsSound
  <2>2. <<>> \in Seq(Byte) /\ Len(<<>>) = 0
    OBVIOUS
  <2>3. Len(value) + Len(<<>>) <= Capacity
    BY <1>1, <2>2 DEF StringInv
  <2> QED
    BY <1>5, <2>1, <2>2, <2>3, AddSteps
<1> QED
  BY <1>3, <1>4, <1>5 DEF Other

\* What does not fit of an escape is cut off.
LEMMA StoredSteps ==
    ASSUME StringInv, NEW t, Sound(Char, t), NEW bytes \in Seq(Byte), Stored(t, bytes)
    PROVE  StringInv'
<1>1. /\ scenario \in Scenarios /\ value \in Seq(Byte) /\ multi \in BOOLEAN
      /\ (multi => ~IsKey)
  BY DEF StringInv
<1>2. PICK n \in Nat : n = Len(value) /\ n <= Capacity
  BY <1>1 DEF StringInv
<1>3. PICK k \in Nat : k = Len(bytes)
  OBVIOUS
<1>4. PICK room \in Nat : room = Capacity - n
  BY <1>2, CapacityIs
<1>5. CASE k >= room
  <2>1. /\ value' = value \o SubSeq(bytes, 1, room) /\ tok' = t /\ at' = "failed"
        /\ multi' = multi /\ Kept
    BY <1>2, <1>3, <1>4, <1>5 DEF Stored, Capacity
  <2>2. PICK cut : cut = SubSeq(bytes, 1, room)
    OBVIOUS
  <2>3. cut \in Seq(Byte) /\ Len(cut) = room
    BY <1>3, <1>4, <1>5, <2>2
  <2>4. value' \in Seq(Byte) /\ Len(value') = n + room
    BY <1>1, <1>2, <2>1, <2>2, <2>3, Longer
  <2>5. Len(value') <= Capacity
    BY <1>2, <1>4, <2>4, CapacityIs
  <2> QED
    BY <1>1, <2>1, <2>4, <2>5, Steps DEF Places
<1>6. CASE ~(k >= room)
  <2>1. PICK u \in Reads(Back(t, 1)) :
             /\ value' = value \o bytes /\ tok' = u /\ at' = "string"
             /\ multi' = multi /\ Kept
    BY <1>2, <1>3, <1>4, <1>6 DEF Stored, Capacity
  <2>2. Sound(Char, Back(t, 1))
    BY BackSound
  <2>3. Sound(Char, tok')
    BY <1>1, <2>1, <2>2, ReadsSound
  <2>4. value' \in Seq(Byte) /\ Len(value') = n + k
    BY <1>1, <1>2, <1>3, <2>1, Longer
  <2>5. Len(value') <= Capacity
    BY <1>2, <1>4, <1>6, <2>4, CapacityIs
  <2> QED
    BY <1>1, <2>1, <2>3, <2>4, <2>5, Steps DEF Places
<1> QED
  BY <1>5, <1>6

\* UTF-8 needs no more than bytes.
LEMMA EncodedBytes ==
    ASSUME NEW num \in Int
    PROVE  Encoded(num) \in Seq(Byte)
<1> DEFINE low(shift) == 128 + ((num \div shift) % 64)
<1>1. num % 128 \in Byte
  <2>1. num % 128 \in 0 .. 127
    OBVIOUS
  <2> QED
    BY <2>1 DEF Byte
<1>2. low(1) \in Byte /\ low(64) \in Byte /\ low(4096) \in Byte
  <2>1. /\ (num \div 1) % 64 \in 0 .. 63 /\ (num \div 64) % 64 \in 0 .. 63
        /\ (num \div 4096) % 64 \in 0 .. 63
    BY SMT
  <2> QED
    BY <2>1, SMT DEF Byte
<1>3. /\ 192 + ((num \div 64) % 32) \in Byte
      /\ 224 + ((num \div 4096) % 16) \in Byte
      /\ 240 + ((num \div 262144) % 8) \in Byte
  <2>1. /\ (num \div 64) % 32 \in 0 .. 31 /\ (num \div 4096) % 16 \in 0 .. 15
        /\ (num \div 262144) % 8 \in 0 .. 7
    BY SMT
  <2> QED
    BY <2>1, SMT DEF Byte
<1>4. Encoded(num) \in { <<num % 128>>,
                         <<192 + ((num \div 64) % 32), low(1)>>,
                         <<224 + ((num \div 4096) % 16), low(64), low(1)>>,
                         <<240 + ((num \div 262144) % 8), low(4096), low(64), low(1)>> }
  BY SMT DEF Encoded
<1> HIDE DEF low
<1>5. PICK a \in Byte, b \in Byte, c \in Byte, d \in Byte :
         /\ a = num % 128 /\ b = 192 + ((num \div 64) % 32)
         /\ c = 224 + ((num \div 4096) % 16) /\ d = 240 + ((num \div 262144) % 8)
  BY <1>1, <1>3, SMT
<1>6. Encoded(num) \in {<<a>>, <<b, low(1)>>, <<c, low(64), low(1)>>,
                        <<d, low(4096), low(64), low(1)>>}
  BY <1>4, <1>5, SMT
<1>7. PICK x \in Byte, y \in Byte, z \in Byte : x = low(1) /\ y = low(64) /\ z = low(4096)
  BY <1>2
<1>8. Encoded(num) \in {<<a>>, <<b, x>>, <<c, y, x>>, <<d, z, y, x>>}
  BY <1>6, <1>7
<1>9. /\ <<a>> \in Seq(Byte) /\ <<b, x>> \in Seq(Byte) /\ <<c, y, x>> \in Seq(Byte)
      /\ <<d, z, y, x>> \in Seq(Byte)
  OBVIOUS
<1> QED
  BY <1>8, <1>9

LEMMA NoEscapeSteps ==
    ASSUME StringInv, NEW t, Sound(Char, t), NoEscape(t)
    PROVE  StringInv'
<1>1. CASE Fail(t)
  BY <1>1, StopSteps
<1>2. CASE /\ at' = "fold" /\ hit' = FALSE /\ tok' = t
           /\ UNCHANGED <<scenario, quote, multi, value, code>>
  BY <1>2 DEF StringInv, Places, IsKey, Capacity
<1> QED
  BY <1>1, <1>2 DEF NoEscape

LEMMA EscapeSteps == ASSUME StringInv, parse_escape PROVE StringInv'
<1>1. scenario \in Scenarios /\ Sound(Char, tok)
  BY DEF StringInv
<1>2. \A t \in Reads(tok) : Sound(Char, t)
  BY <1>1, ReadsSound
<1>3. ASSUME tok.token \in {"n", "f", "\"", "\\"},
             NEW t \in Reads(tok), Stored(t, <<Escaped(tok.token)>>)
      PROVE  StringInv'
  <2>1. PICK b \in Byte : b = Escaped(tok.token)
    BY <1>3, CodeIsByte
  <2>2. <<b>> \in Seq(Byte)
    OBVIOUS
  <2> QED
    BY <1>2, <1>3, <2>1, <2>2, StoredSteps
<1>4. CASE /\ at' = "unicode" /\ tok' \in Reads(tok) /\ code' = <<>>
           /\ UNCHANGED <<scenario, quote, multi, value, hit>>
  <2>1. Sound(Char, tok') /\ code' \in Seq(Digits) /\ Len(code') <= 9
    BY <1>2, <1>4
  <2> QED
    BY <1>4, <2>1 DEF StringInv, Places, IsKey, Capacity
<1>5. CASE NoEscape(tok)
  BY <1>1, <1>5, NoEscapeSteps
<1> QED
  BY <1>3, <1>4, <1>5 DEF parse_escape

LEMMA ValidIsInt == ASSUME NEW num, Valid(num) PROVE num \in Int
<1>1. \A low, high, i : i \in low .. high => i \in Int
  OBVIOUS
<1> QED
  BY <1>1 DEF Valid

LEMMA UnicodeSteps == ASSUME StringInv, parse_unicode PROVE StringInv'
<1>1. scenario \in Scenarios /\ Sound(Char, tok) /\ code \in Seq(Digits)
  BY DEF StringInv
<1>2. CASE NoEscape(tok)
  BY <1>1, <1>2, NoEscapeSteps
<1>3. CASE /\ Len(code) <= 8 /\ is_hexdigit(tok.token)
           /\ code' = Append(code, tok.token) /\ tok' \in Reads(tok)
           /\ UNCHANGED <<scenario, at, quote, multi, value, hit>>
  <2>1. Sound(Char, tok')
    BY <1>1, <1>3, ReadsSound
  <2>2. code' \in Seq(Digits) /\ Len(code') <= 9
    BY <1>1, <1>3 DEF is_hexdigit
  <2> QED
    BY <1>3, <2>1, <2>2 DEF StringInv, IsKey, Capacity
<1>4. CASE Valid(Hex(code)) /\ Stored(tok, Encoded(Hex(code)))
  <2>1. PICK num : num = Hex(code) /\ Valid(num)
    BY <1>4
  <2>2. num \in Int
    BY <2>1, ValidIsInt
  <2>3. PICK bytes \in Seq(Byte) : bytes = Encoded(num)
    BY <2>2, EncodedBytes
  <2>4. Stored(tok, bytes)
    BY <1>4, <2>1, <2>3
  <2> QED
    BY <1>1, <2>4, StoredSteps
<1> QED
  BY <1>2, <1>3, <1>4 DEF parse_unicode

LEMMA FoldSteps == ASSUME StringInv, Fold PROVE StringInv'
<1>1. scenario \in Scenarios /\ Sound(Char, tok)
  BY DEF StringInv
<1>2. \A n \in NotNewline(tok) \cup AtNewline(tok) : Sound(Char, n)
  BY <1>1, NewlinesSound
<1>3. CASE \E t \in Reads(tok) : Goto("fold", t)
  BY <1>1, <1>3, ReadsSound, GotoSteps DEF Places
<1>4. ASSUME NEW n \in AtNewline(tok), hit' = TRUE, tok' \in Reads(n),
             UNCHANGED <<scenario, at, quote, multi, value, code>>
      PROVE  StringInv'
  <2>1. Sound(Char, tok')
    BY <1>1, <1>2, <1>4, ReadsSound
  <2> QED
    BY <1>4, <2>1 DEF StringInv, IsKey, Capacity
<1>5. ASSUME NEW n \in NotNewline(tok), Goto("string", n) \/ Fail(n) PROVE StringInv'
  <2>1. "string" \in Places /\ Sound(Char, n)
    BY <1>2, <1>5 DEF Places
  <2> QED
    BY <1>5, <2>1, GotoSteps, StopSteps
<1> QED
  BY <1>3, <1>4, <1>5 DEF Fold

LEMMA NextTyped == StringInv /\ [Next]_vars => StringInv'
<1> SUFFICES ASSUME StringInv, [Next]_vars PROVE StringInv'
  OBVIOUS
<1>1. CASE Stopped \/ UNCHANGED vars
  <2>1. /\ tok' = tok /\ scenario' = scenario /\ at' = at /\ quote' = quote
        /\ multi' = multi /\ value' = value /\ code' = code /\ hit' = hit
    BY <1>1 DEF Stopped, vars
  <2> QED
    BY <2>1 DEF StringInv, IsKey, Capacity
<1> QED
  BY <1>1, OpenSteps, QuietSteps, CloseLinesSteps, OtherSteps, EscapeSteps, UnicodeSteps,
     FoldSteps DEF Next

-----------------------------------------------------------------------------
(***************************************************************************)
(* The functions that read strings and quoted keys never write behind      *)
(* their buffers: value ends within TOML_MAX_STRING_LENGTH bytes, id       *)
(* within TOML_MAX_ID_LENGTH, also where the bytes of an escape or the     *)
(* quotes in front of a closing quote are stored one after the other, and  *)
(* the digits of an escape within the buffer of parse_unicode.  What is    *)
(* stored are bytes.                                                       *)
(***************************************************************************)
THEOREM StringsTyped == Spec => []TypeOK
<1>1. Spec => []StringInv
  BY InitTyped, NextTyped, PTL DEF Spec
<1> QED
  BY <1>1, InvTypes, PTL
=============================================================================
