--------------------------- MODULE TokenizerProofs ---------------------------
(***************************************************************************)
(* Lemmas about the tokenizer as a value, for every module that reads.     *)
(***************************************************************************)
EXTENDS Tokenizer, Induction, TLAPS

-----------------------------------------------------------------------------
(* The position that backtrack walks to. *)

LEMMA RewoundType ==
    ASSUME NEW t, t.line \in Nat, t.col \in Int,
           \A l \in DOMAIN t.lines : t.lines[l] \in Int,
           NEW pre \in Int, NEW stray \in Int
    PROVE  Rewound(t, pre, stray) \in [line : Int, pre : Int, col : Int]
<1> DEFINE W       == [line : Int, pre : Int, col : Int]
           back(w) == [line |-> w.line - 1, pre |-> w.pre - w.col,
                       col  |-> Length(t, w.line - 1, stray)]
           stop    == {w \in W : ~(w.line >= 0 /\ w.pre > w.col)}
           next    == [w \in W |-> back(w)]
           rank    == [w \in W |-> IF w.line >= 0 THEN w.line + 1 ELSE 0]
           walk    == CHOOSE f : f = [w \in W |-> IF w.line >= 0 /\ w.pre > w.col
                                                 THEN f[back(w)] ELSE w]
<1>1. next \in [W -> W]
  BY DEF Length
<1>2. rank \in [W -> Nat]
  OBVIOUS
<1>3. \A w \in W : w \in stop \/ rank[next[w]] < rank[w]
  BY <1>1
<1>4. PICK g : Iterates(W, next, stop, g)
  <2>1. Falls(W, next, stop, rank)
    <3> HIDE DEF W, next, stop, rank
    <3> QED
      BY <1>1, <1>2, <1>3 DEF Falls
  <2> HIDE DEF W, next, stop, rank
  <2> QED
    BY <2>1, LoopsEnd
<1>5. /\ g \in [W -> W]
      /\ \A w \in W : (w \in stop => g[w] = w) /\ (w \notin stop => g[w] = g[next[w]])
  <2> HIDE DEF W, stop, next
  <2> QED
    BY <1>4 DEF Iterates
<1>6. \A w \in W : next[w] = back(w) /\ (w \in stop <=> ~(w.line >= 0 /\ w.pre > w.col))
  <2> HIDE DEF W, back
  <2> QED
    BY DEF stop, next
<1>7. g = [w \in W |-> IF w.line >= 0 /\ w.pre > w.col THEN g[back(w)] ELSE w]
  <2> HIDE DEF W, back, stop, next
  <2>1. \A w \in W : g[w] = IF w.line >= 0 /\ w.pre > w.col THEN g[back(w)] ELSE w
    BY <1>5, <1>6
  <2> QED
    BY <1>5, <2>1
<1>8. walk = [w \in W |-> IF w.line >= 0 /\ w.pre > w.col THEN walk[back(w)] ELSE w]
  <2> HIDE DEF W, back
  <2> QED
    BY <1>7
<1>9. \A w \in W : walk[w] \in W
  <2> DEFINE T == {w \in W : walk[w] \notin W}
  <2> SUFFICES ASSUME T # {} PROVE FALSE
    OBVIOUS
  <2>1. PICK w \in T : \A v \in T : rank[w] <= rank[v]
    <3>1. [v \in T |-> rank[v]] \in [T -> Nat]
      BY <1>2
    <3> HIDE DEF T, rank
    <3> QED
      BY <3>1, LeastRank
  <2>2. w \in W /\ walk[w] \notin W
    OBVIOUS
  <2>3. w \notin stop /\ walk[w] = walk[next[w]] /\ next[w] \in W
    <3> HIDE DEF walk
    <3> QED
      BY <1>1, <1>8, <2>2
  <2>4. next[w] \in T
    BY <2>2, <2>3
  <2> HIDE DEF W, stop, next, rank, walk, T
  <2>5. rank[next[w]] < rank[w] /\ rank[w] <= rank[next[w]]
    BY <1>3, <2>1, <2>2, <2>3, <2>4
  <2>6. rank[next[w]] \in Int /\ rank[w] \in Int
    BY <1>2, <2>2, <2>3
  <2> QED
    BY <2>5, <2>6
<1>10. Rewound(t, pre, stray) = walk[[line |-> t.line, pre |-> pre, col |-> t.col]]
  BY DEF Rewound
<1> HIDE DEF walk
<1> QED
  BY <1>9, <1>10

-----------------------------------------------------------------------------
(* The fields of struct tokenizer over characters C, and what the functions *)
(* make of them.                                                            *)

Tokenizers(C) ==
    [ stream    : Seq(C \cup {EOF}),
      cursor    : Nat,
      token     : C \cup {NUL},
      prev      : C \cup {NUL},
      prev_prev : C \cup {NUL},
      has_token : BOOLEAN,
      newline   : BOOLEAN,
      line      : Nat,
      col       : Nat,
      lines     : [0 .. MaxNumLines - 1 -> Nat] ]

\* There is a character to read, if next_token reads one.
Readable(t) == CanRead(t) => t.cursor < Len(t.stream)

\* A read over one that can be read.
LEMMA ReadsOn ==
    ASSUME NEW C, NEW t \in Tokenizers(C), t.cursor < Len(t.stream), CanRead(t)
    PROVE  /\ next_token(t) \in Tokenizers(C)
           /\ next_token(t).stream = t.stream
           /\ next_token(t).cursor = t.cursor + 1
           /\ next_token(t).token = IF Under(t) = EOF THEN NUL ELSE Under(t)
           /\ next_token(t).prev = t.token
           /\ next_token(t).prev_prev = t.prev
           /\ next_token(t).has_token <=> t.has_token /\ Under(t) # EOF
           /\ next_token(t).newline <=> StartsLine(t, Under(t))
<1> DEFINE c == Under(t)
           n == [ stream    |-> t.stream,
                  cursor    |-> t.cursor + 1,
                  token     |-> IF c = EOF THEN NUL ELSE c,
                  prev      |-> t.token,
                  prev_prev |-> t.prev,
                  has_token |-> t.has_token /\ c # EOF,
                  newline   |-> StartsLine(t, c),
                  line      |-> IF is_newline(t.token) THEN t.line + 1 ELSE t.line,
                  col       |-> IF is_newline(t.token) THEN 0 ELSE t.col + 1,
                  lines     |-> IF is_newline(t.token) /\ InTable(t)
                                THEN Noted(t) ELSE t.lines ]
<1>1. next_token(t) = n
  BY DEF next_token, Shifted, Tokenizers
<1>2. c \in C \cup {EOF}
  BY DEF Under, Tokenizers
<1>3. StartsLine(t, c) \in BOOLEAN
  BY DEF StartsLine, is_newline, is_whitespace, Tokenizers
<1>4. n.lines \in [0 .. MaxNumLines - 1 -> Nat]
  <2>1. CASE InTable(t)
    BY <2>1, MaxNumLinesAssumption DEF InTable, Noted, Tokenizers
  <2>2. CASE ~InTable(t)
    BY <2>2 DEF Tokenizers
  <2> QED
    BY <2>1, <2>2
<1>5. n.line \in Nat /\ n.col \in Nat
  BY DEF Tokenizers
<1>6. n \in Tokenizers(C)
  BY <1>2, <1>3, <1>4, <1>5 DEF Tokenizers
<1> HIDE DEF c
<1>7. /\ n.stream = t.stream /\ n.cursor = t.cursor + 1
      /\ n.token = IF c = EOF THEN NUL ELSE c
      /\ n.prev = t.token /\ n.prev_prev = t.prev
      /\ n.has_token <=> t.has_token /\ c # EOF
      /\ n.newline <=> StartsLine(t, c)
  OBVIOUS
<1> QED
  BY <1>1, <1>6, <1>7 DEF c

\* At the end of the input a read only shifts.
LEMMA ReadsNothing ==
    ASSUME NEW C, NEW t \in Tokenizers(C), ~CanRead(t)
    PROVE  /\ next_token(t) \in Tokenizers(C)
           /\ next_token(t).stream = t.stream
           /\ next_token(t).cursor = t.cursor
           /\ next_token(t).token = t.token
           /\ next_token(t).prev = t.token
           /\ next_token(t).prev_prev = t.prev
           /\ next_token(t).has_token = t.has_token
           /\ next_token(t).newline = t.newline
<1>1. next_token(t) = [t EXCEPT !.prev_prev = t.prev, !.prev = t.token]
  BY DEF next_token, Shifted
<1> QED
  BY <1>1 DEF Tokenizers

LEMMA MovedType ==
    ASSUME NEW C, NEW t \in Tokenizers(C), NEW pre \in 0 .. t.cursor, NEW stray \in Int
    PROVE  /\ Moved(t, pre, stray) \in Tokenizers(C)
           /\ Moved(t, pre, stray).stream = t.stream
           /\ Moved(t, pre, stray).cursor = t.cursor - pre
           /\ Moved(t, pre, stray).token = t.token
           /\ Moved(t, pre, stray).has_token = TRUE
<1>1. PICK w \in [line : Int, pre : Int, col : Int] : w = Rewound(t, pre, stray)
  <2>1. t.line \in Nat /\ t.col \in Int /\ pre \in Int
    BY DEF Tokenizers
  <2>2. \A l \in DOMAIN t.lines : t.lines[l] \in Int
    <3>1. PICK f \in [0 .. MaxNumLines - 1 -> Nat] : f = t.lines
      BY DEF Tokenizers
    <3>2. \A l \in DOMAIN f : f[l] \in Int
      OBVIOUS
    <3> QED
      BY <3>1, <3>2
  <2> QED
    BY <2>1, <2>2, RewoundType
<1>2. NotBelowZero(w.line) \in Nat /\ NotBelowZero(w.col - w.pre) \in Nat
  BY DEF NotBelowZero
<1>3. t.cursor - pre \in Nat
  BY DEF Tokenizers
<1>4. Moved(t, pre, stray) = [t EXCEPT !.cursor = @ - pre, !.has_token = TRUE,
                                       !.line = NotBelowZero(w.line),
                                       !.col = NotBelowZero(w.col - w.pre)]
  BY <1>1 DEF Moved
<1> QED
  BY <1>2, <1>3, <1>4 DEF Tokenizers

(***************************************************************************)
(* Where backtrack does not refuse, token and prev are right again behind  *)
(* it; prev_prev is what token was.  Whether the newline flag is set tells *)
(* nothing, unless the character before is neither blank nor a newline.    *)
(***************************************************************************)
LEMMA BacktracksTo ==
    ASSUME NEW C, EOF \notin C, NEW t \in Tokenizers(C), NEW count \in Nat \ {0},
           t.cursor > count + 2, t.cursor <= Len(t.stream), NEW stray \in Int,
           \A i \in 1 .. t.cursor - 1 : t.stream[i] # EOF,
           NEW p \in Nat, p = t.cursor - count
    PROVE  /\ backtrack(t, count, stray) \in Tokenizers(C)
           /\ backtrack(t, count, stray).stream = t.stream
           /\ backtrack(t, count, stray).cursor = p
           /\ backtrack(t, count, stray).has_token
           /\ backtrack(t, count, stray).token = t.stream[p]
           /\ backtrack(t, count, stray).prev = t.stream[p - 1]
           /\ backtrack(t, count, stray).prev_prev = t.token
           /\ is_newline(t.stream[p]) => backtrack(t, count, stray).newline
           /\ backtrack(t, count, stray).newline =>
                 \/ is_newline(t.stream[p]) \/ is_newline(t.stream[p - 1])
                 \/ is_whitespace(t.stream[p - 1]) \/ t.stream[p - 1] = NUL
<1>1. t.cursor \in Nat /\ Len(t.stream) \in Nat
  BY DEF Tokenizers
<1>2. /\ count + 2 \in 0 .. t.cursor /\ t.cursor - (count + 2) = p - 2
      /\ p >= 3 /\ p < t.cursor /\ p <= Len(t.stream)
  BY <1>1
<1>3. PICK m \in Tokenizers(C) : m = Moved(t, count + 2, stray)
  BY <1>2, MovedType
<1>4. m.stream = t.stream /\ m.cursor = p - 2 /\ m.token = t.token /\ m.has_token
  <2>1. PICK pre \in 0 .. t.cursor : pre = count + 2
    BY <1>2
  <2>2. /\ m.stream = t.stream /\ m.cursor = t.cursor - pre
        /\ m.token = t.token /\ m.has_token = TRUE
    BY <1>3, <2>1, MovedType
  <2> QED
    BY <1>2, <2>1, <2>2
<1>5. PICK n \in Tokenizers(C) : n = next_token(m)
  BY <1>2, <1>4, ReadsOn DEF CanRead
<1>6. Under(m) = t.stream[p - 1] /\ t.stream[p - 1] # EOF
  <2>1. m.cursor + 1 = p - 1
    BY <1>2, <1>4
  <2>2. p - 1 \in 1 .. t.cursor - 1
    BY <1>1, <1>2
  <2> QED
    BY <1>4, <2>1, <2>2 DEF Under
<1>7. /\ n.stream = t.stream /\ n.cursor = p - 1 /\ n.prev = t.token
      /\ n.token = t.stream[p - 1] /\ n.has_token
      /\ is_newline(t.stream[p - 1]) => n.newline
  <2>1. m.cursor < Len(m.stream) /\ CanRead(m)
    BY <1>1, <1>2, <1>4 DEF CanRead
  <2>2. m.cursor + 1 = p - 1
    BY <1>2, <1>4
  <2> QED
    BY <1>4, <1>5, <1>6, <2>1, <2>2, ReadsOn DEF StartsLine
<1>8. Under(n) = t.stream[p] /\ t.stream[p] # EOF
  BY SMTT(30), <1>1, <1>2, <1>7 DEF Under
<1>9. n.cursor < Len(n.stream) /\ CanRead(n) /\ n.cursor + 1 = p
  BY <1>1, <1>2, <1>7 DEF CanRead
<1>10. backtrack(t, count, stray) = next_token(n)
  BY <1>1, <1>3, <1>5 DEF backtrack
<1> QED
  BY <1>7, <1>8, <1>9, <1>10, ReadsOn DEF StartsLine

-----------------------------------------------------------------------------
(***************************************************************************)
(* Reading with lookaheads, as the parsers do: the buffer ends with the    *)
(* sentinel, if it does, and token is the character under the cursor.      *)
(***************************************************************************)
Letter(c) == IF c = EOF THEN NUL ELSE c

Sound(C, t) ==
    /\ t \in Tokenizers(C) /\ t.cursor <= Len(t.stream)
    /\ \A i \in 1 .. Len(t.stream) - 1 : t.stream[i] # EOF
    /\ t.cursor = 0 => t.has_token /\ t.token = NUL
    /\ t.cursor > 0 => /\ t.token = Letter(t.stream[t.cursor])
                       /\ t.has_token <=> t.stream[t.cursor] # EOF
    /\ is_newline(t.token) => t.newline

\* The flag of a newline stays set over blanks.
OnBlankLine(t) ==
    t.newline /\ (t.token = NUL \/ is_whitespace(t.token) \/ is_newline(t.token))

\* next_token keeps this, and goes on unless the input has been read.
LEMMA SoundReads ==
    ASSUME NEW C, NEW t, Sound(C, t), Readable(t)
    PROVE  /\ Sound(C, next_token(t))
           /\ next_token(t).stream = t.stream
           /\ next_token(t).cursor = IF t.has_token THEN t.cursor + 1 ELSE t.cursor
           /\ next_token(t).prev = t.token
           /\ next_token(t).prev_prev = t.prev
           /\ t.has_token => (next_token(t).newline
                 <=> is_newline(next_token(t).token) \/ OnBlankLine(t))
<1>1. t \in Tokenizers(C) /\ t.cursor \in Nat /\ Len(t.stream) \in Nat
  BY DEF Sound, Tokenizers
<1>2. CanRead(t) <=> t.has_token
  BY <1>1 DEF Sound, CanRead, Tokenizers
<1>3. CASE t.has_token
  <2>1. t.cursor < Len(t.stream) /\ CanRead(t)
    BY <1>2, <1>3 DEF Readable
  <2>2. PICK u \in Tokenizers(C) : u = next_token(t)
    BY <1>1, <2>1, ReadsOn
  <2>3. /\ u.stream = t.stream /\ u.cursor = t.cursor + 1
        /\ u.token = Letter(Under(t))
        /\ u.has_token <=> Under(t) # EOF
        /\ u.prev = t.token /\ u.prev_prev = t.prev
    BY <1>1, <1>3, <2>1, <2>2, ReadsOn DEF Letter
  <2>4. Under(t) = u.stream[u.cursor]
    BY <2>3 DEF Under
  <2>5. u.cursor # 0 /\ u.cursor <= Len(u.stream)
    BY <1>1, <2>1, <2>3
  <2>6. \A i \in 1 .. Len(u.stream) - 1 : u.stream[i] # EOF
    BY <2>3 DEF Sound
  <2>7. u.token = Letter(u.stream[u.cursor]) /\ (u.has_token <=> u.stream[u.cursor] # EOF)
    BY <2>3, <2>4
  <2>8. u.newline <=> is_newline(u.token) \/ OnBlankLine(t)
    <3>1. u.newline <=> StartsLine(t, Under(t))
      BY <1>1, <2>1, <2>2, ReadsOn
    <3>2. is_newline(Under(t)) <=> is_newline(u.token)
      BY <2>3 DEF is_newline, Letter, EOF, NUL
    <3> QED
      BY <3>1, <3>2 DEF StartsLine, OnBlankLine
  <2>9. Sound(C, u)
    BY <2>2, <2>5, <2>6, <2>7, <2>8 DEF Sound
  <2> QED
    BY <1>3, <2>2, <2>3, <2>8, <2>9
<1>4. CASE ~t.has_token
  <2>1. PICK u \in Tokenizers(C) : u = next_token(t)
    BY <1>1, <1>2, <1>4, ReadsNothing
  <2>2. /\ u.stream = t.stream /\ u.cursor = t.cursor /\ u.token = t.token
        /\ u.has_token = t.has_token /\ u.prev = t.token /\ u.prev_prev = t.prev
    BY <1>1, <1>2, <1>4, <2>1, ReadsNothing
  <2>3. t.token = NUL
    BY <1>1, <1>4 DEF Sound, Letter
  <2>4. Sound(C, u)
    BY <2>1, <2>2, <2>3 DEF Sound, is_newline, NUL
  <2> QED
    BY <1>4, <2>1, <2>2, <2>4
<1> QED
  BY <1>3, <1>4

\* What has been read stays where it is, also when more is added.
KeepsText(t, u) == /\ Len(t.stream) <= Len(u.stream)
                   /\ \A i \in 1 .. Len(t.stream) : u.stream[i] = t.stream[i]

LEMMA TextKept ==
    ASSUME NEW C, NEW t, Sound(C, t)
    PROVE  /\ KeepsText(t, t)
           /\ \A u, v : Sound(C, u) /\ Sound(C, v) /\ KeepsText(t, u) /\ KeepsText(u, v)
                         => KeepsText(t, v)
<1>1. \A u : Sound(C, u) => Len(u.stream) \in Nat
  BY DEF Sound, Tokenizers
<1> QED
  BY <1>1 DEF KeepsText

\* So does a character that is added where the buffer has been read.
Grown(t, c) == [t EXCEPT !.stream = Append(@, c)]

LEMMA SoundGrows ==
    ASSUME NEW C, NEW t, Sound(C, t), t.has_token, t.cursor = Len(t.stream),
           NEW c \in C \cup {EOF}
    PROVE  /\ Sound(C, Grown(t, c)) /\ Readable(Grown(t, c))
           /\ Grown(t, c).stream = Append(t.stream, c)
           /\ Grown(t, c).cursor = t.cursor /\ Grown(t, c).token = t.token
           /\ Grown(t, c).prev = t.prev /\ Grown(t, c).has_token
           /\ Grown(t, c).newline = t.newline
           /\ KeepsText(t, Grown(t, c))
<1>1. t \in Tokenizers(C) /\ t.cursor \in Nat /\ t.stream \in Seq(C \cup {EOF})
  BY DEF Sound, Tokenizers
<1>2. PICK n \in Nat : n = Len(t.stream)
  BY <1>1
<1>3. PICK s \in Seq(C \cup {EOF}) : s = Append(t.stream, c)
  <2> DEFINE S == C \cup {EOF}
  <2>1. t.stream \in Seq(S) /\ c \in S
    BY <1>1
  <2> HIDE DEF S
  <2>2. Append(t.stream, c) \in Seq(S)
    BY <2>1
  <2> QED
    BY <2>2 DEF S
<1>4. Len(s) = n + 1 /\ \A i \in 1 .. n : s[i] = t.stream[i]
  BY <1>1, <1>2, <1>3
<1>5. PICK u : u = Grown(t, c)
  OBVIOUS
<1>6. /\ u \in Tokenizers(C) /\ u.stream = s /\ u.cursor = t.cursor /\ u.token = t.token
      /\ u.prev = t.prev /\ u.has_token = t.has_token /\ u.newline = t.newline
  BY <1>1, <1>3, <1>5 DEF Grown, Tokenizers
<1>7. \A i \in 1 .. n : t.stream[i] # EOF
  <2>1. t.cursor > 0 => t.stream[t.cursor] # EOF
    BY DEF Sound
  <2> QED
    BY <1>2, <2>1 DEF Sound
<1>8. \A i \in 1 .. Len(u.stream) - 1 : u.stream[i] # EOF
  BY <1>2, <1>4, <1>6, <1>7
<1>9. u.cursor > 0 => u.stream[u.cursor] = t.stream[t.cursor]
  BY <1>1, <1>2, <1>4, <1>6
<1>10. u.cursor < Len(u.stream)
  BY <1>2, <1>4, <1>6
<1>11. Sound(C, u)
  BY <1>2, <1>6, <1>8, <1>9, <1>10 DEF Sound
<1>12. KeepsText(t, u)
  BY <1>2, <1>4, <1>6 DEF KeepsText
<1> QED
  BY <1>3, <1>5, <1>6, <1>10, <1>11, <1>12 DEF Readable

\* And backtrack, unless it refuses, goes back as far as it should.
Refuses(t, count) == ~(count > 0 /\ t.cursor > count + 2)

LEMMA SoundBacks ==
    ASSUME NEW C, EOF \notin C, NEW t, Sound(C, t), NEW count \in Nat
    PROVE  /\ Sound(C, backtrack(t, count, 0))
           /\ backtrack(t, count, 0).stream = t.stream
           /\ backtrack(t, count, 0).cursor = IF Refuses(t, count) THEN t.cursor
                                              ELSE t.cursor - count
           /\ ~Refuses(t, count) => backtrack(t, count, 0).has_token
<1>1. t \in Tokenizers(C) /\ t.cursor \in Nat /\ Len(t.stream) \in Nat
      /\ t.cursor <= Len(t.stream)
  BY DEF Sound, Tokenizers
<1>2. CASE Refuses(t, count)
  <2>1. backtrack(t, count, 0) = t
    BY <1>2 DEF Refuses, backtrack
  <2> QED
    BY <1>2, <2>1
<1>3. CASE ~Refuses(t, count)
  <2>1. count \in Nat \ {0} /\ t.cursor > count + 2
    BY <1>3 DEF Refuses
  <2>2. PICK p \in Nat : p = t.cursor - count
    BY <1>1, <2>1
  <2>3. \A i \in 1 .. t.cursor - 1 : t.stream[i] # EOF
    BY <1>1 DEF Sound
  <2>4. PICK u \in Tokenizers(C) : u = backtrack(t, count, 0)
    BY <1>1, <2>1, <2>2, <2>3, BacktracksTo
  <2>5. /\ u.stream = t.stream /\ u.cursor = p /\ u.has_token /\ u.token = t.stream[p]
        /\ is_newline(u.token) => u.newline
    BY <1>1, <2>1, <2>2, <2>3, <2>4, BacktracksTo
  <2>6. p > 0 /\ p \in 1 .. t.cursor - 1 /\ p <= Len(t.stream)
    BY <1>1, <2>1, <2>2
  <2>7. t.stream[p] # EOF
    BY <2>3, <2>6
  <2>8. Sound(C, u)
    BY <2>4, <2>5, <2>6, <2>7 DEF Sound, Letter
  <2> QED
    BY <1>3, <2>2, <2>4, <2>5, <2>8
<1> QED
  BY <1>2, <1>3

(***************************************************************************)
(* A read of an input that is chosen letter by letter: where the buffer    *)
(* has been read, one of the letters L or the sentinel is added before.    *)
(***************************************************************************)
Offered(t, L) == IF t.cursor < Len(t.stream) \/ ~CanRead(t) THEN {t}
                 ELSE {Grown(t, c) : c \in {EOF} \cup L}

LEMMA SoundOffers ==
    ASSUME NEW C, NEW t, Sound(C, t), NEW L \in SUBSET C, NEW i \in Offered(t, L)
    PROVE  /\ Sound(C, next_token(i))
           /\ next_token(i).cursor = IF t.has_token THEN t.cursor + 1 ELSE t.cursor
           /\ next_token(i).prev = t.token
           /\ next_token(i).prev_prev = t.prev
           /\ KeepsText(t, next_token(i))
           /\ t.has_token => (next_token(i).newline
                 <=> is_newline(next_token(i).token) \/ OnBlankLine(t))
<1>1. t \in Tokenizers(C) /\ t.cursor \in Nat /\ Len(t.stream) \in Nat
  BY DEF Sound, Tokenizers
<1>2. CanRead(t) <=> t.has_token
  BY <1>1 DEF Sound, CanRead, Tokenizers
<1>3. CASE t.cursor < Len(t.stream) \/ ~CanRead(t)
  <2>1. i = t /\ Readable(t)
    BY <1>3 DEF Offered, Readable
  <2>2. next_token(i).stream = t.stream
    BY <2>1, SoundReads
  <2>3. KeepsText(t, next_token(i))
    BY <1>1, <2>2 DEF KeepsText
  <2> QED
    BY <2>1, <2>3, SoundReads
<1>4. CASE ~(t.cursor < Len(t.stream) \/ ~CanRead(t))
  <2>1. t.has_token /\ t.cursor = Len(t.stream)
    BY <1>1, <1>2, <1>4 DEF Sound
  <2>2. PICK c \in C \cup {EOF} : i = Grown(t, c)
    BY <1>4 DEF Offered
  <2>3. /\ Sound(C, i) /\ Readable(i) /\ i.cursor = t.cursor /\ i.token = t.token
        /\ i.prev = t.prev /\ i.has_token /\ i.newline = t.newline /\ KeepsText(t, i)
    BY <2>1, <2>2, SoundGrows
  <2>4. next_token(i).stream = i.stream
    BY <2>3, SoundReads
  <2>5. KeepsText(t, next_token(i))
    BY <2>3, <2>4 DEF KeepsText
  <2>6. OnBlankLine(i) <=> OnBlankLine(t)
    BY <2>3 DEF OnBlankLine
  <2> QED
    BY <2>1, <2>3, <2>5, <2>6, SoundReads
<1> QED
  BY <1>3, <1>4

\* A character under the cursor is one of the input, and the next can be read.
LEMMA SoundToken ==
    ASSUME NEW C, NEW t, Sound(C, t)
    PROVE  /\ t.token # NUL => t.has_token /\ t.cursor > 0 /\ t.token \in C
           /\ Returned(t) = IF t.has_token THEN 1 ELSE 0
           /\ t.cursor \in 0 .. Len(t.stream) /\ t.cursor \in Nat
           /\ t.stream \in Seq(C \cup {EOF})
<1>1. t \in Tokenizers(C) /\ t.cursor \in Nat /\ Len(t.stream) \in Nat
  BY DEF Sound, Tokenizers
<1>2. t.token # NUL => t.cursor > 0 /\ t.has_token
  BY <1>1 DEF Sound, Letter
<1>3. t.token \in C \cup {NUL} /\ t.stream \in Seq(C \cup {EOF})
  BY <1>1 DEF Tokenizers
<1>4. Returned(t) = IF t.has_token THEN 1 ELSE 0
  BY <1>1 DEF Sound, Returned, CanRead
<1>5. t.cursor \in 0 .. Len(t.stream)
  BY <1>1 DEF Sound
<1> QED
  BY <1>1, <1>2, <1>3, <1>4, <1>5

\* The tokenizer after count characters of a buffer without the sentinel.
AfterReads(x, count) ==
    LET opened[i \in 0 .. count] == IF i = 0 THEN x ELSE next_token(opened[i - 1])
    IN  opened[count]

LEMMA SoundOpens ==
    ASSUME NEW C, NEW x, Sound(C, x), x.cursor = 0,
           \A i \in 1 .. Len(x.stream) : x.stream[i] # EOF,
           NEW count \in 0 .. Len(x.stream)
    PROVE  /\ Sound(C, AfterReads(x, count))
           /\ AfterReads(x, count).stream = x.stream
           /\ AfterReads(x, count).cursor = count
           /\ AfterReads(x, count).has_token
<1> DEFINE W    == {t \in Tokenizers(C) : Sound(C, t)}
           next == [t \in W |-> IF Readable(t) THEN next_token(t) ELSE t]
           eq(f) == f = [i \in 0 .. count |-> IF i = 0 THEN x ELSE next_token(f[i - 1])]
           Here(i, t) == /\ t \in W /\ t.stream = x.stream /\ t.cursor = i /\ t.has_token
<1>1. x \in W /\ count \in Nat /\ Len(x.stream) \in Nat
  BY DEF Sound, Tokenizers
<1>2. \A t \in W : Readable(t) => next_token(t) \in W
  <2> SUFFICES ASSUME NEW t \in W, Readable(t) PROVE next_token(t) \in W
    OBVIOUS
  <2>1. Sound(C, next_token(t))
    BY SoundReads
  <2> QED
    BY <2>1 DEF Sound
<1>3. next \in [W -> W]
  BY <1>2
<1>4. ASSUME NEW i \in 0 .. count, i < count, NEW t, Here(i, t)
      PROVE  Readable(t) /\ Here(i + 1, next_token(t))
  <2>1. Sound(C, t) /\ i < Len(x.stream)
    BY <1>1, <1>4
  <2>2. Readable(t)
    BY <1>4, <2>1 DEF Readable
  <2>3. next_token(t) \in W /\ Sound(C, next_token(t))
    BY <1>2, <1>4, <2>1, <2>2, SoundReads
  <2>4. next_token(t).stream = x.stream /\ next_token(t).cursor = i + 1
    BY <1>4, <2>1, <2>2, SoundReads
  <2>5. x.stream[i + 1] # EOF
    BY <1>1, <2>1
  <2>6. next_token(t).has_token
    BY <2>3, <2>4, <2>5 DEF Sound
  <2> QED
    BY <2>2, <2>3, <2>4, <2>6
<1>5. PICK g \in [0 .. count -> W] : Turns(count, x, next, g)
  <2> HIDE DEF W, next
  <2> QED
    BY <1>1, <1>3, TurnsEnd
<1> HIDE DEF Here
<1>6. ASSUME NEW f, eq(f) \/ Turns(count, x, next, f)
      PROVE  \A i \in 0 .. count : Here(i, f[i])
  <2> DEFINE T == {i \in Nat : i <= count => Here(i, f[i])}
  <2>1. 0 \in T
    <3>1. f[0] = x
      <4>1. 0 \in 0 .. count
        BY <1>1
      <4>2. CASE eq(f)
        BY <4>1, <4>2
      <4>3. CASE Turns(count, x, next, f)
        BY <4>1, <4>3 DEF Turns
      <4> QED
        BY <1>6, <4>2, <4>3
    <3>2. x.has_token
      BY DEF Sound
    <3> QED
      BY <1>1, <3>1, <3>2 DEF Here
  <2>2. ASSUME NEW i \in Nat, i \in T PROVE i + 1 \in T
    <3> SUFFICES ASSUME i + 1 <= count PROVE Here(i + 1, f[i + 1])
      OBVIOUS
    <3>1. i \in 0 .. count /\ i < count /\ Here(i, f[i]) /\ i + 1 \in 0 .. count
          /\ i + 1 # 0 /\ (i + 1) - 1 = i
      BY <2>2
    <3>2. Readable(f[i]) /\ Here(i + 1, next_token(f[i])) /\ f[i] \in W
      BY <1>4, <3>1 DEF Here
    <3>3. next[f[i]] = next_token(f[i])
      BY <3>2
    <3>4. f[i + 1] = next_token(f[i])
      BY <1>6, <3>1, <3>3 DEF Turns
    <3> QED
      BY <3>2, <3>4
  <2> HIDE DEF T
  <2>3. Nat \subseteq T
    BY <2>1, <2>2, NatInducts
  <2> QED
    BY <2>3 DEF T
<1>7. eq(g)
  <2>1. ASSUME NEW i \in 0 .. count, i # 0 PROVE next[g[i - 1]] = next_token(g[i - 1])
    <3>1. i - 1 \in 0 .. count /\ i - 1 < count
      BY <2>1
    <3>2. Here(i - 1, g[i - 1])
      BY <1>5, <1>6, <3>1
    <3>3. Readable(g[i - 1]) /\ g[i - 1] \in W
      BY <1>4, <3>1, <3>2 DEF Here
    <3> QED
      BY <3>3
  <2> HIDE DEF next
  <2> QED
    BY <1>5, <2>1 DEF Turns
<1>8. PICK h : eq(h) /\ h[count] = AfterReads(x, count)
  <2>1. eq(CHOOSE h : eq(h))
    BY <1>7
  <2> QED
    BY <2>1 DEF AfterReads
<1>9. Here(count, h[count])
  <2>1. count \in 0 .. count
    BY <1>1
  <2> QED
    BY <1>6, <1>8, <2>1
<1> QED
  BY <1>8, <1>9 DEF Here
=============================================================================
