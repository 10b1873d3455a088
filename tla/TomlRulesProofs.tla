--------------------------- MODULE TomlRulesProofs ---------------------------
(***************************************************************************)
(* The rules about paths seal inline tables and tables of arrays.          *)
(***************************************************************************)
EXTENDS TomlRules, Induction, SequenceTheorems, FiniteSetTheorems

Steps == Ids \cup Nat

\* A path none of whose prefixes is closed, and one that leads through no value.
Clear(p) == \A q \in DOMAIN kind : IsPrefix(q, p) => ~Closed(q)
Plain(p) == \A q \in DOMAIN kind : IsPrefix(q, p) => kind[q] # "value"

\* The paths right below a are its n tables.
Holds(a, n) == /\ \A s \in Steps : Append(a, s) \in DOMAIN kind <=> s \in 0 .. n - 1
               /\ \A i \in 0 .. n - 1 : kind[Append(a, i)] = "element"

Typed == /\ DOMAIN kind \subseteq Seq(Steps)
         /\ base \in DOMAIN kind
         /\ phase \in Forms \cup {"element", "value"} => at \in DOMAIN kind
         /\ phase = "element" => kind[at] = "array"
         /\ open \in Seq(DOMAIN kind)

\* The paths form a tree, in which an array table has its tables right below it.
Rooted == /\ <<>> \in DOMAIN kind /\ kind[<<>>] = "table"
          /\ \A p \in DOMAIN kind :
                p = <<>> \/ \E q \in DOMAIN kind : \E s \in Steps : p = Append(q, s)

Numbered ==
    /\ \A q \in DOMAIN kind : kind[q] = "element" =>
          \E a \in DOMAIN kind : \E i \in Nat : kind[a] = "array" /\ q = Append(a, i)
    /\ \A a \in DOMAIN kind : kind[a] = "array" =>
          \E n \in Nat : Holds(a, n) /\ (n = 0 => phase = "element" /\ at = a)

\* Each inline table is inside the one opened before it.
Nested == /\ phase \notin {"key", "value", "inline"} => open = <<>>
          /\ phase = "inline" => open # <<>>
          /\ \A m, n \in 1 .. Len(open) : m < n => Len(open[m]) < Len(open[n])
          /\ phase = "key" => \A n \in 1 .. Len(open) : Len(open[n]) <= Len(at)
          /\ phase = "value" => \A n \in 1 .. Len(open) : Len(open[n]) < Len(at)

\* Where keys are defined is not closed, and headers lead through no value.
Cleared == /\ Clear(base) /\ Plain(base)
           /\ phase \in Forms \cup {"element", "value"} => Clear(at)
           /\ phase \in {"table", "arraytable", "element"} => Plain(at)
           /\ \A n \in 1 .. Len(open) : Clear(open[n])

Going   == phase \in Forms \cup {"statement", "element", "value", "inline"}
SealInv == Typed /\ Rooted /\ Numbered /\ Nested /\ Cleared

\* What ClosedSealed says of a step.
Seals == \A p \in DOMAIN kind : Closed(p) =>
            \A q \in DOMAIN kind \cup DOMAIN kind' : IsPrefix(p, q) =>
               q \in DOMAIN kind \cap DOMAIN kind' /\ kind'[q] = kind[q]

-----------------------------------------------------------------------------
(* Paths. *)

LEMMA StepFacts ==
    ASSUME NEW p \in Seq(Steps), NEW s \in Steps
    PROVE  /\ Append(p, s) \in Seq(Steps) /\ Append(p, s) # <<>> /\ Len(p) \in Nat
           /\ Len(Append(p, s)) = Len(p) + 1
           /\ SubSeq(Append(p, s), 1, Len(Append(p, s)) - 1) = p
           /\ \A q \in Seq(Steps) : \A r \in Steps : Append(p, s) = Append(q, r) => p = q /\ s = r
<1>1. /\ Append(p, s) \in Seq(Steps) /\ Append(p, s) # <<>> /\ Len(p) \in Nat
      /\ Len(Append(p, s)) = Len(p) + 1
      /\ SubSeq(Append(p, s), 1, Len(Append(p, s)) - 1) = p
  OBVIOUS
<1>2. \A q \in Seq(Steps) : \A r \in Steps : Append(p, s) = Append(q, r) => p = q /\ s = r
  BY AppendInjective
<1> QED
  BY <1>1, <1>2

LEMMA PrefixFacts ==
    ASSUME NEW p \in Seq(Steps), NEW q \in Seq(Steps), NEW s \in Steps
    PROVE  /\ IsPrefix(p, p)
           /\ IsPrefix(p, Append(q, s)) <=> IsPrefix(p, q) \/ p = Append(q, s)
           /\ IsPrefix(p, q) => Len(p) <= Len(q)
           /\ IsPrefix(p, <<>>) => p = <<>>
<1>1. IsPrefix(p, p)
  BY DEF IsPrefix
<1>2. ASSUME Len(p) <= Len(q)
      PROVE  SubSeq(Append(q, s), 1, Len(p)) = SubSeq(q, 1, Len(p))
  BY <1>2
<1>3. ASSUME Len(p) = Len(q) + 1, SubSeq(Append(q, s), 1, Len(p)) = p
      PROVE  p = Append(q, s)
  BY <1>3
<1>4. SubSeq(Append(q, s), 1, Len(Append(q, s))) = Append(q, s)
      /\ Len(Append(q, s)) = Len(q) + 1 /\ Len(p) \in Nat /\ Len(q) \in Nat
  OBVIOUS
<1>5. IsPrefix(p, <<>>) => p = <<>>
  BY DEF IsPrefix
<1>6. ASSUME IsPrefix(p, Append(q, s)) PROVE IsPrefix(p, q) \/ p = Append(q, s)
  <2>1. Len(p) <= Len(q) + 1 /\ SubSeq(Append(q, s), 1, Len(p)) = p
    BY <1>4, <1>6 DEF IsPrefix
  <2>2. CASE Len(p) <= Len(q)
    BY <1>2, <2>1, <2>2 DEF IsPrefix
  <2>3. CASE Len(p) = Len(q) + 1
    BY <1>3, <2>1, <2>3
  <2>4. Len(p) <= Len(q) \/ Len(p) = Len(q) + 1
    <3>1. Len(p) \in Nat /\ Len(q) \in Nat
      OBVIOUS
    <3>2. Len(p) <= Len(q) + 1
      BY <2>1
    <3> QED
      BY <3>1, <3>2
  <2> QED
    BY <2>2, <2>3, <2>4
<1>7. ASSUME IsPrefix(p, q) PROVE IsPrefix(p, Append(q, s))
  BY <1>2, <1>4, <1>7 DEF IsPrefix
<1>8. ASSUME p = Append(q, s) PROVE IsPrefix(p, Append(q, s))
  BY <1>4, <1>8 DEF IsPrefix
<1>9. IsPrefix(p, q) => Len(p) <= Len(q)
  BY DEF IsPrefix
<1> QED
  BY <1>1, <1>5, <1>6, <1>7, <1>8, <1>9

\* The prefixes of a defined path are defined.
LEMMA PrefixDefined ==
    ASSUME Typed, Rooted, NEW p \in DOMAIN kind, NEW q \in Seq(Steps), IsPrefix(q, p)
    PROVE  q \in DOMAIN kind
<1> DEFINE S == {n \in Nat : \A d \in DOMAIN kind : Len(d) = n =>
                    \A r \in Seq(Steps) : IsPrefix(r, d) => r \in DOMAIN kind}
<1>1. \A d \in DOMAIN kind : d \in Seq(Steps) /\ Len(d) \in Nat
  BY DEF Typed
<1>2. 0 \in S
  <2>1. ASSUME NEW d \in DOMAIN kind, Len(d) = 0, NEW r \in Seq(Steps), IsPrefix(r, d)
        PROVE  r \in DOMAIN kind
    <3>1. d = <<>>
      BY <1>1, <2>1
    <3> QED
      BY <2>1, <3>1 DEF IsPrefix
  <2> QED
    BY <2>1
<1>3. ASSUME NEW n \in Nat, n \in S PROVE n + 1 \in S
  <2>1. ASSUME NEW d \in DOMAIN kind, Len(d) = n + 1, NEW r \in Seq(Steps), IsPrefix(r, d)
        PROVE  r \in DOMAIN kind
    <3>1. PICK e \in DOMAIN kind, s \in Steps : d = Append(e, s)
      BY <2>1 DEF Rooted
    <3>2. Len(e) = n
      BY <1>1, <2>1, <3>1
    <3>3. IsPrefix(r, e) \/ r = d
      BY <1>1, <2>1, <3>1, PrefixFacts
    <3> QED
      BY <1>3, <2>1, <3>2, <3>3
  <2> QED
    BY <2>1
<1>4. Nat \subseteq S
  <2> HIDE DEF S
  <2> QED
    BY <1>2, <1>3, NatInducts
<1> QED
  BY <1>1, <1>4

\* The number of tables that Tables counts.
LEMMA TablesHeld ==
    ASSUME Typed, NEW a \in DOMAIN kind, NEW n \in Nat, Holds(a, n)
    PROVE  Tables(a) = n
<1> DEFINE C == {q \in DOMAIN kind : Len(q) = Len(a) + 1 /\ IsPrefix(a, q)}
           f == [i \in 1 .. n |-> Append(a, i - 1)]
<1>1. a \in Seq(Steps) /\ DOMAIN kind \subseteq Seq(Steps)
  BY DEF Typed
<1>2. ASSUME NEW i \in 1 .. n
      PROVE  i - 1 \in Steps /\ i - 1 \in 0 .. n - 1 /\ f[i] = Append(a, i - 1) /\ f[i] \in C
  <2>1. i - 1 \in Steps /\ i - 1 \in 0 .. n - 1
    BY DEF Steps
  <2>2. Append(a, i - 1) \in DOMAIN kind
    BY <2>1 DEF Holds
  <2>3. IsPrefix(a, Append(a, i - 1)) /\ Len(Append(a, i - 1)) = Len(a) + 1
    BY <1>1, <2>1, PrefixFacts, StepFacts
  <2> QED
    BY <2>1, <2>2, <2>3
<1>3. f \in [1 .. n -> C]
  BY <1>2
<1>4. ASSUME NEW q \in C PROVE \E i \in 1 .. n : f[i] = q
  <2>1. q \in Seq(Steps) /\ Len(q) = Len(a) + 1 /\ SubSeq(q, 1, Len(a)) = a
    BY <1>1 DEF IsPrefix
  <2>2. PICK s \in Steps : q = Append(a, s)
    BY <1>1, <2>1
  <2>3. s \in 0 .. n - 1
    BY <2>2 DEF Holds
  <2>4. s + 1 \in 1 .. n /\ (s + 1) - 1 = s
    BY <2>3
  <2> QED
    BY <2>2, <2>4
<1>5. ASSUME NEW i \in 1 .. n, NEW j \in 1 .. n, f[i] = f[j] PROVE i = j
  <2>1. i - 1 = j - 1
    BY <1>1, <1>2, <1>5, StepFacts
  <2> QED
    BY <2>1
<1>6. f \in Bijection(1 .. n, C)
  BY <1>3, <1>4, <1>5 DEF Bijection, Injection, Surjection, IsInjective
<1>7. Cardinality(C) = n
  <2> HIDE DEF C, f
  <2>1. ExistsBijection(1 .. n, C)
    BY <1>6 DEF ExistsBijection
  <2> QED
    BY <2>1, FS_CountingElements
<1> QED
  BY <1>7 DEF Tables

\* Of the tables of an array, all but the latest are closed.
LEMMA TableClosed ==
    ASSUME Typed, NEW a \in DOMAIN kind, NEW n \in Nat, Holds(a, n), NEW i \in 0 .. n - 1
    PROVE  Closed(Append(a, i)) <=> i # n - 1
<1>1. a \in Seq(Steps) /\ i \in Steps /\ n - 1 \in Steps
  BY DEF Typed, Steps
<1>2. kind[Append(a, i)] = "element" /\ Tables(a) = n
  BY TablesHeld DEF Holds
<1>3. SubSeq(Append(a, i), 1, Len(Append(a, i)) - 1) = a
  BY <1>1, StepFacts
<1>4. Append(a, i) = Append(a, n - 1) <=> i = n - 1
  BY <1>1, StepFacts
<1> QED
  BY <1>2, <1>3, <1>4 DEF Closed

\* What is closed but the tables of arrays.
LEMMA ValueClosed ==
    ASSUME NEW p \in DOMAIN kind, kind[p] # "element"
    PROVE  Closed(p) <=> /\ kind[p] = "value" /\ ~(phase = "value" /\ at = p)
                         /\ \A n \in 1 .. Len(open) : open[n] # p
  BY DEF Closed

\* TableClosed, in the form that carries over to the next state.
TableRule == Typed => \A a \in DOMAIN kind : \A n \in Nat : Holds(a, n) =>
                         \A i \in 0 .. n - 1 : Closed(Append(a, i)) <=> i # n - 1

LEMMA TableRuleNow == TableRule
  BY TableClosed DEF TableRule

LEMMA TableRuleNext == TableRule'
  BY TableRuleNow, PTL

-----------------------------------------------------------------------------
(* What a step leaves open. *)

\* A value that is being parsed.
Unfinished(q) == \/ phase = "value" /\ at = q
                 \/ \E n \in 1 .. Len(open) : open[n] = q

\* The array that q is a table of, if it is one, gets no more tables.
Steady(q) == \A a \in DOMAIN kind : \A i \in Nat : \A n \in Nat :
                kind[a] = "array" /\ q = Append(a, i) /\ Holds(a, n)
                   => a \in DOMAIN kind' /\ Holds(a, n)'

\* The step does not close q.
Kept(q) == /\ q \in DOMAIN kind'
           /\ kind'[q] = "element" <=> kind[q] = "element"
           /\ kind'[q] = "value" => kind[q] = "value" /\ (Unfinished(q) => Unfinished(q)')
           /\ Steady(q)

LEMMA KeptOpen ==
    ASSUME Typed, Numbered, Typed', NEW q \in DOMAIN kind, Kept(q), Closed(q)'
    PROVE  Closed(q)
<1>1. CASE kind[q] = "element"
  <2>1. PICK a \in DOMAIN kind, i \in Nat : kind[a] = "array" /\ q = Append(a, i)
    BY <1>1 DEF Numbered
  <2>2. PICK n \in Nat : Holds(a, n)
    BY <2>1 DEF Numbered
  <2>3. a \in DOMAIN kind' /\ Holds(a, n)'
    BY <2>1, <2>2 DEF Kept, Steady
  <2>4. i \in 0 .. n - 1
    BY <2>1, <2>2 DEF Holds, Steps
  <2>5. Closed(Append(a, i)) <=> i # n - 1
    BY <2>2, <2>4, TableRuleNow DEF TableRule
  <2>6. Closed(Append(a, i))' <=> i # n - 1
    BY <2>3, <2>4, TableRuleNext DEF TableRule
  <2>7. PICK r : r = Append(a, i)
    OBVIOUS
  <2>8. Closed(r)' <=> Closed(Append(a, i))'
    BY <2>7 DEF Closed
  <2> QED
    BY <2>1, <2>5, <2>6, <2>7, <2>8
<1>2. CASE kind[q] # "element"
  <2>1. kind'[q] = "value" /\ ~Unfinished(q)'
    BY <1>2 DEF Kept, Closed, Unfinished
  <2>2. kind[q] = "value" /\ ~Unfinished(q)
    BY <2>1 DEF Kept
  <2> QED
    BY <2>2 DEF Closed, Unfinished
<1> QED
  BY <1>1, <1>2

\* A path stays clear if no prefix of it is closed, and plain likewise.
LEMMA ClearStays ==
    ASSUME Typed, Rooted, Numbered, Typed', NEW p \in DOMAIN kind,
           NEW x, DOMAIN kind' \subseteq DOMAIN kind \cup {x},
           \A q \in DOMAIN kind : IsPrefix(q, p) => Kept(q)
    PROVE  /\ Clear(p) => Clear(p)'
           /\ Plain(p) => Plain(p)'
<1>1. ASSUME NEW q \in DOMAIN kind', IsPrefix(q, p) PROVE q \in DOMAIN kind
  BY <1>1, PrefixDefined DEF Typed
<1>2. ASSUME Clear(p), NEW q \in DOMAIN kind', IsPrefix(q, p) PROVE ~Closed(q)'
  BY <1>1, <1>2, KeptOpen DEF Clear
<1>3. ASSUME Plain(p), NEW q \in DOMAIN kind', IsPrefix(q, p) PROVE kind'[q] # "value"
  BY <1>1, <1>3 DEF Plain, Kept
<1> QED
  BY <1>2, <1>3 DEF Clear, Plain

\* One path more, with a kind that neither closes it nor is that of a value.
LEMMA ClearGrows ==
    ASSUME Typed', NEW h, h \in Seq(Steps), NEW s \in Steps, NEW p, p = Append(h, s),
           p \in DOMAIN kind', kind'[p] # "element"
    PROVE  /\ Clear(h)' /\ (kind'[p] = "value" => Unfinished(p)') => Clear(p)'
           /\ Plain(h)' /\ kind'[p] # "value" => Plain(p)'
<1>1. ASSUME NEW q \in DOMAIN kind', IsPrefix(q, p) PROVE IsPrefix(q, h) \/ q = p
  BY <1>1, PrefixFacts DEF Typed
<1>2. (kind'[p] = "value" => Unfinished(p)') => ~Closed(p)'
  BY DEF Closed, Unfinished
<1> QED
  BY <1>1, <1>2 DEF Clear, Plain

-----------------------------------------------------------------------------
(* Steps that define nothing. *)

LEMMA SameKinds ==
    ASSUME Typed, Rooted, Numbered, kind' = kind, phase # "element"
    PROVE  /\ Rooted' /\ Numbered'
           /\ \A q \in DOMAIN kind : Steady(q)
           /\ \A q \in DOMAIN kind : (Unfinished(q) => Unfinished(q)') => Kept(q)
<1>1. \A a \in DOMAIN kind : \A n \in Nat : Holds(a, n)' <=> Holds(a, n)
  BY DEF Holds
<1>2. Rooted'
  BY DEF Rooted
<1>3. Numbered'
  BY <1>1 DEF Numbered
<1>4. \A q \in DOMAIN kind : Steady(q)
  BY <1>1 DEF Steady
<1>5. \A q \in DOMAIN kind : (Unfinished(q) => Unfinished(q)') => Kept(q)
  BY <1>4 DEF Kept
<1> QED
  BY <1>2, <1>3, <1>4, <1>5

LEMMA SameSeals == ASSUME kind' = kind PROVE Seals
  BY DEF Seals

LEMMA ClearNext ==
    ASSUME NEW p
    PROVE  /\ base' = p => (Clear(base)' <=> Clear(p)') /\ (Plain(base)' <=> Plain(p)')
           /\ at' = p => (Clear(at)' <=> Clear(p)') /\ (Plain(at)' <=> Plain(p)')
           /\ \A n : open'[n] = p => (Clear(open[n])' <=> Clear(p)')
  BY DEF Clear, Plain

\* Nothing is defined, and nothing that is being parsed ends.
LEMMA Calm ==
    ASSUME SealInv, Typed', kind' = kind, phase # "element",
           \A q \in DOMAIN kind : Unfinished(q) => Unfinished(q)'
    PROVE  /\ Rooted' /\ Numbered' /\ Seals
           /\ \A p \in DOMAIN kind : (Clear(p) => Clear(p)') /\ (Plain(p) => Plain(p)')
<1>1. Rooted' /\ Numbered' /\ \A q \in DOMAIN kind : Kept(q)
  BY SameKinds DEF SealInv
<1>2. \A p \in DOMAIN kind : (Clear(p) => Clear(p)') /\ (Plain(p) => Plain(p)')
  BY <1>1, ClearStays DEF SealInv
<1> QED
  BY <1>1, <1>2, SameSeals

LEMMA BeginSeals ==
    ASSUME SealInv, NEW form \in Forms, Begin(form)
    PROVE  SealInv' /\ Seals
<1>1. /\ phase = "statement" /\ phase' = form /\ UNCHANGED <<kind, base, open>>
      /\ at' = IF form = "key" THEN base ELSE <<>>
  BY DEF Begin
<1>2. open = <<>> /\ phase' # "value" /\ phase' # "inline" /\ phase' # "element"
  BY <1>1 DEF SealInv, Nested, Forms
<1>3. Typed' /\ at' \in DOMAIN kind
  BY <1>1, <1>2 DEF SealInv, Typed, Rooted
<1>4. /\ Rooted' /\ Numbered' /\ Seals
      /\ \A p \in DOMAIN kind : (Clear(p) => Clear(p)') /\ (Plain(p) => Plain(p)')
  BY <1>1, <1>2, <1>3, Calm DEF Unfinished
<1>5. Nested'
  BY <1>1, <1>2 DEF Nested
<1>6. Clear(<<>>) /\ Plain(<<>>)
  <2>1. \A q \in DOMAIN kind : IsPrefix(q, <<>>) => q = <<>>
    BY DEF SealInv, Typed, IsPrefix
  <2>2. kind[<<>>] = "table"
    BY DEF SealInv, Rooted
  <2> QED
    BY <2>1, <2>2 DEF Clear, Plain, Closed
<1>7. Clear(base)' /\ Plain(base)'
  <2>1. PICK b \in DOMAIN kind : b = base
    BY DEF SealInv, Typed
  <2>2. Clear(b) /\ Plain(b)
    BY <2>1 DEF SealInv, Cleared, Clear, Plain
  <2> QED
    BY <1>1, <1>4, <2>1, <2>2, ClearNext
<1>8. Clear(at)' /\ (form # "key" => Plain(at)')
  <2>1. PICK p \in DOMAIN kind : p = at'
    BY <1>3
  <2>2. Clear(p) /\ (form # "key" => Plain(p))
    BY <1>1, <1>6, <2>1 DEF SealInv, Cleared, Clear, Plain
  <2> QED
    BY <1>4, <2>1, <2>2, ClearNext
<1>9. Cleared'
  BY <1>1, <1>2, <1>7, <1>8 DEF Cleared, Forms
<1> QED
  BY <1>3, <1>4, <1>5, <1>9 DEF SealInv

\* Where a statement goes on is open.
LEMMA HereOpen ==
    ASSUME SealInv, phase \in Forms
    PROVE  \E h \in DOMAIN kind : /\ h = Here(at) /\ kind[h] # "array" /\ Clear(h)
                                  /\ phase # "key" => Plain(h)
                                  /\ Len(at) <= Len(h)
<1>1. at \in DOMAIN kind /\ Clear(at) /\ (phase # "key" => Plain(at)) /\ at \in Seq(Steps)
  BY DEF SealInv, Typed, Cleared, Forms
<1>2. CASE kind[at] # "array"
  <2>1. Here(at) = at /\ Len(at) <= Len(at)
    BY <1>1, <1>2 DEF Here
  <2> QED
    BY <1>1, <1>2, <2>1
<1>3. CASE kind[at] = "array"
  <2>1. PICK a \in DOMAIN kind : a = at
    BY <1>1
  <2>2. PICK n \in Nat : Holds(a, n) /\ n # 0
    BY <1>3, <2>1 DEF SealInv, Numbered, Forms
  <2>3. n - 1 \in 0 .. n - 1 /\ n - 1 \in Steps
    BY <2>2 DEF Steps
  <2>4. PICK h : h = Append(a, n - 1)
    OBVIOUS
  <2>5. h = Here(at)
    BY <1>3, <2>1, <2>2, <2>4, TablesHeld DEF Here, SealInv
  <2>6. h \in DOMAIN kind /\ kind[h] = "element"
    BY <2>2, <2>3, <2>4 DEF Holds
  <2>7. ~Closed(h)
    BY <2>2, <2>3, <2>4, TableClosed DEF SealInv
  <2>8. \A q \in DOMAIN kind : IsPrefix(q, h) => IsPrefix(q, a) \/ q = h
    BY <1>1, <2>1, <2>3, <2>4, PrefixFacts DEF SealInv, Typed
  <2>9. Clear(h) /\ (phase # "key" => Plain(h))
    BY <1>1, <2>1, <2>6, <2>7, <2>8 DEF Clear, Plain
  <2>10. Len(at) <= Len(h)
    BY <1>1, <2>1, <2>3, <2>4, StepFacts
  <2> QED
    BY <2>5, <2>6, <2>9, <2>10
<1> QED
  BY <1>2, <1>3

-----------------------------------------------------------------------------
(* Steps that define a path. *)

LEMMA WithFacts ==
    ASSUME NEW p, NEW k, kind' = With(p, k)
    PROVE  /\ DOMAIN kind' = DOMAIN kind \cup {p} /\ kind'[p] = k
           /\ \A q \in DOMAIN kind : q # p => kind'[q] = kind[q]
  BY DEF With

\* p, right below h, is defined, or a header makes a table of it.
Sets(h, s, p, k) ==
    /\ h \in DOMAIN kind /\ s \in Steps /\ p = Append(h, s)
    /\ kind[h] # "array" /\ k # "element"
    /\ kind' = With(p, k)
    /\ p \notin DOMAIN kind \/ (kind[p] = "super" /\ k = "table")
    /\ k = "array" => phase' = "element" /\ at' = p

LEMMA SetsHolds ==
    ASSUME SealInv, NEW h, NEW s, NEW p, NEW k, Sets(h, s, p, k),
           NEW a \in DOMAIN kind, kind[a] = "array", NEW n \in Nat, Holds(a, n)
    PROVE  Holds(a, n)'
<1>1. a \in Seq(Steps) /\ h \in Seq(Steps) /\ a # h
  BY DEF SealInv, Typed, Sets
<1>2. \A r \in Steps : Append(a, r) # p
  BY <1>1, StepFacts DEF Sets
<1>3. /\ DOMAIN kind' = DOMAIN kind \cup {p}
      /\ \A q \in DOMAIN kind : q # p => kind'[q] = kind[q]
  BY WithFacts DEF Sets
<1>4. \A i \in 0 .. n - 1 : i \in Steps
  BY DEF Steps
<1>5. \A i \in 0 .. n - 1 : Append(a, i) \in DOMAIN kind
  BY <1>4 DEF Holds
<1> QED
  BY <1>2, <1>3, <1>4, <1>5 DEF Holds

LEMMA SetsKinds ==
    ASSUME SealInv, phase \in Forms, open' = open,
           NEW h, NEW s, NEW p, NEW k, Sets(h, s, p, k)
    PROVE  /\ DOMAIN kind' \subseteq Seq(Steps) /\ Rooted' /\ Numbered'
           /\ \A q \in DOMAIN kind : Kept(q)
<1>1. /\ DOMAIN kind' = DOMAIN kind \cup {p} /\ kind'[p] = k
      /\ \A q \in DOMAIN kind : q # p => kind'[q] = kind[q]
  BY WithFacts DEF Sets
<1>2. h \in Seq(Steps) /\ s \in Steps /\ p = Append(h, s) /\ p \in Seq(Steps) /\ p # <<>>
  BY StepFacts DEF SealInv, Typed, Sets
<1>3. DOMAIN kind' \subseteq Seq(Steps)
  BY <1>1, <1>2 DEF SealInv, Typed
<1>4. Rooted'
  BY <1>1, <1>2 DEF SealInv, Rooted, Sets
<1>5. \A q \in DOMAIN kind : Steady(q)
  BY <1>1, SetsHolds DEF Steady
<1>6. ASSUME NEW q \in DOMAIN kind PROVE Kept(q)
  <2>1. Unfinished(q) => Unfinished(q)'
    BY DEF Unfinished, Forms
  <2>2. kind'[q] = kind[q] \/ (kind[q] = "super" /\ kind'[q] = "table")
    BY <1>1 DEF Sets
  <2> QED
    BY <1>1, <1>5, <2>1, <2>2 DEF Kept
<1>7. Numbered'
  <2>1. ASSUME NEW q \in DOMAIN kind', kind'[q] = "element"
        PROVE  \E a \in DOMAIN kind' : \E i \in Nat : kind'[a] = "array" /\ q = Append(a, i)
    <3>1. q \in DOMAIN kind /\ kind[q] = "element"
      BY <1>1, <2>1 DEF Sets
    <3>2. PICK a \in DOMAIN kind, i \in Nat : kind[a] = "array" /\ q = Append(a, i)
      BY <3>1 DEF SealInv, Numbered
    <3>3. a # p
      BY <3>2 DEF Sets
    <3> QED
      BY <1>1, <3>2, <3>3
  <2>2. ASSUME NEW a \in DOMAIN kind', kind'[a] = "array"
        PROVE  \E n \in Nat : Holds(a, n)' /\ (n = 0 => phase' = "element" /\ at' = a)
    <3>1. CASE a = p
      <4>1. k = "array" /\ p \notin DOMAIN kind
        BY <1>1, <2>2, <3>1 DEF Sets
      <4>2. ASSUME NEW r \in Steps PROVE Append(p, r) \notin DOMAIN kind'
        <5>1. IsPrefix(p, Append(p, r)) /\ Append(p, r) \in Seq(Steps) /\ Append(p, r) # p
          <6>1. /\ Append(p, r) \in Seq(Steps) /\ Len(Append(p, r)) = Len(p) + 1
                /\ Len(p) \in Nat
            BY <1>2, StepFacts
          <6>2. Append(p, r) # p
            BY <6>1
          <6>3. IsPrefix(p, Append(p, r))
            BY <1>2, PrefixFacts
          <6> QED
            BY <6>1, <6>2, <6>3
        <5>2. Append(p, r) \notin DOMAIN kind
          BY <1>2, <4>1, <5>1, PrefixDefined DEF SealInv
        <5> QED
          BY <1>1, <5>1, <5>2
      <4>3. Holds(p, 0)'
        BY <4>2 DEF Holds
      <4> QED
        BY <3>1, <4>1, <4>3 DEF Sets
    <3>2. CASE a # p
      <4>1. a \in DOMAIN kind /\ kind[a] = "array"
        BY <1>1, <2>2, <3>2
      <4>2. PICK n \in Nat : Holds(a, n) /\ (n = 0 => phase = "element")
        BY <4>1 DEF SealInv, Numbered
      <4>3. Holds(a, n)'
        BY <4>1, <4>2, SetsHolds
      <4> QED
        BY <4>2, <4>3 DEF Forms
    <3> QED
      BY <3>1, <3>2
  <2> QED
    BY <2>1, <2>2 DEF Numbered
<1> QED
  BY <1>3, <1>4, <1>6, <1>7

\* What is closed has no prefix of what a segment defines.
LEMMA SetsSeals ==
    ASSUME SealInv, NEW h, NEW s, NEW p, NEW k, Sets(h, s, p, k), Clear(h)
    PROVE  Seals
<1>1. /\ DOMAIN kind' = DOMAIN kind \cup {p}
      /\ \A q \in DOMAIN kind : q # p => kind'[q] = kind[q]
  BY WithFacts DEF Sets
<1>2. h \in Seq(Steps) /\ s \in Steps /\ p = Append(h, s)
  BY DEF SealInv, Typed, Sets
<1>3. ASSUME NEW c \in DOMAIN kind, Closed(c), IsPrefix(c, p) PROVE FALSE
  <2>1. IsPrefix(c, h) \/ c = p
    BY <1>2, <1>3, PrefixFacts DEF SealInv, Typed
  <2>2. c # p
    BY <1>3 DEF Sets, Closed
  <2> QED
    BY <1>3, <2>1, <2>2 DEF Clear
<1> QED
  BY <1>1, <1>3 DEF Seals

LEMMA DefineSeals ==
    ASSUME SealInv, NEW id \in Ids, NEW final \in BOOLEAN, Define(id, final)
    PROVE  SealInv' /\ Seals
<1> DEFINE table == phase = "table" /\ final
<1>1. PICK h \in DOMAIN kind : /\ h = Here(at) /\ kind[h] # "array" /\ Clear(h)
                               /\ phase # "key" => Plain(h)
                               /\ Len(at) <= Len(h)
  BY HereOpen DEF Define
<1>2. PICK p : p = Append(h, id)
  OBVIOUS
<1>3. id \in Steps /\ h \in Seq(Steps) /\ p \in Seq(Steps)
      /\ Len(p) = Len(h) + 1 /\ Len(h) \in Nat
  BY <1>2, StepFacts DEF SealInv, Typed, Steps
<1>4. PICK k : k = NewKind(phase, final)
  OBVIOUS
<1>5. /\ phase \in Forms /\ open' = open
      /\ p \in DOMAIN kind => kind[p] \in Tolerated(phase, final)
      /\ kind' = IF p \in DOMAIN kind /\ ~table THEN kind ELSE With(p, k)
      /\ at' = IF table THEN Nowhere ELSE p
      /\ base' = IF table THEN p ELSE base
  BY <1>1, <1>2, <1>4 DEF Define, Defined
<1>6. /\ ~final => phase' = phase
      /\ final => /\ phase = "key" => phase' = "value"
                  /\ phase = "table" => phase' = "statement"
                  /\ phase = "arraytable" => phase' = "element"
  BY DEF Define, Forms
<1>7. /\ k # "element"
      /\ k = "array" => phase' = "element" /\ at' = p
      /\ k = "value" => phase' = "value" /\ at' = p
      /\ table => k = "table"
  BY <1>4, <1>5, <1>6 DEF NewKind, Forms
<1>8. p \in DOMAIN kind => kind[p] \notin {"element", "value"} /\ (table => kind[p] = "super")
  BY <1>5 DEF Tolerated, Forms
<1>9. /\ DOMAIN kind' = DOMAIN kind \cup {p} /\ DOMAIN kind' \subseteq Seq(Steps)
      /\ Rooted' /\ Numbered' /\ Seals
      /\ \A q \in DOMAIN kind : Kept(q)
      /\ kind'[p] # "element"
      /\ kind'[p] = "value" => phase' = "value" /\ at' = p
  <2>1. CASE p \in DOMAIN kind /\ ~table
    <3>1. kind' = kind
      BY <1>5, <2>1
    <3>2. /\ phase # "element"
          /\ \A q \in DOMAIN kind : Unfinished(q) => Unfinished(q)'
      BY <1>5 DEF Unfinished, Forms
    <3>3. Rooted' /\ Numbered' /\ \A q \in DOMAIN kind : Kept(q)
      BY <3>1, <3>2, SameKinds DEF SealInv
    <3>4. Seals
      BY <3>1, SameSeals
    <3>5. DOMAIN kind' = DOMAIN kind \cup {p} /\ DOMAIN kind' \subseteq Seq(Steps)
      BY <2>1, <3>1 DEF SealInv, Typed
    <3>6. kind'[p] \notin {"element", "value"}
      BY <1>8, <2>1, <3>1
    <3> QED
      BY <3>3, <3>4, <3>5, <3>6
  <2>2. CASE ~(p \in DOMAIN kind /\ ~table)
    <3>1. kind' = With(p, k)
      BY <1>5, <2>2
    <3>2. Sets(h, id, p, k)
      BY <1>1, <1>2, <1>3, <1>7, <1>8, <2>2, <3>1 DEF Sets
    <3>3. DOMAIN kind' = DOMAIN kind \cup {p} /\ kind'[p] = k
      BY <3>1, WithFacts
    <3>4. /\ DOMAIN kind' \subseteq Seq(Steps) /\ Rooted' /\ Numbered'
          /\ \A q \in DOMAIN kind : Kept(q)
      BY <1>5, <3>2, SetsKinds
    <3>5. Seals
      BY <1>1, <3>2, SetsSeals
    <3> QED
      BY <1>7, <3>3, <3>4, <3>5
  <2> QED
    BY <2>1, <2>2
<1>10. Typed'
  <2>1. base' \in DOMAIN kind'
    BY <1>5, <1>9 DEF SealInv, Typed
  <2>2. phase' \in Forms \cup {"element", "value"} => at' \in DOMAIN kind'
    BY <1>5, <1>6, <1>9 DEF Forms
  <2>3. open' \in Seq(DOMAIN kind')
    BY <1>5, <1>9 DEF SealInv, Typed
  <2>4. ASSUME phase' = "element" PROVE kind'[at'] = "array"
    <3>1. phase = "arraytable" /\ final
      BY <1>5, <1>6, <2>4 DEF Forms
    <3>2. k = "array" /\ (p \in DOMAIN kind => kind[p] = "array") /\ at' = p
      BY <1>4, <1>5, <3>1 DEF NewKind, Tolerated
    <3>3. kind'[p] = "array"
      BY <1>5, <3>1, <3>2, WithFacts
    <3> QED
      BY <3>2, <3>3
  <2> QED
    BY <1>9, <2>1, <2>2, <2>3, <2>4 DEF Typed
<1>11. \A q \in DOMAIN kind : (Clear(q) => Clear(q)') /\ (Plain(q) => Plain(q)')
  BY <1>9, <1>10, ClearStays DEF SealInv
<1>12. /\ Clear(p)'
       /\ (phase # "key" => Plain(p)')
  <2>1. Clear(h)' /\ (phase # "key" => Plain(h)')
    BY <1>1, <1>11
  <2>2. kind'[p] = "value" => Unfinished(p)'
    BY <1>9 DEF Unfinished
  <2>3. phase # "key" => kind'[p] # "value"
    BY <1>5, <1>6, <1>9 DEF Forms
  <2> QED
    BY <1>2, <1>3, <1>9, <1>10, <2>1, <2>2, <2>3, ClearGrows
<1>13. Nested'
  <2>1. CASE phase = "key"
    <3>1. \A n \in 1 .. Len(open) : Len(open[n]) <= Len(at) /\ Len(open[n]) \in Nat
      BY <2>1 DEF SealInv, Nested, Typed
    <3>2. \A n \in 1 .. Len(open) : Len(open[n]) < Len(p)
      <4>1. Len(at) \in Nat
        BY <1>5 DEF SealInv, Typed
      <4> QED
        BY <1>1, <1>3, <3>1, <4>1
    <3>3. at' = p /\ phase' \in {"key", "value"}
      BY <1>5, <1>6, <2>1
    <3>4. \A n \in 1 .. Len(open) : Len(open[n]) <= Len(p)
      BY <1>3, <3>1, <3>2
    <3> QED
      BY <1>5, <3>2, <3>3, <3>4 DEF SealInv, Nested
  <2>2. CASE phase # "key"
    <3>1. open = <<>> /\ phase' \notin {"key", "value", "inline"}
      BY <1>5, <1>6, <2>2 DEF SealInv, Nested, Forms
    <3> QED
      BY <1>5, <3>1 DEF Nested
  <2> QED
    BY <2>1, <2>2
<1>14. Clear(base)' /\ Plain(base)'
  <2>1. CASE table
    <3>1. base' = p /\ phase # "key"
      BY <1>5, <2>1
    <3> QED
      BY <1>12, <3>1, ClearNext
  <2>2. CASE ~table
    <3>1. PICK b \in DOMAIN kind : b = base
      BY DEF SealInv, Typed
    <3>2. Clear(b) /\ Plain(b) /\ base' = b
      BY <1>5, <2>2, <3>1 DEF SealInv, Cleared, Clear, Plain
    <3> QED
      BY <1>11, <3>2, ClearNext
  <2> QED
    BY <2>1, <2>2
<1>15. /\ phase' \in Forms \cup {"element", "value"} => Clear(at)'
       /\ phase' \in {"table", "arraytable", "element"} => Plain(at)'
  <2>1. CASE at' = p
    BY <1>6, <1>12, <2>1, ClearNext
  <2>2. CASE at' # p
    BY <1>5, <1>6, <2>2 DEF Forms
  <2> QED
    BY <2>1, <2>2
<1>16. \A n \in 1 .. Len(open') : Clear(open[n])'
  <2>1. ASSUME NEW n \in 1 .. Len(open) PROVE Clear(open[n])'
    <3>1. PICK q \in DOMAIN kind : q = open[n]
      BY DEF SealInv, Typed
    <3>2. Clear(q)
      BY <3>1 DEF SealInv, Cleared
    <3> QED
      BY <1>5, <1>11, <3>1, <3>2, ClearNext
  <2> QED
    BY <1>5, <2>1
<1>17. Cleared'
  BY <1>14, <1>15, <1>16 DEF Cleared
<1> QED
  BY <1>9, <1>10, <1>13, <1>17 DEF SealInv

-----------------------------------------------------------------------------
(* Steps that close a value. *)

LEMMA Releasing ==
    ASSUME SealInv, Typed', kind' = kind, phase # "element", NEW r \in DOMAIN kind,
           \A q \in DOMAIN kind : q # r => (Unfinished(q) => Unfinished(q)')
    PROVE  /\ Rooted' /\ Numbered' /\ Seals
           /\ \A p \in DOMAIN kind : Plain(p) => Plain(p)'
           /\ \A p \in DOMAIN kind : Plain(p) \/ Len(p) < Len(r) => (Clear(p) => Clear(p)')
<1>1. /\ Rooted' /\ Numbered' /\ \A q \in DOMAIN kind : Steady(q)
      /\ \A q \in DOMAIN kind : q # r => Kept(q)
  BY SameKinds DEF SealInv
<1>2. \A p \in DOMAIN kind : Plain(p) => Plain(p)'
  BY DEF Plain
<1>3. ASSUME NEW p \in DOMAIN kind, Plain(p) \/ Len(p) < Len(r), Clear(p) PROVE Clear(p)'
  <2>1. ASSUME NEW q \in DOMAIN kind, IsPrefix(q, p) PROVE Kept(q)
    <3>1. CASE q # r
      BY <1>1, <3>1
    <3>2. CASE q = r
      <4>1. Len(q) <= Len(p) /\ Len(p) \in Nat /\ Len(q) \in Nat
        BY <2>1, PrefixFacts DEF SealInv, Typed, IsPrefix
      <4>2. kind[q] # "value"
        BY <1>3, <2>1, <3>2, <4>1 DEF Plain
      <4> QED
        BY <1>1, <4>2 DEF Kept
    <3> QED
      BY <3>1, <3>2
  <2> QED
    BY <1>3, <2>1, ClearStays DEF SealInv
<1> QED
  BY <1>1, <1>2, <1>3, SameSeals

LEMMA SetValueSeals == ASSUME SealInv, SetValue PROVE SealInv' /\ Seals
<1>1. /\ phase = "value" /\ phase' = AfterValue(open) /\ at' = Nowhere
      /\ kind' = kind /\ base' = base /\ open' = open
  BY DEF SetValue
<1>2. PICK r \in DOMAIN kind : r = at
  BY <1>1 DEF SealInv, Typed
<1>3. phase' \in {"statement", "inline"} /\ (phase' = "statement" <=> open = <<>>)
  BY <1>1 DEF AfterValue
<1>4. Typed'
  BY <1>1, <1>3 DEF SealInv, Typed, Forms
<1>5. \A q \in DOMAIN kind : q # r => (Unfinished(q) => Unfinished(q)')
  BY <1>1, <1>2 DEF Unfinished
<1>6. /\ Rooted' /\ Numbered' /\ Seals
      /\ \A p \in DOMAIN kind : Plain(p) => Plain(p)'
      /\ \A p \in DOMAIN kind : Plain(p) \/ Len(p) < Len(r) => (Clear(p) => Clear(p)')
  BY <1>1, <1>4, <1>5, Releasing
<1>7. Nested'
  BY <1>1, <1>3 DEF SealInv, Nested
<1>8. Clear(base)' /\ Plain(base)'
  <2>1. PICK b \in DOMAIN kind : b = base
    BY DEF SealInv, Typed
  <2>2. Clear(b) /\ Plain(b)
    BY <2>1 DEF SealInv, Cleared, Clear, Plain
  <2> QED
    BY <1>1, <1>6, <2>1, <2>2, ClearNext
<1>9. ASSUME NEW n \in 1 .. Len(open) PROVE Clear(open[n])'
  <2>1. PICK q \in DOMAIN kind : q = open[n]
    BY DEF SealInv, Typed
  <2>2. Clear(q) /\ Len(q) < Len(r)
    BY <1>1, <1>2, <2>1 DEF SealInv, Cleared, Nested
  <2> QED
    BY <1>1, <1>6, <2>1, <2>2, ClearNext
<1>10. Cleared'
  BY <1>1, <1>3, <1>8, <1>9 DEF Cleared, Forms
<1> QED
  BY <1>4, <1>6, <1>7, <1>10 DEF SealInv

LEMMA CloseInlineSeals == ASSUME SealInv, CloseInline PROVE SealInv' /\ Seals
<1>1. /\ phase = "inline" /\ phase' = AfterValue(open')
      /\ open' = SubSeq(open, 1, Len(open) - 1)
      /\ kind' = kind /\ base' = base /\ at' = at
  BY DEF CloseInline
<1>2. open # <<>> /\ open \in Seq(DOMAIN kind)
  BY <1>1 DEF SealInv, Nested, Typed
<1>3. PICK l \in Nat : Len(open) = l + 1
  <2>1. Len(open) \in Nat /\ Len(open) # 0
    BY <1>2
  <2> QED
    BY <2>1
<1>4. /\ open' \in Seq(DOMAIN kind) /\ Len(open') = l
      /\ \A n \in 1 .. l : open'[n] = open[n] /\ n \in 1 .. Len(open)
      /\ l + 1 \in 1 .. Len(open)
  BY <1>1, <1>2, <1>3
<1>5. PICK r \in DOMAIN kind : r = open[l + 1]
  BY <1>2, <1>4
<1>6. phase' \in {"statement", "inline"} /\ (phase' = "statement" <=> open' = <<>>)
  BY <1>1 DEF AfterValue
<1>7. Typed'
  BY <1>1, <1>4, <1>6 DEF SealInv, Typed, Forms
<1>8. ASSUME NEW q \in DOMAIN kind, q # r, Unfinished(q) PROVE Unfinished(q)'
  <2>1. PICK n \in 1 .. Len(open) : open[n] = q
    BY <1>1, <1>8 DEF Unfinished
  <2>2. n \in 1 .. l
    BY <1>3, <1>5, <1>8, <2>1
  <2> QED
    BY <1>4, <2>1, <2>2 DEF Unfinished
<1>9. /\ Rooted' /\ Numbered' /\ Seals
      /\ \A p \in DOMAIN kind : Plain(p) => Plain(p)'
      /\ \A p \in DOMAIN kind : Plain(p) \/ Len(p) < Len(r) => (Clear(p) => Clear(p)')
  BY <1>1, <1>7, <1>8, Releasing
<1>10. Nested'
  BY <1>1, <1>4, <1>6 DEF SealInv, Nested
<1>11. Clear(base)' /\ Plain(base)'
  <2>1. PICK b \in DOMAIN kind : b = base
    BY DEF SealInv, Typed
  <2>2. Clear(b) /\ Plain(b)
    BY <2>1 DEF SealInv, Cleared, Clear, Plain
  <2> QED
    BY <1>1, <1>9, <2>1, <2>2, ClearNext
<1>12. ASSUME NEW n \in 1 .. l PROVE Clear(open[n])'
  <2>1. PICK q \in DOMAIN kind : q = open[n]
    BY <1>2, <1>4
  <2>2. Clear(q) /\ Len(q) < Len(r)
    <3>1. n < l + 1
      OBVIOUS
    <3> QED
      BY <1>4, <1>5, <2>1, <3>1 DEF SealInv, Cleared, Nested
  <2>3. open'[n] = q
    BY <1>4, <2>1
  <2> QED
    BY <1>9, <2>2, <2>3, ClearNext
<1>13. Cleared'
  BY <1>4, <1>6, <1>11, <1>12 DEF Cleared, Forms
<1> QED
  BY <1>7, <1>9, <1>10, <1>13 DEF SealInv

-----------------------------------------------------------------------------
(* The other steps. *)

LEMMA OpenInlineSeals == ASSUME SealInv, OpenInline PROVE SealInv' /\ Seals
<1>1. /\ phase = "value" /\ phase' = "inline" /\ open' = Append(open, at)
      /\ kind' = kind /\ base' = base
  BY DEF OpenInline
<1>2. PICK r \in DOMAIN kind : r = at
  BY <1>1 DEF SealInv, Typed
<1>3. /\ open \in Seq(DOMAIN kind) /\ open' \in Seq(DOMAIN kind) /\ open' # <<>>
      /\ Len(open) \in Nat /\ Len(open') = Len(open) + 1 /\ open'[Len(open) + 1] = r
      /\ \A n \in 1 .. Len(open) : open'[n] = open[n]
  BY <1>1, <1>2 DEF SealInv, Typed
<1>4. Typed'
  BY <1>1, <1>3 DEF SealInv, Typed, Forms
<1>5. ASSUME NEW q \in DOMAIN kind, Unfinished(q) PROVE Unfinished(q)'
  <2>1. \E n \in 1 .. Len(open') : open'[n] = q
    BY <1>1, <1>2, <1>3, <1>5 DEF Unfinished
  <2> QED
    BY <2>1 DEF Unfinished
<1>6. /\ Rooted' /\ Numbered' /\ Seals
      /\ \A p \in DOMAIN kind : (Clear(p) => Clear(p)') /\ (Plain(p) => Plain(p)')
  BY <1>1, <1>4, <1>5, Calm
<1>7. Nested'
  <2>1. ASSUME NEW m \in 1 .. Len(open'), NEW n \in 1 .. Len(open'), m < n
        PROVE  Len(open'[m]) < Len(open'[n])
    <3>1. m \in 1 .. Len(open) /\ (n \in 1 .. Len(open) \/ n = Len(open) + 1)
      BY <1>3, <2>1
    <3> QED
      BY <1>1, <1>2, <1>3, <2>1, <3>1 DEF SealInv, Nested
  <2> QED
    BY <1>1, <1>3, <2>1 DEF Nested
<1>8. Clear(base)' /\ Plain(base)'
  <2>1. PICK b \in DOMAIN kind : b = base
    BY DEF SealInv, Typed
  <2>2. Clear(b) /\ Plain(b)
    BY <2>1 DEF SealInv, Cleared, Clear, Plain
  <2> QED
    BY <1>1, <1>6, <2>1, <2>2, ClearNext
<1>9. ASSUME NEW n \in 1 .. Len(open') PROVE Clear(open[n])'
  <2>1. PICK q \in DOMAIN kind : q = open'[n]
    BY <1>3
  <2>2. n \in 1 .. Len(open) \/ n = Len(open) + 1
    BY <1>3
  <2>3. Clear(r)
    BY <1>1, <1>2 DEF SealInv, Cleared, Clear
  <2>4. Clear(q)
    BY <1>3, <2>1, <2>2, <2>3 DEF SealInv, Cleared
  <2> QED
    BY <1>6, <2>1, <2>4, ClearNext
<1>10. Cleared'
  BY <1>1, <1>8, <1>9 DEF Cleared, Forms
<1> QED
  BY <1>4, <1>6, <1>7, <1>10 DEF SealInv

LEMMA InlineKeySeals == ASSUME SealInv, InlineKey PROVE SealInv' /\ Seals
<1>1. /\ phase = "inline" /\ phase' = "key" /\ at' = open[Len(open)]
      /\ kind' = kind /\ base' = base /\ open' = open
  BY DEF InlineKey
<1>2. open # <<>> /\ open \in Seq(DOMAIN kind)
  BY <1>1 DEF SealInv, Nested, Typed
<1>3. Len(open) \in 1 .. Len(open)
  BY <1>2
<1>4. PICK r \in DOMAIN kind : r = at'
  BY <1>1, <1>2, <1>3
<1>5. Typed'
  BY <1>1, <1>4 DEF SealInv, Typed, Forms
<1>6. \A q \in DOMAIN kind : Unfinished(q) => Unfinished(q)'
  BY <1>1 DEF Unfinished
<1>7. /\ Rooted' /\ Numbered' /\ Seals
      /\ \A p \in DOMAIN kind : (Clear(p) => Clear(p)') /\ (Plain(p) => Plain(p)')
  BY <1>1, <1>5, <1>6, Calm
<1>8. Nested'
  <2>1. ASSUME NEW n \in 1 .. Len(open) PROVE Len(open[n]) <= Len(r)
    <3>1. n < Len(open) \/ n = Len(open)
      BY <1>3
    <3>2. n < Len(open) => Len(open[n]) < Len(open[Len(open)])
      BY <1>3 DEF SealInv, Nested
    <3>3. Len(open[n]) \in Nat /\ Len(r) \in Nat
      BY <1>2 DEF SealInv, Typed
    <3> QED
      BY <1>1, <1>4, <3>1, <3>2, <3>3
  <2> QED
    BY <1>1, <1>4, <2>1 DEF SealInv, Nested
<1>9. Clear(base)' /\ Plain(base)'
  <2>1. PICK b \in DOMAIN kind : b = base
    BY DEF SealInv, Typed
  <2>2. Clear(b) /\ Plain(b)
    BY <2>1 DEF SealInv, Cleared, Clear, Plain
  <2> QED
    BY <1>1, <1>7, <2>1, <2>2, ClearNext
<1>10. ASSUME NEW n \in 1 .. Len(open) PROVE Clear(open[n])'
  <2>1. PICK q \in DOMAIN kind : q = open[n]
    BY <1>2
  <2>2. Clear(q)
    BY <2>1 DEF SealInv, Cleared
  <2> QED
    BY <1>1, <1>7, <2>1, <2>2, ClearNext
<1>11. Clear(at)'
  <2>1. Clear(r)
    BY <1>1, <1>3, <1>4 DEF SealInv, Cleared
  <2> QED
    BY <1>4, <1>7, <2>1, ClearNext
<1>12. Cleared'
  BY <1>1, <1>9, <1>10, <1>11 DEF Cleared
<1> QED
  BY <1>5, <1>7, <1>8, <1>12 DEF SealInv

LEMMA AddTableSeals == ASSUME SealInv, AddTable PROVE SealInv' /\ Seals
<1>1. /\ phase = "element" /\ phase' = "statement" /\ base' = at /\ open' = open
      /\ kind' = With(Append(at, Tables(at)), "element")
  BY DEF AddTable
<1>2. PICK a \in DOMAIN kind : a = at /\ kind[a] = "array" /\ a \in Seq(Steps)
                               /\ Clear(a) /\ Plain(a)
  BY <1>1 DEF SealInv, Typed, Cleared
<1>3. PICK n \in Nat : Holds(a, n)
  BY <1>2 DEF SealInv, Numbered
<1>4. n \in Steps /\ n + 1 \in Nat /\ (n + 1) - 1 = n /\ open = <<>>
  BY <1>1 DEF Steps, SealInv, Nested
<1>5. PICK x : x = Append(a, n)
  OBVIOUS
<1>6. kind' = With(x, "element")
  BY <1>1, <1>2, <1>3, <1>5, TablesHeld DEF SealInv
<1>7. x \notin DOMAIN kind /\ x \in Seq(Steps) /\ x # <<>>
  <2>1. n \notin 0 .. n - 1
    OBVIOUS
  <2> QED
    BY <1>2, <1>3, <1>4, <1>5, <2>1, StepFacts DEF Holds
<1>8. /\ DOMAIN kind' = DOMAIN kind \cup {x} /\ kind'[x] = "element"
      /\ \A q \in DOMAIN kind : kind'[q] = kind[q]
  BY <1>6, <1>7, WithFacts
<1>9. Typed'
  BY <1>1, <1>2, <1>4, <1>7, <1>8 DEF SealInv, Typed, Forms
<1>10. Rooted'
  BY <1>4, <1>5, <1>8 DEF SealInv, Rooted
<1>11. ASSUME NEW b \in DOMAIN kind, b # a, NEW m \in Nat, Holds(b, m) PROVE Holds(b, m)'
  <2>1. \A s \in Steps : Append(b, s) # x
    BY <1>2, <1>4, <1>5, <1>11, StepFacts DEF SealInv, Typed
  <2>2. \A i \in 0 .. m - 1 : i \in Steps /\ Append(b, i) \in DOMAIN kind
    BY <1>11 DEF Holds, Steps
  <2> QED
    BY <1>8, <1>11, <2>1, <2>2 DEF Holds
<1>12. Holds(a, n + 1)'
  <2>1. ASSUME NEW s \in Steps PROVE Append(a, s) \in DOMAIN kind' <=> s \in 0 .. n
    <3>1. Append(a, s) = x <=> s = n
      BY <1>2, <1>4, <1>5, StepFacts
    <3>2. Append(a, s) \in DOMAIN kind <=> s \in 0 .. n - 1
      BY <1>3 DEF Holds
    <3>3. s \in 0 .. n <=> s \in 0 .. n - 1 \/ s = n
      OBVIOUS
    <3> QED
      BY <1>8, <3>1, <3>2, <3>3
  <2>2. ASSUME NEW i \in 0 .. n PROVE kind'[Append(a, i)] = "element"
    <3>1. CASE i = n
      BY <1>5, <1>8, <3>1
    <3>2. CASE i # n
      <4>1. i \in 0 .. n - 1 /\ i \in Steps
        BY <3>2 DEF Steps
      <4>2. Append(a, i) \in DOMAIN kind /\ kind[Append(a, i)] = "element"
        BY <1>3, <4>1 DEF Holds
      <4> QED
        BY <1>8, <4>2
    <3> QED
      BY <3>1, <3>2
  <2> QED
    BY <1>4, <2>1, <2>2 DEF Holds
<1>13. Numbered'
  <2>1. ASSUME NEW q \in DOMAIN kind', kind'[q] = "element"
        PROVE  \E b \in DOMAIN kind' : \E i \in Nat : kind'[b] = "array" /\ q = Append(b, i)
    <3>1. CASE q = x
      BY <1>2, <1>5, <1>8, <3>1
    <3>2. CASE q # x
      <4>1. q \in DOMAIN kind /\ kind[q] = "element"
        BY <1>8, <2>1, <3>2
      <4>2. PICK b \in DOMAIN kind, i \in Nat : kind[b] = "array" /\ q = Append(b, i)
        BY <4>1 DEF SealInv, Numbered
      <4> QED
        BY <1>8, <4>2
    <3> QED
      BY <3>1, <3>2
  <2>2. ASSUME NEW b \in DOMAIN kind', kind'[b] = "array"
        PROVE  \E m \in Nat : Holds(b, m)' /\ (m = 0 => phase' = "element" /\ at' = b)
    <3>1. CASE b = a
      <4>1. n + 1 # 0
        OBVIOUS
      <4> QED
        BY <1>4, <1>12, <3>1, <4>1
    <3>2. CASE b # a
      <4>1. b \in DOMAIN kind /\ kind[b] = "array"
        BY <1>8, <2>2
      <4>2. PICK m \in Nat : Holds(b, m) /\ (m = 0 => at = b)
        BY <4>1 DEF SealInv, Numbered
      <4> QED
        BY <1>2, <1>11, <3>2, <4>1, <4>2
    <3> QED
      BY <3>1, <3>2
  <2> QED
    BY <2>1, <2>2 DEF Numbered
<1>14. Nested'
  BY <1>1, <1>4 DEF Nested
<1>15. ASSUME NEW q \in DOMAIN kind, IsPrefix(q, a) PROVE Kept(q)
  <2>1. \A i \in Nat : q # Append(a, i)
    <3>1. Len(q) <= Len(a) /\ Len(a) \in Nat
      BY <1>2, <1>15 DEF IsPrefix
    <3>2. ASSUME NEW i \in Nat PROVE Len(Append(a, i)) = Len(a) + 1
      BY <1>2, StepFacts DEF Steps
    <3> QED
      BY <3>1, <3>2
  <2>2. Steady(q)
    BY <1>8, <1>11, <2>1 DEF Steady
  <2>3. ~Unfinished(q)
    BY <1>1, <1>4 DEF Unfinished
  <2> QED
    BY <1>8, <2>2, <2>3 DEF Kept
<1>16. Clear(a)' /\ Plain(a)'
  BY <1>2, <1>8, <1>9, <1>15, ClearStays DEF SealInv
<1>17. Cleared'
  BY <1>1, <1>2, <1>4, <1>16, ClearNext DEF Cleared, Forms
<1>18. Seals
  <2>1. ASSUME NEW c \in DOMAIN kind, Closed(c), IsPrefix(c, x) PROVE FALSE
    <3>1. IsPrefix(c, a) \/ c = x
      BY <1>2, <1>4, <1>5, <2>1, PrefixFacts DEF SealInv, Typed
    <3> QED
      BY <1>2, <1>7, <2>1, <3>1 DEF Clear
  <2> QED
    BY <1>8, <2>1 DEF Seals
<1> QED
  BY <1>9, <1>10, <1>13, <1>14, <1>17, <1>18 DEF SealInv

-----------------------------------------------------------------------------
(* The theorem. *)

LEMMA InitSeals == Init => SealInv
<1> SUFFICES ASSUME Init PROVE SealInv
  OBVIOUS
<1>1. /\ DOMAIN kind = {<<>>} /\ kind[<<>>] = "table"
      /\ phase = "statement" /\ base = <<>> /\ open = <<>>
  BY DEF Init
<1>2. Typed /\ Rooted /\ Numbered /\ Nested
  BY <1>1 DEF Typed, Rooted, Numbered, Nested, Forms
<1>3. Cleared
  BY <1>1 DEF Cleared, Clear, Plain, Closed, Forms
<1> QED
  BY <1>2, <1>3 DEF SealInv

LEMMA StepSeals ==
    ASSUME Going => SealInv, [Next]_vars
    PROVE  (Going' => SealInv') /\ Seals
<1>1. CASE UNCHANGED vars
  <2>1. kind' = kind /\ phase' = phase /\ base' = base /\ at' = at /\ open' = open
    BY <1>1 DEF vars
  <2>2. Seals
    BY <2>1, SameSeals
  <2>3. ASSUME Going' PROVE SealInv'
    <3>1. SealInv
      BY <2>1, <2>3 DEF Going
    <3>2. \A p : (Clear(p) <=> Clear(p)') /\ (Plain(p) <=> Plain(p)')
      BY <2>1 DEF Clear, Plain, Closed, Tables
    <3>3. \A a, n : Holds(a, n) <=> Holds(a, n)'
      BY <2>1 DEF Holds
    <3>4. Typed' /\ Rooted' /\ Numbered' /\ Nested'
      <4>1. Typed'
        BY <2>1, <3>1 DEF SealInv, Typed
      <4>2. Rooted'
        BY <2>1, <3>1 DEF SealInv, Rooted
      <4>3. Numbered'
        BY <2>1, <3>1, <3>3 DEF SealInv, Numbered
      <4>4. Nested'
        BY <2>1, <3>1 DEF SealInv, Nested
      <4> QED
        BY <4>1, <4>2, <4>3, <4>4
    <3>5. Cleared'
      BY <2>1, <3>1, <3>2, ClearNext DEF SealInv, Cleared
    <3> QED
      BY <3>4, <3>5 DEF SealInv
  <2> QED
    BY <2>2, <2>3
<1>2. ASSUME NEW form \in Forms, Begin(form) PROVE SealInv' /\ Seals
  BY <1>2, BeginSeals DEF Begin, Going
<1>3. ASSUME NEW id \in Ids, NEW final \in BOOLEAN, Define(id, final) PROVE SealInv' /\ Seals
  BY <1>3, DefineSeals DEF Define, Going
<1>4. ASSUME NEW id \in Ids, NEW final \in BOOLEAN, Redefine(id, final)
      PROVE  ~Going' /\ Seals
  BY <1>4, SameSeals DEF Redefine, Going, Forms
<1>5. CASE Finish \/ Fail
  <2>1. ~Going' /\ Seals
    BY <1>5, SameSeals DEF Finish, Fail, Going, Forms
  <2> QED
    BY <2>1
<1>6. CASE AddTable
  BY <1>6, AddTableSeals DEF AddTable, Going
<1>7. CASE SetValue
  BY <1>7, SetValueSeals DEF SetValue, Going
<1>8. CASE OpenInline
  BY <1>8, OpenInlineSeals DEF OpenInline, Going
<1>9. CASE InlineKey
  BY <1>9, InlineKeySeals DEF InlineKey, Going
<1>10. CASE CloseInline
  BY <1>10, CloseInlineSeals DEF CloseInline, Going
<1> QED
  BY <1>1, <1>2, <1>3, <1>4, <1>5, <1>6, <1>7, <1>8, <1>9, <1>10 DEF Next

(***************************************************************************)
(* The rules about paths seal what is closed: under rules that tolerate a  *)
(* definition as compatible_keys does, no definition, however long the     *)
(* document and whatever its identifiers, reaches below a finished value   *)
(* or below an earlier table of an array.                                  *)
(***************************************************************************)
THEOREM RulesSealClosed == Spec => ClosedSealed
<1>1. Init => (Going => SealInv)
  BY InitSeals
<1>2. (Going => SealInv) /\ [Next]_vars => (Going' => SealInv')
  BY StepSeals
<1>3. (Going => SealInv) /\ [Next]_vars => [Seals]_vars
  BY StepSeals
<1>4. Spec => [][Seals]_vars
  BY <1>1, <1>2, <1>3, PTL DEF Spec
<1>5. [Seals]_vars => [LET now  == kind
                           then == kind'
                       IN  \A p \in {p \in DOMAIN now : Closed(p)} :
                              \A q \in DOMAIN now \cup DOMAIN then : IsPrefix(p, q) =>
                                 q \in DOMAIN now \cap DOMAIN then /\ then[q] = now[q]]_vars
  BY DEF Seals
<1> QED
  BY <1>4, <1>5, PTL DEF ClosedSealed
=============================================================================
