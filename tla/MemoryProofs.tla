---------------------------- MODULE MemoryProofs ----------------------------
(***************************************************************************)
(* Nothing is freed twice, nothing that is in use is freed, and failed     *)
(* arrays are freed, for every length of arrays and every number of        *)
(* objects.                                                                *)
(***************************************************************************)
EXTENDS Memory, Induction, SequenceTheorems, FiniteSetTheorems

Allocated == 1 .. nobjects
Frees     == Range(log)

(***************************************************************************)
(* The pointers: from an array to its elements, from an inline table to    *)
(* its pseudo key, from a key to its value and to its subkeys.             *)
(***************************************************************************)
Elem(v, i, o)  == objects[v].is = "value" /\ objects[v].arr[i] = o /\ o # NULL
DataOf(v, o)   == objects[v].is = "value" /\ objects[v].data = o /\ o # NULL
ValueOf(k, o)  == objects[k].is = "key" /\ objects[k].value = o /\ o # NULL
SubOf(k, o)    == objects[k].is = "key" /\ o \in objects[k].subkeys

Calling == [fun : {"keyval", "array", "inline"}, obj : Ids, key : 0 .. MaxObjects]
Modes   == {"loop", "value", "return", "failing", "done", "failed", "freed", "undefined"}

Typed == /\ objects \in [Ids -> KeyType \cup ValueType]
         /\ nobjects \in Ids
         /\ stack \in Seq(Calling) /\ mode \in Modes
         /\ ret \in 0 .. nobjects /\ log \in Seq(Allocated)

\* An array has so many elements, an inline table its pseudo key; the rest is
\* empty.
Shapes ==
    /\ \A o \in Ids : o > nobjects => objects[o] = new_key
    /\ \A v \in Ids : objects[v].is = "value" =>
          /\ \A i \in Indices : objects[v].arr[i] = NULL <=>
                                   ~(objects[v].type = "array" /\ i < objects[v].len)
          /\ objects[v].data = NULL <=> objects[v].type # "inline"

\* Pointers lead to later objects, to a value or to a key as they should.
Targets ==
    /\ \A v, o \in Ids : \A i \in Indices : Elem(v, i, o) =>
          v < o /\ o <= nobjects /\ objects[o].is = "value"
    /\ \A v, o \in Ids : DataOf(v, o) =>
          o = v + 1 /\ o <= nobjects /\ objects[o].is = "key" /\ objects[o].value = NULL
    /\ \A k, o \in Ids : ValueOf(k, o) =>
          k < o /\ o <= nobjects /\ objects[o].is = "value" /\ objects[o].type # "inline"
    /\ \A k, o \in Ids : SubOf(k, o) => o <= nobjects /\ objects[o].is = "key"

Pointers == Shapes /\ Targets

\* No value and no pseudo key has two pointers to it.
Unshared ==
    /\ \A v, w, o \in Ids : \A i, j \in Indices :
          Elem(v, i, o) /\ Elem(w, j, o) => v = w /\ i = j
    /\ \A v, k, o \in Ids : \A i \in Indices : ~(Elem(v, i, o) /\ ValueOf(k, o))
    /\ \A j, k, o \in Ids : ValueOf(j, o) /\ ValueOf(k, o) => j = k
    /\ \A v, k, o \in Ids : ~(DataOf(v, o) /\ SubOf(k, o))

\* No pointer leads to o, but from the call that waits for it.
Loose(o) == \A p \in Ids : /\ \A i \in Indices : ~Elem(p, i, o)
                           /\ ~DataOf(p, o) /\ ~ValueOf(p, o) /\ ~SubOf(p, o)

\* The calls: what they fill, and the key that waits for its value.
Calls ==
    /\ stack # <<>> /\ stack[1].obj = Root
    /\ \A n \in 1 .. Len(stack) :
          /\ stack[n].fun = "keyval" <=> n = 1
          /\ stack[n].obj \in Allocated /\ Loose(stack[n].obj)
          /\ stack[n].fun = "array"  => /\ objects[stack[n].obj].is = "value"
                                        /\ objects[stack[n].obj].type = "array"
                                        /\ stack[n].key = NULL
          /\ stack[n].fun # "array"  => /\ objects[stack[n].obj].is = "key"
                                        /\ objects[stack[n].obj].value = NULL
          /\ stack[n].fun # "array" /\ (n < Len(stack) \/ mode \in {"value", "return"})
                => stack[n].key # NULL
          /\ stack[n].fun = "array" /\ (n < Len(stack) \/ mode \in {"value", "return"})
                => Room(stack[n].obj)
    /\ \A m, n \in 1 .. Len(stack) : m < n => stack[m].obj < stack[n].obj
    /\ mode \in {"done", "failed", "freed"} => Len(stack) = 1

Waiting ==
    /\ \A n \in 1 .. Len(stack) : stack[n].key # NULL =>
          /\ stack[n].key \in Allocated
          /\ objects[stack[n].key].is = "key" /\ objects[stack[n].key].value = NULL
          /\ \A p \in Ids : ~DataOf(p, stack[n].key)
          /\ \A m \in 1 .. Len(stack) : stack[m].obj # stack[n].key
    /\ \A m, n \in 1 .. Len(stack) : /\ stack[m].key = stack[n].key /\ stack[m].key # NULL => m = n
                                     /\ m < n => stack[m].key < stack[n].obj

Returned ==
    /\ mode = "return" <=> ret # NULL
    /\ ret # NULL => /\ objects[ret].is = "value" /\ Loose(ret)
                     /\ \A n \in 1 .. Len(stack) : stack[n].obj < ret /\ stack[n].key < ret

\* What has been freed: each object once, with the arrays that point to it.
Once(s) == \A i, j \in 1 .. Len(s) : s[i] = s[j] => i = j

Released ==
    /\ Once(log)
    /\ \A p \in Ids : \A o \in Frees : /\ \A i \in Indices : Elem(p, i, o) => p \in Frees
                                       /\ DataOf(p, o) => p \in Frees
                                       /\ ~ValueOf(p, o) /\ ~SubOf(p, o)
    /\ \A p \in Frees : \A o \in Ids : \A i \in Indices : Elem(p, i, o) => o \in Frees
    /\ mode \in {"loop", "value", "return", "done"} => log = <<>>
    /\ mode = "failing" => \A n \in 1 .. Len(stack) : stack[n].obj \notin Frees
                                                      /\ stack[n].key \notin Frees

\* Every value but those of inline tables has somebody to free it.
Kept(v) == \/ v \in Frees \/ v = ret
           \/ \E p \in Ids : (\E i \in Indices : Elem(p, i, v)) \/ ValueOf(p, v)
           \/ \E n \in 1 .. Len(stack) : stack[n].obj = v

Owned == mode # "undefined" => \A v \in Values : Kept(v)

MemInv == Typed /\ Pointers /\ Unshared /\ Calls /\ Waiting /\ Returned /\ Released /\ Owned

USE MaxArrayAssumption, MaxObjectsAssumption

-----------------------------------------------------------------------------
(* Sequences without repetition, and how many elements they have. *)

LEMMA RangeIs == ASSUME NEW S, NEW s \in Seq(S), NEW x
                 PROVE  /\ x \in Range(s) <=> \E i \in 1 .. Len(s) : s[i] = x
                        /\ Range(s) \subseteq S
  BY DEF Range

LEMMA AtIsIn == ASSUME NEW S, NEW s \in Seq(S) PROVE \A i \in 1 .. Len(s) : s[i] \in S
  OBVIOUS

LEMMA SeqGrows == ASSUME NEW S, NEW T, S \subseteq T, NEW s \in Seq(S) PROVE s \in Seq(T)
<1>1. \A i \in 1 .. Len(s) : s[i] \in T
  BY AtIsIn
<1>2. Len(s) \in Nat /\ s = [i \in 1 .. Len(s) |-> s[i]]
  OBVIOUS
<1> QED
  BY <1>1, <1>2

LEMMA JoinedOnce ==
    ASSUME NEW S, NEW s \in Seq(S), NEW t \in Seq(S)
    PROVE  /\ s \o t \in Seq(S) /\ Range(s \o t) = Range(s) \cup Range(t)
           /\ Once(s) /\ Once(t) /\ Range(s) \cap Range(t) = {} => Once(s \o t)
<1>1. /\ s \o t \in Seq(S) /\ Len(s \o t) = Len(s) + Len(t) /\ Len(s) \in Nat /\ Len(t) \in Nat
      /\ \A i \in 1 .. Len(s) + Len(t) : (s \o t)[i] = IF i <= Len(s) THEN s[i]
                                                       ELSE t[i - Len(s)]
  OBVIOUS
<1> DEFINE u == s \o t
<1>2. \A i \in 1 .. Len(u) : \/ i \in 1 .. Len(s) /\ u[i] = s[i]
                             \/ i - Len(s) \in 1 .. Len(t) /\ u[i] = t[i - Len(s)]
  BY <1>1
<1>3. \A i \in 1 .. Len(s) : i \in 1 .. Len(u) /\ u[i] = s[i]
  BY <1>1
<1>4. ASSUME NEW i \in 1 .. Len(t) PROVE i + Len(s) \in 1 .. Len(u) /\ u[i + Len(s)] = t[i]
  <2>1. i + Len(s) \in 1 .. Len(s) + Len(t) /\ ~(i + Len(s) <= Len(s))
        /\ (i + Len(s)) - Len(s) = i
    BY <1>1
  <2> QED
    BY <1>1, <2>1
<1>5. u \in Seq(S) /\ Len(u) = Len(s) + Len(t)
  BY <1>1
<1> HIDE DEF u
<1>6. Range(u) = Range(s) \cup Range(t)
  <2>1. ASSUME NEW x PROVE x \in Range(u) <=> x \in Range(s) \/ x \in Range(t)
    <3>1. ASSUME x \in Range(u) PROVE x \in Range(s) \/ x \in Range(t)
      <4>1. PICK i \in 1 .. Len(u) : u[i] = x
        BY <1>5, <3>1, RangeIs
      <4>2. CASE i \in 1 .. Len(s) /\ u[i] = s[i]
        BY <4>1, <4>2, RangeIs
      <4>3. CASE i - Len(s) \in 1 .. Len(t) /\ u[i] = t[i - Len(s)]
        BY <4>1, <4>3, RangeIs
      <4> QED
        BY <1>2, <4>2, <4>3
    <3>2. ASSUME x \in Range(s) PROVE x \in Range(u)
      <4>1. PICK i \in 1 .. Len(s) : s[i] = x
        BY <3>2, RangeIs
      <4> QED
        BY <1>3, <1>5, <4>1, RangeIs
    <3>3. ASSUME x \in Range(t) PROVE x \in Range(u)
      <4>1. PICK i \in 1 .. Len(t) : t[i] = x
        BY <3>3, RangeIs
      <4> QED
        BY <1>4, <1>5, <4>1, RangeIs
    <3> QED
      BY <3>1, <3>2, <3>3
  <2> QED
    BY <2>1
<1>7. ASSUME Once(s), Once(t), Range(s) \cap Range(t) = {} PROVE Once(u)
  <2>1. ASSUME NEW i \in 1 .. Len(u), NEW j \in 1 .. Len(u), u[i] = u[j] PROVE i = j
    <3>1. CASE i \in 1 .. Len(s) /\ u[i] = s[i]
      <4>1. u[i] \in Range(s)
        BY <3>1, RangeIs
      <4>2. ~(j - Len(s) \in 1 .. Len(t) /\ u[j] = t[j - Len(s)])
        BY <1>7, <2>1, <4>1, RangeIs
      <4> QED
        BY <1>2, <1>7, <2>1, <3>1, <4>2 DEF Once
    <3>2. CASE i - Len(s) \in 1 .. Len(t) /\ u[i] = t[i - Len(s)]
      <4>1. u[i] \in Range(t)
        BY <3>2, RangeIs
      <4>2. ~(j \in 1 .. Len(s) /\ u[j] = s[j])
        BY <1>7, <2>1, <4>1, RangeIs
      <4>3. j - Len(s) \in 1 .. Len(t) /\ u[j] = t[j - Len(s)]
        BY <1>2, <4>2
      <4>4. i - Len(s) = j - Len(s)
        BY <1>7, <2>1, <3>2, <4>3 DEF Once
      <4> QED
        BY <1>1, <4>4
    <3> QED
      BY <1>2, <3>1, <3>2
  <2> QED
    BY <2>1 DEF Once
<1> QED
  BY <1>5, <1>6, <1>7 DEF u

LEMMA OnceCounted ==
    ASSUME NEW S, NEW s \in Seq(S), Once(s)
    PROVE  Len(s) = Cardinality(Range(s))
<1>1. s \in Bijection(1 .. Len(s), Range(s)) /\ Len(s) \in Nat
  BY DEF Once, Range, Bijection, Injection, Surjection, IsInjective
<1>2. ExistsBijection(1 .. Len(s), Range(s))
  BY <1>1 DEF ExistsBijection
<1> QED
  BY <1>1, <1>2, FS_CountingElements

\* The sequences of ss one after the other.
LEMMA FlattenedOnce ==
    ASSUME NEW S, NEW ss \in Seq(Seq(S))
    PROVE  /\ FlattenSeq(ss) \in Seq(S)
           /\ \A x : x \in Range(FlattenSeq(ss)) <=> \E i \in 1 .. Len(ss) : x \in Range(ss[i])
           /\ /\ \A i \in 1 .. Len(ss) : Once(ss[i])
              /\ \A i, j \in 1 .. Len(ss) : i # j => Range(ss[i]) \cap Range(ss[j]) = {}
              => Once(FlattenSeq(ss))
<1> DEFINE L == Len(ss)
           Apart == /\ \A i \in 1 .. L : Once(ss[i])
                    /\ \A i, j \in 1 .. L : i # j => Range(ss[i]) \cap Range(ss[j]) = {}
<1>1. CASE Len(ss) = 0
  <2>1. FlattenSeq(ss) = <<>> /\ 1 .. Len(ss) = {}
    BY <1>1 DEF FlattenSeq
  <2>2. <<>> \in Seq(S) /\ Once(<<>>) /\ \A x : x \notin Range(<<>>)
    BY DEF Once, Range
  <2> QED
    BY <2>1, <2>2
<1>2. CASE Len(ss) # 0
  <2> DEFINE Flat(f, n) == \A i \in 1 .. n : f[i] = IF i = 1 THEN ss[i] ELSE f[i - 1] \o ss[i]
             T == {n \in Nat : n > L \/ \E f : f = [i \in 1 .. n |-> f[i]] /\ Flat(f, n)}
  <2>1. 0 \in T
    <3>1. [i \in 1 .. 0 |-> 0] = [i \in 1 .. 0 |-> [j \in 1 .. 0 |-> 0][i]]
          /\ Flat([i \in 1 .. 0 |-> 0], 0)
      OBVIOUS
    <3> HIDE DEF Flat
    <3> QED
      BY <3>1
  <2>2. ASSUME NEW n \in Nat, n \in T PROVE n + 1 \in T
    <3>1. CASE n > L
      BY <3>1
    <3>2. CASE ~(n > L)
      <4>1. PICK f : f = [i \in 1 .. n |-> f[i]] /\ Flat(f, n)
        <5> HIDE DEF Flat
        <5> QED
          BY <2>2, <3>2
      <4> DEFINE g == [i \in 1 .. n + 1 |->
                          IF i <= n THEN f[i]
                          ELSE IF i = 1 THEN ss[i] ELSE f[i - 1] \o ss[i]]
      <4>2. g = [i \in 1 .. n + 1 |-> g[i]]
        OBVIOUS
      <4>3. Flat(g, n + 1)
        <5>1. ASSUME NEW i \in 1 .. n
              PROVE  g[i] = IF i = 1 THEN ss[i] ELSE g[i - 1] \o ss[i]
          <6>1. g[i] = f[i] /\ (i # 1 => g[i - 1] = f[i - 1])
            OBVIOUS
          <6> HIDE DEF g
          <6> QED
            BY <4>1, <6>1
        <5>2. g[n + 1] = IF n + 1 = 1 THEN ss[n + 1] ELSE g[(n + 1) - 1] \o ss[n + 1]
          <6>1. ~(n + 1 <= n) /\ n + 1 \in 1 .. n + 1 /\ (n + 1) - 1 = n
                /\ (n + 1 # 1 => n \in 1 .. n + 1 /\ n <= n)
            OBVIOUS
          <6> QED
            BY <6>1
        <5>3. \A i \in 1 .. n + 1 : i \in 1 .. n \/ i = n + 1
          OBVIOUS
        <5> HIDE DEF g
        <5> QED
          BY <5>1, <5>2, <5>3
      <4> HIDE DEF g, Flat
      <4> QED
        BY <4>2, <4>3
    <3> QED
      BY <3>1, <3>2
  <2>3. L \in Nat /\ L \in T
    <3>1. Nat \subseteq T
      <4> HIDE DEF T
      <4> QED
        BY <2>1, <2>2, NatInducts
    <3> HIDE DEF T
    <3> QED
      BY <3>1
  <2>4. PICK f : f = [i \in 1 .. L |-> f[i]] /\ Flat(f, L)
    <3> HIDE DEF Flat
    <3> QED
      BY <2>3
  <2>5. f = [i \in 1 .. L |-> IF i = 1 THEN ss[i] ELSE f[i - 1] \o ss[i]]
    BY <2>4
  <2> DEFINE flatten == CHOOSE h : h = [i \in 1 .. L |-> IF i = 1 THEN ss[i]
                                                        ELSE h[i - 1] \o ss[i]]
  <2>6. flatten = [i \in 1 .. L |-> IF i = 1 THEN ss[i] ELSE flatten[i - 1] \o ss[i]]
    <3> HIDE DEF L
    <3> QED
      BY <2>5
  <2>7. FlattenSeq(ss) = flatten[L]
    BY <1>2 DEF FlattenSeq
  <2> HIDE DEF flatten
  <2> DEFINE Good(n) == /\ flatten[n] \in Seq(S)
                        /\ \A x : x \in Range(flatten[n]) <=> \E i \in 1 .. n : x \in Range(ss[i])
                        /\ Apart => Once(flatten[n])
             G == {n \in Nat : n \in 1 .. L => Good(n)}
  <2>8. 0 \in G
    OBVIOUS
  <2>9. ASSUME NEW n \in Nat, n \in G, n + 1 \in 1 .. L PROVE Good(n + 1)
    <3>1. CASE n = 0
      <4>1. flatten[1] = ss[1] /\ ss[1] \in Seq(S) /\ 1 \in 1 .. L
        BY <2>6, <2>9, <3>1
      <4>2. \A x : x \in Range(ss[1]) <=> \E i \in 1 .. 1 : x \in Range(ss[i])
        OBVIOUS
      <4>3. Apart => Once(ss[1])
        BY <4>1
      <4> HIDE DEF Apart
      <4> QED
        BY <3>1, <4>1, <4>2, <4>3
    <3>2. CASE n # 0
      <4>1. n \in 1 .. L /\ Good(n)
        <5>1. n \in 1 .. L
          BY <2>3, <2>9, <3>2
        <5> HIDE DEF Good, L
        <5> QED
          BY <2>9, <5>1
      <4>2. flatten[n + 1] = flatten[n] \o ss[n + 1] /\ ss[n + 1] \in Seq(S)
        <5>1. n + 1 # 1 /\ (n + 1) - 1 = n
          BY <3>2
        <5>2. flatten[n + 1] = flatten[(n + 1) - 1] \o ss[n + 1]
          <6> HIDE DEF L
          <6> QED
            BY <2>6, <2>9, <5>1
        <5>3. ss[n + 1] \in Seq(S)
          BY <2>9
        <5> QED
          BY <5>1, <5>2, <5>3, Zenon
      <4> DEFINE a == flatten[n]
                 b == ss[n + 1]
      <4>3. /\ a \in Seq(S) /\ b \in Seq(S) /\ flatten[n + 1] = a \o b
            /\ \A x : x \in Range(a) <=> \E i \in 1 .. n : x \in Range(ss[i])
            /\ Apart => Once(a)
        BY <4>1, <4>2
      <4>4. Apart => Once(b) /\ Range(a) \cap Range(b) = {}
        <5> SUFFICES ASSUME Apart PROVE Once(b) /\ Range(a) \cap Range(b) = {}
          OBVIOUS
        <5>1. \A i \in 1 .. n : i \in 1 .. L /\ i # n + 1
          BY <4>1
        <5>2. \A i \in 1 .. n : Range(ss[i]) \cap Range(b) = {}
          BY <2>9, <5>1
        <5>3. \A x : x \in Range(a) => x \notin Range(b)
          BY <4>3, <5>2
        <5> QED
          BY <2>9, <5>3
      <4>5. \A x : (\E i \in 1 .. n + 1 : x \in Range(ss[i]))
                      <=> (\E i \in 1 .. n : x \in Range(ss[i])) \/ x \in Range(b)
        <5>1. \A i : i \in 1 .. n + 1 <=> i \in 1 .. n \/ i = n + 1
          OBVIOUS
        <5> QED
          BY <5>1
      <4> HIDE DEF a, b, Apart
      <4>6. /\ a \o b \in Seq(S) /\ Range(a \o b) = Range(a) \cup Range(b)
            /\ Apart => Once(a \o b)
        BY <4>3, <4>4, JoinedOnce
      <4> QED
        BY <4>3, <4>5, <4>6
    <3> QED
      BY <3>1, <3>2
  <2>10. Nat \subseteq G
    <3> HIDE DEF Good
    <3>1. ASSUME NEW n \in Nat, n \in G PROVE n + 1 \in G
      BY SMTT(30), <2>9, <3>1
    <3> HIDE DEF G
    <3> QED
      BY <2>8, <3>1, NatInducts
  <2>11. Good(L)
    <3>1. L \in 1 .. L /\ L \in Nat
      BY <1>2, <2>3
    <3> HIDE DEF Good
    <3> QED
      BY <2>10, <3>1
  <2> QED
    BY <2>7, <2>11
<1> QED
  BY <1>1, <1>2

-----------------------------------------------------------------------------
(* What delete_value frees. *)

\* Elements stops at the first NULL, which is behind the last element.
LEMMA ElementsAre ==
    ASSUME Typed, Pointers, NEW v \in Ids
    PROVE  /\ Elements(v) \in Seq(v + 1 .. MaxObjects)
           /\ objects[v].is = "key" => Elements(v) = <<>>
           /\ objects[v].is = "value" =>
                 /\ \A i \in 1 .. Len(Elements(v)) :
                       i - 1 \in Indices /\ Elem(v, i - 1, Elements(v)[i])
                 /\ \A j \in Indices : \A o : Elem(v, j, o) =>
                       j + 1 \in 1 .. Len(Elements(v)) /\ Elements(v)[j + 1] = o
<1>1. objects[v] \in KeyType \/ objects[v] \in ValueType
  BY DEF Typed
<1>2. CASE objects[v].is = "key"
  BY <1>2 DEF Elements
<1>3. CASE objects[v].is # "key"
  <2>1. /\ objects[v].is = "value" /\ objects[v].len \in 0 .. MaxArray
        /\ \A i \in Indices : objects[v].arr[i] \in 0 .. MaxObjects
    BY <1>1, <1>3 DEF KeyType, ValueType
  <2>2. PICK l \in 0 .. MaxArray : l = IF objects[v].type = "array" THEN objects[v].len ELSE 0
    BY <2>1
  <2> DEFINE S == {i \in Indices : objects[v].arr[i] = NULL} \cup {MaxArray}
  <2>3. \A i \in Indices : objects[v].arr[i] = NULL <=> ~(i < l)
    BY <2>1, <2>2 DEF Pointers, Shapes, Indices
  <2>4. l \in S /\ \A i \in S : l <= i
    BY <2>2, <2>3 DEF Indices
  <2>5. S \subseteq Nat
    BY DEF Indices
  <2> HIDE DEF S
  <2>6. Min(S) = l
    <3>1. ASSUME NEW x \in S, \A y \in S : x <= y PROVE x = l
      BY <2>4, <2>5, <3>1
    <3> QED
      BY <2>4, <3>1 DEF Min
  <2>7. Elements(v) = [i \in 1 .. l |-> objects[v].arr[i - 1]]
    BY <1>3, <2>6 DEF Elements, S
  <2>8. ASSUME NEW i \in 1 .. l
        PROVE  /\ i - 1 \in Indices /\ objects[v].arr[i - 1] # NULL
               /\ objects[v].arr[i - 1] \in v + 1 .. MaxObjects
    <3>1. i - 1 \in Indices /\ i - 1 < l
      BY <2>2 DEF Indices
    <3>2. objects[v].arr[i - 1] # NULL
      BY <2>3, <3>1
    <3>3. objects[v].arr[i - 1] \in Ids
      BY <2>1, <3>1, <3>2 DEF Ids, NULL
    <3>4. v < objects[v].arr[i - 1]
      BY <2>1, <3>1, <3>2, <3>3 DEF Pointers, Targets, Elem
    <3> QED
      BY <3>1, <3>2, <3>3, <3>4 DEF Ids
  <2>9. Elements(v) \in Seq(v + 1 .. MaxObjects) /\ Len(Elements(v)) = l
        /\ \A i \in 1 .. l : Elements(v)[i] = objects[v].arr[i - 1]
    BY <2>7, <2>8
  <2>10. ASSUME NEW j \in Indices, NEW o, Elem(v, j, o)
         PROVE  j + 1 \in 1 .. l /\ Elements(v)[j + 1] = o
    <3>1. objects[v].arr[j] = o /\ objects[v].arr[j] # NULL
      BY <2>10 DEF Elem
    <3>2. j < l
      BY <2>3, <3>1
    <3>3. j + 1 \in 1 .. l /\ (j + 1) - 1 = j
      BY <2>2, <3>2 DEF Indices
    <3> QED
      BY <2>9, <3>1, <3>3
  <2> QED
    BY <1>3, <2>1, <2>8, <2>9, <2>10 DEF Elem
<1> QED
  BY <1>2, <1>3

Pseudo(v)     == IF objects[v].data = NULL THEN <<>> ELSE <<objects[v].data>>
Frees1(del, v) == FlattenSeq([i \in 1 .. Len(Elements(v)) |-> del[Elements(v)[i]]])
                  \o Pseudo(v) \o <<v>>

LEMMA DeletedIs ==
    ASSUME Typed, Pointers
    PROVE  \A v \in Ids : Deleted[v] = Frees1(Deleted, v)
<1> DEFINE Right(d, j) == /\ d = [v \in Ids |-> d[v]]
                          /\ \A v \in Ids : v > MaxObjects - j => d[v] = Frees1(d, v)
           T == {j \in Nat : j > MaxObjects \/ \E d : Right(d, j)}
<1>1. 0 \in T
  <2>1. Right([v \in Ids |-> 0], 0)
    BY DEF Ids
  <2> HIDE DEF Right
  <2> QED
    BY <2>1
<1>2. ASSUME NEW d, NEW e, NEW v \in Ids, \A w \in v + 1 .. MaxObjects : d[w] = e[w]
      PROVE  Frees1(d, v) = Frees1(e, v)
  <2>1. \A i \in 1 .. Len(Elements(v)) : Elements(v)[i] \in v + 1 .. MaxObjects
    BY ElementsAre, AtIsIn
  <2>2. [i \in 1 .. Len(Elements(v)) |-> d[Elements(v)[i]]]
           = [i \in 1 .. Len(Elements(v)) |-> e[Elements(v)[i]]]
    BY <1>2, <2>1
  <2> QED
    BY <2>2 DEF Frees1
<1>3. ASSUME NEW j \in Nat, j \in T PROVE j + 1 \in T
  <2>1. CASE j + 1 > MaxObjects
    BY <2>1
  <2>2. CASE ~(j + 1 > MaxObjects)
    <3>1. PICK d : Right(d, j)
      <4> HIDE DEF Right
      <4> QED
        BY <1>3, <2>2
    <3>2. PICK l \in Ids : l = MaxObjects - j
      BY <2>2 DEF Ids
    <3>3. PICK e : e = [v \in Ids |-> IF v = l THEN Frees1(d, l) ELSE d[v]]
      OBVIOUS
    <3>4. ASSUME NEW v \in Ids, v >= l PROVE Frees1(e, v) = Frees1(d, v)
      <4>1. \A w \in v + 1 .. MaxObjects : w \in Ids /\ w # l
        BY <3>4 DEF Ids
      <4>2. \A w \in v + 1 .. MaxObjects : e[w] = d[w]
        BY <3>3, <4>1
      <4> QED
        BY <1>2, <4>2
    <3>5. ASSUME NEW v \in Ids, v > MaxObjects - (j + 1) PROVE e[v] = Frees1(e, v)
      <4>1. CASE v = l
        BY <3>3, <3>4, <4>1 DEF Ids
      <4>2. CASE v # l
        <5>1. v > MaxObjects - j /\ v >= l
          BY <3>2, <3>5, <4>2 DEF Ids
        <5>2. e[v] = d[v] /\ d[v] = Frees1(d, v)
          BY <3>1, <3>3, <4>2, <5>1
        <5> QED
          BY <3>4, <5>1, <5>2
      <4> QED
        BY <4>1, <4>2
    <3>6. Right(e, j + 1)
      BY <3>3, <3>5
    <3> HIDE DEF Right
    <3> QED
      BY <3>6
  <2> QED
    BY <2>1, <2>2
<1>4. MaxObjects \in T
  <2>1. Nat \subseteq T
    <3> HIDE DEF T
    <3> QED
      BY <1>1, <1>3, NatInducts
  <2> HIDE DEF T
  <2> QED
    BY <2>1
<1>5. PICK d : Right(d, MaxObjects)
  <2> HIDE DEF Right
  <2> QED
    BY <1>4
<1>6. \A v \in Ids : d[v] = Frees1(d, v)
  BY <1>5 DEF Ids
<1>7. d = [v \in Ids |-> Frees1(d, v)]
  BY <1>5, <1>6
<1>8. \E del : del = [v \in Ids |->
                FlattenSeq([i \in 1 .. Len(Elements(v)) |-> del[Elements(v)[i]]])
                \o (IF objects[v].data = NULL THEN <<>> ELSE <<objects[v].data>>)
                \o <<v>>]
  BY <1>7, Zenon DEF Frees1, Pseudo
<1>9. Deleted = [v \in Ids |->
                FlattenSeq([i \in 1 .. Len(Elements(v)) |-> Deleted[Elements(v)[i]]])
                \o (IF objects[v].data = NULL THEN <<>> ELSE <<objects[v].data>>)
                \o <<v>>]
  BY <1>8, Zenon DEF Deleted
<1>10. Deleted = [v \in Ids |-> Frees1(Deleted, v)]
  BY <1>9, Zenon DEF Frees1, Pseudo
<1> QED
  BY <1>10, Zenon

\* The array or inline table that o is freed with.
Owner(p, o) == (\E i \in Indices : Elem(p, i, o)) \/ DataOf(p, o)

LEMMA OwnerFacts ==
    ASSUME Pointers, Unshared, NEW p \in Ids, NEW o \in Ids, Owner(p, o)
    PROVE  /\ p < o /\ o <= nobjects /\ objects[p].is = "value"
           /\ \A q \in Ids : Owner(q, o) => q = p
<1>1. p < o /\ o <= nobjects /\ objects[p].is = "value"
  BY DEF Owner, Pointers, Targets, Elem, DataOf, Ids
<1>2. ASSUME NEW q \in Ids, Owner(q, o) PROVE q = p
  <2>1. CASE \E i \in Indices : Elem(p, i, o)
    <3>1. ~DataOf(q, o)
      BY <2>1 DEF Pointers, Targets
    <3> QED
      BY <1>2, <2>1, <3>1 DEF Owner, Unshared
  <2>2. CASE DataOf(p, o)
    <3>1. \A i \in Indices : ~Elem(q, i, o)
      BY <2>2 DEF Pointers, Targets
    <3>2. DataOf(q, o)
      BY <1>2, <3>1 DEF Owner
    <3>3. o = p + 1 /\ o = q + 1
      BY <2>2, <3>2 DEF Pointers, Targets
    <3> QED
      BY <3>3 DEF Ids
  <2> QED
    BY <2>1, <2>2 DEF Owner
<1> QED
  BY <1>1, <1>2

LEMMA ValuesAllocated ==
    ASSUME Typed, Pointers, NEW v \in Ids, objects[v].is = "value"
    PROVE  v \in Allocated
  BY DEF Typed, Pointers, Shapes, Ids, Allocated, new_key

Gone(v) ==
    /\ Deleted[v] \in Seq(v .. nobjects) /\ Once(Deleted[v]) /\ v \in Range(Deleted[v])
    /\ \A p \in Range(Deleted[v]) : \A o \in Ids : Owner(p, o) => o \in Range(Deleted[v])
    /\ \A o \in Range(Deleted[v]) : o = v \/ \E p \in Range(Deleted[v]) : Owner(p, o)

LEMMA GoneRange == ASSUME Typed, NEW v \in Ids, Gone(v)
                   PROVE  Range(Deleted[v]) \subseteq v .. nobjects
                          /\ Range(Deleted[v]) \subseteq Ids
<1>1. Range(Deleted[v]) \subseteq v .. nobjects
  BY RangeIs DEF Gone
<1> QED
  BY <1>1 DEF Typed, Ids

\* Different elements are freed with different objects.
LEMMA GoneApart ==
    ASSUME Typed, Pointers, Unshared, NEW v \in Ids, NEW e \in v + 1 .. MaxObjects,
           NEW f \in v + 1 .. MaxObjects, e # f, Owner(v, e), Owner(v, f), Gone(e), Gone(f),
           objects[e].is = "value", objects[f].is = "value"
    PROVE  Range(Deleted[e]) \cap Range(Deleted[f]) = {}
<1> DEFINE T == Range(Deleted[e]) \cap Range(Deleted[f])
<1> SUFFICES ASSUME T # {} PROVE FALSE
  OBVIOUS
<1>1. e \in Ids /\ f \in Ids /\ T \subseteq Nat
      /\ Range(Deleted[e]) \subseteq Ids /\ Range(Deleted[f]) \subseteq Ids
  BY GoneRange DEF Ids
<1>2. PICK x \in T : \A y \in T : x <= y
  <2> HIDE DEF T
  <2>1. [y \in T |-> y] \in [T -> Nat]
    BY <1>1
  <2>2. PICK x \in T : \A y \in T : [z \in T |-> z][x] <= [z \in T |-> z][y]
    BY <2>1, LeastRank
  <2> QED
    BY <2>2
<1>3. ASSUME x # e, x # f PROVE FALSE
  <2>1. PICK p \in Range(Deleted[e]) : Owner(p, x)
    BY <1>3 DEF Gone
  <2>2. PICK q \in Range(Deleted[f]) : Owner(q, x)
    BY <1>3 DEF Gone
  <2>3. p = q /\ p < x /\ p \in Nat /\ x \in Nat
    BY <1>1, <2>1, <2>2, OwnerFacts DEF Ids
  <2>4. x <= p
    BY <1>2, <2>1, <2>2, <2>3
  <2> QED
    BY <2>3, <2>4
<1>4. ASSUME NEW g \in {e, f}, NEW h \in {e, f}, x = g, x # h PROVE FALSE
  <2>1. PICK p \in Range(Deleted[h]) : Owner(p, x)
    <3>1. x \in Range(Deleted[h]) /\ Gone(h)
      BY <1>4
    <3> QED
      BY <1>4, <3>1 DEF Gone
  <2>2. p = v
    BY <1>1, <1>4, <2>1, OwnerFacts
  <2>3. p \in h .. nobjects
    BY <1>1, <2>1, GoneRange
  <2> QED
    BY <2>2, <2>3 DEF Ids
<1> QED
  BY <1>3, <1>4

LEMMA DeletedFacts ==
    ASSUME Typed, Pointers, Unshared
    PROVE  \A v \in Ids : objects[v].is = "value" => Gone(v)
<1> DEFINE S == {v \in Ids : objects[v].is = "value" => Gone(v)}
<1>1. ASSUME NEW v \in Ids, \A w \in v + 1 .. MaxObjects : w \in S PROVE v \in S
  <2> SUFFICES ASSUME objects[v].is = "value" PROVE Gone(v)
    OBVIOUS
  <2>1. PICK es : es = Elements(v)
    OBVIOUS
  <2>2. /\ es \in Seq(v + 1 .. MaxObjects)
        /\ \A i \in 1 .. Len(es) : es[i] \in v + 1 .. MaxObjects
        /\ \A i \in 1 .. Len(es) : i - 1 \in Indices /\ Elem(v, i - 1, es[i])
        /\ \A j \in Indices : \A o : Elem(v, j, o) => j + 1 \in 1 .. Len(es) /\ es[j + 1] = o
    BY <2>1, ElementsAre, AtIsIn
  <2>3. ASSUME NEW i \in 1 .. Len(es)
        PROVE  /\ es[i] \in Ids /\ objects[es[i]].is = "value" /\ Owner(v, es[i])
               /\ Gone(es[i]) /\ es[i] \in v + 1 .. MaxObjects
    <3>1. es[i] \in v + 1 .. MaxObjects /\ i - 1 \in Indices /\ Elem(v, i - 1, es[i])
      BY <2>2
    <3>2. es[i] \in Ids
      BY <3>1 DEF Ids
    <3>3. objects[es[i]].is = "value"
      BY <3>1, <3>2 DEF Pointers, Targets
    <3>4. Gone(es[i])
      BY <1>1, <3>1, <3>3
    <3> QED
      BY <3>1, <3>2, <3>3, <3>4 DEF Owner
  <2>4. PICK ss : ss = [i \in 1 .. Len(es) |-> Deleted[es[i]]]
    OBVIOUS
  <2>5. nobjects \in Ids /\ v \in 1 .. nobjects /\ Len(es) \in Nat
    BY <2>2, ValuesAllocated DEF Typed, Allocated
  <2>6. ASSUME NEW i \in 1 .. Len(es)
        PROVE  /\ ss[i] = Deleted[es[i]] /\ ss[i] \in Seq(v + 1 .. nobjects)
               /\ Once(ss[i])
    <3>1. ss[i] \in Seq(es[i] .. nobjects) /\ Once(ss[i])
      BY <2>3, <2>4 DEF Gone
    <3>2. es[i] .. nobjects \subseteq v + 1 .. nobjects
      BY <2>2, <2>5 DEF Ids
    <3> QED
      BY ZenonT(60), <2>4, <3>1, <3>2, SeqGrows
  <2>7. ss \in Seq(Seq(v + 1 .. nobjects)) /\ Len(ss) = Len(es)
    BY <2>4, <2>5, <2>6
  <2>8. ASSUME NEW i \in 1 .. Len(es), NEW j \in 1 .. Len(es), i # j
        PROVE  Range(ss[i]) \cap Range(ss[j]) = {}
    <3>1. es[i] # es[j]
      <4>1. Elem(v, i - 1, es[i]) /\ Elem(v, j - 1, es[j])
            /\ i - 1 \in Indices /\ j - 1 \in Indices
        BY <2>2
      <4>2. es[i] = es[j] => i - 1 = j - 1
        BY <2>3, <4>1 DEF Unshared
      <4> QED
        BY <2>8, <4>2
    <3> QED
      BY ZenonT(60), <2>3, <2>6, <3>1, GoneApart
  <2>9. PICK flat : flat = FlattenSeq(ss)
    OBVIOUS
  <2>10. /\ flat \in Seq(v + 1 .. nobjects) /\ Once(flat)
         /\ \A x : x \in Range(flat) <=> \E i \in 1 .. Len(es) : x \in Range(ss[i])
    BY <2>6, <2>7, <2>8, <2>9, FlattenedOnce
  <2>11. PICK data : data = Pseudo(v)
    OBVIOUS
  <2>12. /\ data \in Seq(v + 1 .. nobjects) /\ Once(data)
         /\ \A x : x \in Range(data) <=> DataOf(v, x)
         /\ flat = <<>> \/ data = <<>>
    <3>1. CASE objects[v].data = NULL
      <4>1. data = <<>>
        BY <2>11, <3>1 DEF Pseudo
      <4>2. \A x : ~DataOf(v, x)
        BY <3>1 DEF DataOf
      <4> QED
        BY <4>1, <4>2 DEF Once, Range
    <3>2. CASE objects[v].data # NULL
      <4>1. data = <<objects[v].data>>
        BY <2>11, <3>2 DEF Pseudo
      <4>2. objects[v].data \in Ids
        BY <3>2 DEF Typed, KeyType, ValueType, Ids, NULL
      <4>3. objects[v].data = v + 1 /\ v + 1 <= nobjects
        BY <3>2, <4>2 DEF Pointers, Targets, DataOf
      <4>4. data = <<v + 1>> /\ v + 1 \in v + 1 .. nobjects
        BY <2>5, <4>1, <4>3 DEF Ids
      <4>5. data \in Seq(v + 1 .. nobjects) /\ Once(data) /\ Range(data) = {v + 1}
        BY <4>4 DEF Once, Range
      <4>6. \A x : DataOf(v, x) <=> x = v + 1
        BY <3>2, <4>3 DEF DataOf
      <4>7. flat = <<>>
        <5>1. objects[v].type # "array"
          BY <3>2 DEF Pointers, Shapes
        <5>2. \A i \in Indices : objects[v].arr[i] = NULL
          BY <5>1 DEF Pointers, Shapes
        <5>3. 1 .. Len(es) = {}
          BY <2>2, <5>2 DEF Elem
        <5>4. Len(es) = 0 /\ Len(ss) = Len(es)
          <6>1. PICK n \in Nat : n = Len(es)
            BY <2>5
          <6>2. 1 .. n = {}
            BY <5>3, <6>1
          <6>3. n = 0
            BY <6>2
          <6> QED
            BY <2>7, <6>1, <6>3
        <5>5. ss = <<>>
          BY <2>7, <5>4
        <5> QED
          BY <2>9, <5>5 DEF FlattenSeq
      <4> QED
        BY <4>5, <4>6, <4>7
    <3> QED
      BY <3>1, <3>2
  <2>13. Deleted[v] = flat \o data \o <<v>>
    <3>1. Deleted[v] = Frees1(Deleted, v)
      BY DeletedIs
    <3> QED
      BY <2>1, <2>4, <2>9, <2>11, <3>1 DEF Frees1
  <2>14. PICK all : all = flat \o data
    OBVIOUS
  <2>15. /\ all \in Seq(v + 1 .. nobjects) /\ Once(all)
         /\ Range(all) = Range(flat) \cup Range(data)
    <3>1. Range(<<>>) = {}
      BY DEF Range
    <3>2. Range(flat) \cap Range(data) = {}
      BY <2>12, <3>1
    <3> QED
      BY <2>10, <2>12, <2>14, <3>2, JoinedOnce
  <2>16. /\ Deleted[v] \in Seq(v .. nobjects) /\ Once(Deleted[v])
         /\ Range(Deleted[v]) = Range(all) \cup {v}
    <3>1. v .. nobjects = (v + 1 .. nobjects) \cup {v} /\ v \notin v + 1 .. nobjects
      BY <2>5 DEF Ids
    <3>2. <<v>> \in Seq(v .. nobjects) /\ Range(<<v>>) = {v} /\ Once(<<v>>)
      BY <3>1 DEF Once, Range
    <3>3. all \in Seq(v .. nobjects) /\ Range(all) \subseteq v + 1 .. nobjects
      BY ZenonT(60), <2>15, <3>1, RangeIs, SeqGrows
    <3>4. Range(all) \cap Range(<<v>>) = {}
      BY <3>1, <3>2, <3>3
    <3>5. PICK one : one = <<v>>
      OBVIOUS
    <3>6. /\ all \o one \in Seq(v .. nobjects) /\ Range(all \o one) = Range(all) \cup Range(one)
          /\ Once(all \o one)
      <4>1. /\ all \in Seq(v .. nobjects) /\ one \in Seq(v .. nobjects) /\ Once(all) /\ Once(one)
            /\ Range(all) \cap Range(one) = {}
        BY <2>15, <3>2, <3>3, <3>4, <3>5
      <4> QED
        BY <4>1, JoinedOnce
    <3> QED
      BY <2>13, <2>14, <3>2, <3>5, <3>6
  <2>17. \A x : x \in Range(Deleted[v]) <=> \/ x = v \/ DataOf(v, x)
                                            \/ \E i \in 1 .. Len(es) : x \in Range(Deleted[es[i]])
    BY <2>6, <2>10, <2>12, <2>15, <2>16
  <2>18. ASSUME NEW p \in Range(Deleted[v]), NEW o \in Ids, Owner(p, o)
         PROVE  o \in Range(Deleted[v])
    <3>1. CASE p = v
      <4>1. CASE DataOf(v, o)
        BY <2>17, <4>1
      <4>2. CASE \E i \in Indices : Elem(v, i, o)
        <5>1. PICK j \in Indices : Elem(v, j, o)
          BY <4>2
        <5>2. j + 1 \in 1 .. Len(es) /\ es[j + 1] = o
          BY <2>2, <5>1
        <5>3. o \in Range(Deleted[o])
          BY <2>3, <5>2 DEF Gone
        <5> QED
          BY <2>17, <5>2, <5>3
      <4> QED
        BY <2>18, <3>1, <4>1, <4>2 DEF Owner
    <3>2. CASE DataOf(v, p)
      <4>1. p \in Ids
        BY <2>16, RangeIs, <2>5 DEF Ids
      <4>2. objects[p].is = "key"
        BY <3>2, <4>1 DEF Pointers, Targets
      <4>3. ~Owner(p, o)
        BY <4>2 DEF Owner, Elem, DataOf
      <4> QED
        BY <2>18, <4>3
    <3>3. CASE \E i \in 1 .. Len(es) : p \in Range(Deleted[es[i]])
      <4>1. PICK i \in 1 .. Len(es) : p \in Range(Deleted[es[i]])
        BY <3>3
      <4>2. o \in Range(Deleted[es[i]])
        BY <2>3, <2>18, <4>1 DEF Gone
      <4> QED
        BY <2>17, <4>2
    <3> QED
      BY <2>17, <3>1, <3>2, <3>3
  <2>19. ASSUME NEW o \in Range(Deleted[v]), o # v
         PROVE  \E p \in Range(Deleted[v]) : Owner(p, o)
    <3>1. v \in Range(Deleted[v])
      BY <2>17
    <3>2. CASE DataOf(v, o)
      BY <3>1, <3>2 DEF Owner
    <3>3. CASE \E i \in 1 .. Len(es) : o \in Range(Deleted[es[i]])
      <4>1. PICK i \in 1 .. Len(es) : o \in Range(Deleted[es[i]])
        BY <3>3
      <4>2. CASE o = es[i]
        BY <2>3, <3>1, <4>2
      <4>3. CASE o # es[i]
        <5>1. PICK p \in Range(Deleted[es[i]]) : Owner(p, o)
          BY <2>3, <4>1, <4>3 DEF Gone
        <5> QED
          BY <2>17, <5>1
      <4> QED
        BY <4>2, <4>3
    <3> QED
      BY <2>17, <2>19, <3>2, <3>3
  <2> QED
    BY <2>16, <2>17, <2>18, <2>19 DEF Gone
<1>2. 1 .. MaxObjects \subseteq S
  <2>1. \A v \in 1 .. MaxObjects : (\A w \in v + 1 .. MaxObjects : w \in S) => v \in S
    BY <1>1 DEF Ids
  <2> HIDE DEF S
  <2> QED
    BY <2>1, DownInducts
<1> QED
  BY <1>2 DEF Ids

-----------------------------------------------------------------------------
(* The first state, and the calls. *)

LEMMA NewTyped ==
    /\ new_key \in KeyType \cup ValueType /\ new_key.is = "key"
    /\ new_key.subkeys = {} /\ new_key.value = NULL
    /\ \A t \in {"scalar", "array", "inline"} :
          LET v == new_value(t)
          IN  /\ v \in KeyType \cup ValueType /\ v.is = "value" /\ v.type = t /\ v.len = 0
              /\ v.data = NULL /\ \A i \in Indices : v.arr[i] = NULL
  BY DEF new_key, new_value, KeyType, ValueType, NULL

LEMMA MemInit == ASSUME Init PROVE MemInv
<1>1. objects = [o \in Ids |-> new_key] /\ nobjects = 1 /\ ret = NULL /\ log = <<>> /\ mode = "loop"
  BY DEF Init
<1>2. stack \in Seq(Calling) /\ Len(stack) = 1 /\ stack # <<>>
      /\ stack[1] = [fun |-> "keyval", obj |-> Root, key |-> NULL]
  BY DEF Init, Call, Calling, Root, NULL, Ids
<1>3. \A n \in 1 .. Len(stack) : n = 1 /\ Len(stack) = 1
  BY <1>2
<1>4. \A o \in Ids : objects[o] = new_key /\ objects[o].is = "key"
                     /\ objects[o].value = NULL /\ objects[o].subkeys = {}
  BY <1>1, NewTyped
<1>5. \A o \in Ids : Loose(o)
  BY <1>4 DEF Loose, Elem, DataOf, ValueOf, SubOf
<1>6. Typed
  BY <1>1, <1>2, NewTyped DEF Typed, Ids, Modes, NULL, Allocated
<1>7. Pointers /\ Unshared
  BY <1>4 DEF Pointers, Shapes, Targets, Unshared, Elem, DataOf, ValueOf, SubOf
<1>8. Calls
  BY <1>1, <1>2, <1>3, <1>4, <1>5 DEF Calls, Allocated, Root, Ids
<1>9. Waiting /\ Returned
  BY <1>1, <1>2, <1>3 DEF Waiting, Returned
<1>10. Released
  <2>1. Range(log) = {} /\ Once(log)
    BY <1>1 DEF Range, Once
  <2> QED
    BY <1>1, <2>1 DEF Released, Frees
<1>11. Owned
  BY <1>1, <1>4 DEF Owned, Values, Ids
<1> QED
  BY <1>6, <1>7, <1>8, <1>9, <1>10, <1>11 DEF MemInv

LEMMA TopIs ==
    ASSUME Typed, Calls
    PROVE  /\ Len(stack) \in Nat \ {0} /\ Len(stack) \in 1 .. Len(stack)
           /\ Top = stack[Len(stack)] /\ Top.obj \in Ids
           /\ \A n \in 1 .. Len(stack) : stack[n] \in Calling /\ stack[n].obj \in Ids
                                         /\ stack[n].key \in 0 .. MaxObjects
<1>1. stack # <<>> /\ stack \in Seq(Calling)
  BY DEF Typed, Calls
<1>2. Len(stack) \in Nat \ {0}
  BY <1>1
<1>3. Len(stack) \in 1 .. Len(stack)
  BY <1>2
<1>4. \A n \in 1 .. Len(stack) : stack[n] \in Calling
  BY <1>1, AtIsIn
<1> QED
  BY <1>2, <1>3, <1>4 DEF Top, Last, Calling

LEMMA Popped ==
    ASSUME Typed, Calls, Pop
    PROVE  /\ stack' \in Seq(Calling) /\ Len(stack') = Len(stack) - 1
           /\ \A n \in 1 .. Len(stack') : n \in 1 .. Len(stack) /\ n < Len(stack)
                                          /\ stack'[n] = stack[n]
<1>1. stack # <<>> /\ stack \in Seq(Calling) /\ stack' = SubSeq(stack, 1, Len(stack) - 1)
  BY DEF Typed, Calls, Pop, Front
<1>2. Len(stack) \in Nat \ {0}
  BY <1>1
<1>3. PICK n \in Nat : n = Len(stack) - 1
  BY <1>2
<1>4. 1 .. n \subseteq 1 .. Len(stack) /\ \A i \in 1 .. n : i < Len(stack) /\ 1 + i - 1 = i
  BY <1>2, <1>3
<1>5. /\ SubSeq(stack, 1, n) \in Seq(Calling) /\ Len(SubSeq(stack, 1, n)) = n
      /\ \A i \in 1 .. n : SubSeq(stack, 1, n)[i] = stack[i]
  <2>1. \A i \in 1 .. n : stack[i] \in Calling
    BY <1>1, <1>4, AtIsIn
  <2>2. (IF 1 <= n THEN n - 1 + 1 ELSE 0) = n /\ n - 1 + 1 = n
    OBVIOUS
  <2>3. /\ SubSeq(stack, 1, n) \in Seq(Calling)
        /\ Len(SubSeq(stack, 1, n)) = IF 1 <= n THEN n - 1 + 1 ELSE 0
        /\ \A i \in 1 .. n - 1 + 1 : SubSeq(stack, 1, n)[i] = stack[1 + i - 1]
    BY <2>1, SubSeqProperties
  <2> QED
    BY <1>4, <2>2, <2>3
<1> QED
  BY <1>1, <1>3, <1>4, <1>5

\* A call that is not parse_keyval is not the first.
LEMMA TopNotFirst ==
    ASSUME Typed, Calls, Top.fun # "keyval"
    PROVE  Len(stack) - 1 \in Nat \ {0}
<1>1. Len(stack) \in Nat \ {0} /\ Len(stack) \in 1 .. Len(stack) /\ Top = stack[Len(stack)]
  BY TopIs
<1>2. Len(stack) # 1
  BY <1>1 DEF Calls
<1> QED
  BY <1>1, <1>2

-----------------------------------------------------------------------------
(* Steps that leave the heap alone. *)

SameHeap == objects' = objects /\ nobjects' = nobjects

LEMMA SamePointers ==
    ASSUME SameHeap
    PROVE  /\ \A p, o : \A i : Elem(p, i, o)' <=> Elem(p, i, o)
           /\ \A p, o : /\ DataOf(p, o)' <=> DataOf(p, o)
                        /\ ValueOf(p, o)' <=> ValueOf(p, o)
                        /\ SubOf(p, o)' <=> SubOf(p, o)
           /\ \A o : (Loose(o)' <=> Loose(o)) /\ (Room(o)' <=> Room(o))
           /\ Allocated' = Allocated /\ Values' = Values
           /\ Pointers' <=> Pointers
           /\ Unshared' <=> Unshared
<1> USE DEF SameHeap
<1>1. /\ \A p, o : \A i : Elem(p, i, o)' <=> Elem(p, i, o)
      /\ \A p, o : /\ DataOf(p, o)' <=> DataOf(p, o)
                   /\ ValueOf(p, o)' <=> ValueOf(p, o)
                   /\ SubOf(p, o)' <=> SubOf(p, o)
  BY DEF Elem, DataOf, ValueOf, SubOf
<1>2. \A o : (Loose(o)' <=> Loose(o)) /\ (Room(o)' <=> Room(o))
  BY DEF Loose, Elem, DataOf, ValueOf, SubOf, Room
<1>3. Allocated' = Allocated /\ Values' = Values
  BY DEF Allocated, Values
<1>4. Pointers' <=> Pointers
  BY DEF Pointers, Shapes, Targets, Elem, DataOf, ValueOf, SubOf
<1>5. Unshared' <=> Unshared
  BY DEF Unshared, Elem, DataOf, ValueOf, SubOf
<1> QED
  BY <1>1, <1>2, <1>3, <1>4, <1>5

\* The end of parse_keyval, the next element and a failure: mode changes only.
LEMMA ModeChanges ==
    ASSUME MemInv, SameHeap, UNCHANGED <<stack, ret, log>>,
           \/ Element \/ Malformed \/ Finish
    PROVE  MemInv'
<1> USE SamePointers
<1>1. mode \in {"loop", "value"} /\ mode' \in {"value", "failing", "done"}
  BY DEF Element, Malformed, Finish, Halts
<1>2. mode' = "value" => Top.fun = "array" /\ Room(Top.obj)
  BY DEF Element, Malformed, Finish, Halts
<1>3. mode' = "done" => Top.fun = "keyval"
  BY DEF Element, Malformed, Finish, Halts
<1>4. ret = NULL /\ log = <<>>
  BY <1>1 DEF MemInv, Returned, Released
<1>5. Typed'
  BY <1>1 DEF MemInv, Typed, SameHeap, Modes, Allocated
<1>6. Pointers' /\ Unshared'
  BY DEF MemInv
<1>7. Calls'
  <2>1. mode' = "done" => Len(stack) = 1
    BY <1>3, TopIs DEF MemInv, Calls
  <2>2. mode' = "value" => Top = stack[Len(stack)] /\ Top.fun = "array" /\ Room(Top.obj)
    BY <1>2, TopIs DEF MemInv
  <2>3. ASSUME NEW n \in 1 .. Len(stack)
        PROVE  /\ mode' = "value" /\ ~(n < Len(stack)) =>
                     stack[n].fun = "array" /\ Room(stack[n].obj)
               /\ mode' # "return"
    <3>1. ~(n < Len(stack)) => n = Len(stack)
      OBVIOUS
    <3> QED
      BY <1>1, <2>2, <3>1
  <2> QED
    BY <1>1, <2>1, <2>3 DEF MemInv, Calls, SameHeap
<1>8. Waiting' /\ Returned'
  BY <1>1, <1>4 DEF MemInv, Waiting, Returned, SameHeap
<1>9. Released'
  <2>1. Range(log) = {}
    BY <1>4 DEF Range
  <2> QED
    BY <1>1, <1>4, <2>1 DEF MemInv, Released, Frees
<1>10. Owned'
  BY <1>1 DEF MemInv, Owned, Kept, SameHeap, Frees
<1> QED
  BY <1>5, <1>6, <1>7, <1>8, <1>9, <1>10 DEF MemInv

LEMMA CallsLeft ==
    ASSUME MemInv, SameHeap, Pop, Top.fun # "keyval",
           mode' \in {"return", "failing", "undefined"}
    PROVE  Calls' /\ Waiting' /\ stack' \in Seq(Calling)
<1> USE SamePointers
<1>1. /\ stack' \in Seq(Calling) /\ Len(stack') = Len(stack) - 1
      /\ \A n \in 1 .. Len(stack') : n \in 1 .. Len(stack) /\ n < Len(stack)
                                     /\ stack'[n] = stack[n]
  BY Popped DEF MemInv
<1>2. Len(stack') \in Nat \ {0}
  BY <1>1, TopNotFirst DEF MemInv
<1>3. stack' # <<>> /\ 1 \in 1 .. Len(stack')
  BY <1>1, <1>2
<1>4. Calls'
  <2>1. stack'[1].obj = Root
    BY <1>1, <1>3 DEF MemInv, Calls
  <2>2. ASSUME NEW n \in 1 .. Len(stack')
        PROVE  /\ stack'[n].fun = "keyval" <=> n = 1
               /\ stack'[n].obj \in Allocated /\ Loose(stack'[n].obj)
               /\ stack'[n].fun = "array"  => /\ objects[stack'[n].obj].is = "value"
                                              /\ objects[stack'[n].obj].type = "array"
                                              /\ stack'[n].key = NULL
                                              /\ Room(stack'[n].obj)
               /\ stack'[n].fun # "array"  => /\ objects[stack'[n].obj].is = "key"
                                              /\ objects[stack'[n].obj].value = NULL
                                              /\ stack'[n].key # NULL
    BY <1>1 DEF MemInv, Calls
  <2>3. \A m, n \in 1 .. Len(stack') : m < n => stack'[m].obj < stack'[n].obj
    BY <1>1 DEF MemInv, Calls
  <2>4. mode' \notin {"done", "failed", "freed"}
    OBVIOUS
  <2> QED
    BY <1>3, <2>1, <2>2, <2>3, <2>4 DEF Calls, SameHeap
<1>5. Waiting'
  BY <1>1 DEF MemInv, Waiting, SameHeap
<1> QED
  BY <1>1, <1>4, <1>5

\* parse_array and, at a line end, parse_inlinetable return.
LEMMA CloseArrayStays == ASSUME MemInv, CloseArray PROVE MemInv'
<1> USE SamePointers
<1>1. /\ SameHeap /\ log' = log /\ mode = "loop" /\ mode' = "return" /\ ret' = Top.obj
      /\ Top.fun = "array" /\ Pop
  BY DEF CloseArray, SameHeap
<1>2. /\ Len(stack) \in 1 .. Len(stack) /\ Top = stack[Len(stack)] /\ Top.obj \in Allocated
      /\ objects[Top.obj].is = "value" /\ Loose(Top.obj) /\ Top.obj # NULL
  BY <1>1, TopIs DEF MemInv, Calls, Allocated, NULL
<1>3. Calls' /\ Waiting' /\ stack' \in Seq(Calling)
  BY <1>1, CallsLeft
<1>4. /\ Len(stack') = Len(stack) - 1
      /\ \A n \in 1 .. Len(stack') : n \in 1 .. Len(stack) /\ n < Len(stack)
                                     /\ stack'[n] = stack[n]
  BY <1>1, Popped DEF MemInv
<1>5. log = <<>> /\ ret = NULL /\ Range(log) = {}
  BY <1>1 DEF MemInv, Released, Returned, Range
<1>6. Typed'
  BY <1>1, <1>2, <1>3 DEF MemInv, Typed, SameHeap, Modes, Allocated
<1>7. Pointers' /\ Unshared'
  BY <1>1 DEF MemInv
<1>8. Returned'
  BY <1>1, <1>2, <1>4 DEF MemInv, Returned, Calls, Waiting, SameHeap
<1>9. Released'
  BY <1>1, <1>5 DEF MemInv, Released, Frees
<1>10. Owned'
  <2>1. ASSUME NEW v \in Values PROVE Kept(v)'
    <3>1. Kept(v)
      BY <1>1, <2>1 DEF MemInv, Owned
    <3>2. ASSUME NEW n \in 1 .. Len(stack), stack[n].obj = v
          PROVE  v = ret' \/ \E m \in 1 .. Len(stack') : stack'[m].obj = v
      <4>1. CASE n = Len(stack)
        BY <1>1, <1>2, <3>2, <4>1
      <4>2. CASE n # Len(stack)
        <5>1. n \in 1 .. Len(stack')
          BY <1>2, <1>4, <4>2
        <5> QED
          BY <1>4, <3>2, <5>1
      <4> QED
        BY <4>1, <4>2
    <3>3. v # ret
      BY <1>5 DEF Values, NULL
    <3> QED
      BY <1>1, <3>1, <3>2, <3>3 DEF Kept, Frees
  <2> QED
    BY <1>1, <2>1 DEF Owned
<1> QED
  BY <1>3, <1>6, <1>7, <1>8, <1>9, <1>10 DEF MemInv

(***************************************************************************)
(* Freeing the objects D, which belong to nobody but each other: o, that   *)
(* the innermost call fills, with all it owns.                             *)
(***************************************************************************)
Freeable(s, t) ==
    /\ s \in Seq(Allocated) /\ Once(s) /\ t \in Range(s) /\ Range(s) \cap Frees = {}
    /\ \A p \in Ids : \A o \in Range(s) : /\ \A i \in Indices : Elem(p, i, o) => p \in Range(s)
                                          /\ DataOf(p, o) => p \in Range(s)
                                          /\ ~ValueOf(p, o) /\ ~SubOf(p, o)
    /\ \A p \in Range(s) : \A o \in Ids : \A i \in Indices : Elem(p, i, o) => o \in Range(s)
    /\ \A o \in Ids \ {t} : Loose(o) => o \notin Range(s)
    /\ \A k \in Ids \ {t} : objects[k].is = "key" /\ (\A p \in Ids : ~DataOf(p, k))
                               => k \notin Range(s)

LEMMA ArrayFreeable ==
    ASSUME Typed, Pointers, Unshared, Released, NEW v \in Ids, objects[v].is = "value",
           Loose(v), v \notin Frees
    PROVE  Freeable(delete_value(v), v)
<1>1. PICK s : s = Deleted[v]
  OBVIOUS
<1>2. Gone(v)
  BY DeletedFacts
<1>3. /\ s \in Seq(v .. nobjects) /\ Once(s) /\ v \in Range(s)
      /\ \A p \in Range(s) : \A o \in Ids : Owner(p, o) => o \in Range(s)
      /\ \A o \in Range(s) : o = v \/ \E p \in Range(s) : Owner(p, o)
  BY <1>1, <1>2 DEF Gone
<1>4. Range(s) \subseteq v .. nobjects /\ Range(s) \subseteq Ids
  BY <1>1, <1>2, GoneRange
<1>5. s \in Seq(Allocated)
  <2>1. v .. nobjects \subseteq Allocated
    BY DEF Allocated, Ids, Typed
  <2> QED
    BY <1>3, <2>1, SeqGrows
<1>6. \A p \in Ids : Owner(p, v) => FALSE
  BY DEF Loose, Owner
<1>7. Range(s) \cap Frees = {}
  <2> DEFINE T == Range(s) \cap Frees
  <2> SUFFICES ASSUME T # {} PROVE FALSE
    OBVIOUS
  <2>1. T \subseteq Nat
    BY <1>4 DEF Ids
  <2>2. PICK x \in T : \A y \in T : x <= y
    <3> HIDE DEF T
    <3>1. [y \in T |-> y] \in [T -> Nat]
      BY <2>1
    <3>2. PICK x \in T : \A y \in T : [z \in T |-> z][x] <= [z \in T |-> z][y]
      BY <3>1, LeastRank
    <3> QED
      BY <3>2
  <2>3. PICK p \in Range(s) : Owner(p, x)
    BY <1>3
  <2>4. p \in Frees
    BY <1>4, <2>3 DEF Released, Owner
  <2>5. p < x /\ p \in Nat /\ x \in Nat
    BY <1>4, <2>3, OwnerFacts DEF Ids
  <2>6. x <= p
    BY <2>2, <2>3, <2>4
  <2> QED
    BY <2>5, <2>6
<1>8. ASSUME NEW p \in Ids, NEW o \in Range(s)
      PROVE  /\ \A i \in Indices : Elem(p, i, o) => p \in Range(s)
             /\ DataOf(p, o) => p \in Range(s)
             /\ ~ValueOf(p, o) /\ ~SubOf(p, o)
  <2>1. CASE o = v
    BY <2>1 DEF Loose
  <2>2. CASE o # v
    <3>1. PICK q \in Range(s) : Owner(q, o)
      BY <1>3, <2>2
    <3>2. q \in Ids /\ o \in Ids
      BY <1>4
    <3>3. Owner(p, o) => p \in Range(s)
      BY <3>1, <3>2, OwnerFacts
    <3>4. ~ValueOf(p, o) /\ ~SubOf(p, o)
      <4>1. CASE \E i \in Indices : Elem(q, i, o)
        BY <3>2, <4>1 DEF Pointers, Targets, Unshared
      <4>2. CASE DataOf(q, o)
        <5>1. ~SubOf(p, o)
          BY <3>2, <4>2 DEF Unshared
        <5>2. ~ValueOf(p, o)
          BY <3>2, <4>2 DEF Pointers, Targets
        <5> QED
          BY <5>1, <5>2
      <4> QED
        BY <3>1, <4>1, <4>2 DEF Owner
    <3> QED
      BY <3>3, <3>4 DEF Owner
  <2> QED
    BY <2>1, <2>2
<1>9. \A p \in Range(s) : \A o \in Ids : \A i \in Indices : Elem(p, i, o) => o \in Range(s)
  BY <1>3 DEF Owner
<1>10. ASSUME NEW o \in Ids \ {v}, o \in Range(s)
       PROVE  ~Loose(o) /\ ~(objects[o].is = "key" /\ \A p \in Ids : ~DataOf(p, o))
  <2>1. PICK q \in Range(s) : Owner(q, o)
    BY <1>3, <1>10
  <2>2. q \in Ids
    BY <1>4
  <2>3. ~Loose(o)
    BY <2>1, <2>2 DEF Loose, Owner
  <2>4. (\E i \in Indices : Elem(q, i, o)) => objects[o].is # "key"
    BY <2>2 DEF Pointers, Targets
  <2> QED
    BY <2>1, <2>2, <2>3, <2>4 DEF Owner
<1> QED
  BY <1>1, <1>3, <1>5, <1>7, <1>8, <1>9, <1>10 DEF Freeable, delete_value

\* delete_key of a container, or of the root: it has no value.
LEMMA KeyFreeable ==
    ASSUME Typed, Pointers, NEW k \in Allocated, objects[k].is = "key",
           objects[k].value = NULL, Loose(k), k \notin Frees
    PROVE  delete_key(k) = <<k>> /\ Freeable(<<k>>, k)
<1>1. delete_key(k) = <<k>>
  BY DEF delete_key
<1>2. PICK s : s = <<k>>
  OBVIOUS
<1>3. s \in Seq(Allocated) /\ Once(s) /\ Range(s) = {k} /\ k \in Ids
  BY <1>2 DEF Once, Range, Allocated, Ids, Typed
<1>4. \A o \in Ids : \A i \in Indices : ~Elem(k, i, o)
  BY DEF Elem
<1> QED
  BY <1>1, <1>2, <1>3, <1>4 DEF Freeable, Loose

LEMMA FreeingReleases ==
    ASSUME Typed, Released, SameHeap, NEW s, NEW t, Freeable(s, t), log' = log \o s
    PROVE  /\ log' \in Seq(Allocated) /\ Once(log') /\ Frees' = Frees \cup Range(s)
           /\ \A p \in Ids : \A o \in Frees' : /\ \A i \in Indices : Elem(p, i, o)' => p \in Frees'
                                               /\ DataOf(p, o)' => p \in Frees'
                                               /\ ~ValueOf(p, o)' /\ ~SubOf(p, o)'
           /\ \A p \in Frees' : \A o \in Ids : \A i \in Indices : Elem(p, i, o)' => o \in Frees'
<1>1. log \in Seq(Allocated) /\ Once(log) /\ s \in Seq(Allocated) /\ Once(s)
      /\ Range(log) \cap Range(s) = {}
  BY DEF Typed, Released, Freeable, Frees
<1>2. PICK l : l = log \o s
  OBVIOUS
<1>3. l \in Seq(Allocated) /\ Once(l) /\ Range(l) = Range(log) \cup Range(s)
  BY <1>1, <1>2, JoinedOnce
<1>4. Frees' = Frees \cup Range(s)
  BY <1>2, <1>3 DEF Frees
<1>5. ASSUME NEW p \in Ids, NEW o \in Frees'
      PROVE  /\ \A i \in Indices : Elem(p, i, o)' => p \in Frees'
             /\ DataOf(p, o)' => p \in Frees'
             /\ ~ValueOf(p, o)' /\ ~SubOf(p, o)'
  <2>1. o \in Frees \/ o \in Range(s)
    BY <1>4
  <2> QED
    BY <1>4, <2>1, SamePointers DEF Released, Freeable
<1>6. ASSUME NEW p \in Frees', NEW o \in Ids, NEW i \in Indices, Elem(p, i, o)'
      PROVE  o \in Frees'
  <2>1. p \in Frees \/ p \in Range(s)
    BY <1>4
  <2>2. Elem(p, i, o)
    BY <1>6, SamePointers
  <2> QED
    BY <1>4, <2>1, <2>2 DEF Released, Freeable
<1> QED
  BY <1>2, <1>3, <1>4, <1>5, <1>6

\* A call has failed, and the object it has filled goes, or is forgotten.
LEMMA CallFails ==
    ASSUME MemInv, SameHeap, Pop, Top.fun # "keyval", mode' = "failing", ret' = ret,
           mode \in {"loop", "failing"},
           NEW s, \/ s = <<>> /\ objects[Top.obj].is = "key"
                  \/ Freeable(s, Top.obj),
           log' = log \o s
    PROVE  MemInv'
<1> USE SamePointers
<1>1. Calls' /\ Waiting' /\ stack' \in Seq(Calling)
  BY CallsLeft
<1>2. /\ Len(stack') = Len(stack) - 1
      /\ \A n \in 1 .. Len(stack') : n \in 1 .. Len(stack) /\ n < Len(stack)
                                     /\ stack'[n] = stack[n]
  BY Popped DEF MemInv
<1>3. Len(stack) \in 1 .. Len(stack) /\ Top = stack[Len(stack)]
  BY TopIs DEF MemInv
<1>4. ret = NULL
  BY DEF MemInv, Returned
<1>5. \A n \in 1 .. Len(stack') : /\ stack'[n].obj \in Ids /\ stack'[n].key \in 0 .. MaxObjects
                                  /\ stack'[n].obj # Top.obj /\ stack'[n].key # Top.obj
                                  /\ Loose(stack'[n].obj)
                                  /\ stack'[n].obj \notin Frees /\ stack'[n].key \notin Frees
                                  /\ stack'[n].key # NULL =>
                                        /\ objects[stack'[n].key].is = "key"
                                        /\ \A p \in Ids : ~DataOf(p, stack'[n].key)
  <2>1. ASSUME NEW n \in 1 .. Len(stack') PROVE stack[n].obj < Top.obj /\ stack[n].key < Top.obj
    BY <1>2, <1>3 DEF MemInv, Calls, Waiting
  <2>2. ASSUME NEW n \in 1 .. Len(stack) PROVE stack[n].obj \notin Frees /\ stack[n].key \notin Frees
    BY DEF MemInv, Released, Frees, Range
  <2>3. \A n \in 1 .. Len(stack) : stack[n].obj \in Ids /\ stack[n].key \in 0 .. MaxObjects
    BY TopIs DEF MemInv
  <2>4. Top.obj \in Ids
    BY TopIs DEF MemInv
  <2> QED
    BY <1>2, <2>1, <2>2, <2>3, <2>4 DEF MemInv, Calls, Waiting, Ids
<1>6. /\ log' \in Seq(Allocated) /\ Once(log')
      /\ Frees \subseteq Frees' /\ (s # <<>> => Top.obj \in Frees')
      /\ \A p \in Ids : \A o \in Frees' : /\ \A i \in Indices : Elem(p, i, o)' => p \in Frees'
                                          /\ DataOf(p, o)' => p \in Frees'
                                          /\ ~ValueOf(p, o)' /\ ~SubOf(p, o)'
      /\ \A p \in Frees' : \A o \in Ids : \A i \in Indices : Elem(p, i, o)' => o \in Frees'
      /\ \A n \in 1 .. Len(stack') : stack'[n].obj \notin Frees' /\ stack'[n].key \notin Frees'
  <2>1. CASE s = <<>>
    <3>1. log' = log /\ Frees' = Frees
      BY <2>1 DEF MemInv, Typed, Frees
    <3> QED
      BY <1>5, <2>1, <3>1 DEF MemInv, Typed, Released
  <2>2. CASE Freeable(s, Top.obj)
    <3>1. /\ log' \in Seq(Allocated) /\ Once(log') /\ Frees' = Frees \cup Range(s)
          /\ \A p \in Ids : \A o \in Frees' : /\ \A i \in Indices : Elem(p, i, o)' => p \in Frees'
                                              /\ DataOf(p, o)' => p \in Frees'
                                              /\ ~ValueOf(p, o)' /\ ~SubOf(p, o)'
          /\ \A p \in Frees' : \A o \in Ids : \A i \in Indices : Elem(p, i, o)' => o \in Frees'
      <4>1. PICK t : t = Top.obj
        OBVIOUS
      <4> QED
        BY <2>2, <4>1, FreeingReleases DEF MemInv
    <3>2. Top.obj \in Range(s) /\ Range(s) \subseteq Allocated
      BY <2>2, RangeIs DEF Freeable
    <3>3. ASSUME NEW n \in 1 .. Len(stack')
          PROVE  stack'[n].obj \notin Range(s) /\ stack'[n].key \notin Range(s)
      <4>1. stack'[n].key = NULL => stack'[n].key \notin Range(s)
        BY <3>2 DEF Allocated, NULL
      <4>2. stack'[n].key # NULL => stack'[n].key \in Ids
        BY <1>5 DEF Ids, NULL
      <4> QED
        BY <1>5, <2>2, <4>1, <4>2 DEF Freeable
    <3> QED
      BY <1>5, <3>1, <3>2, <3>3
  <2> QED
    BY <2>1, <2>2
<1>7. Typed'
  BY <1>1, <1>6 DEF MemInv, Typed, SameHeap, Modes, Allocated
<1>8. Pointers' /\ Unshared'
  BY DEF MemInv
<1>9. Returned'
  BY <1>4 DEF Returned
<1>10. Released'
  BY <1>6 DEF Released
<1>11. Owned'
  <2>1. ASSUME NEW v \in Values PROVE Kept(v)'
    <3>1. Kept(v)
      BY <2>1 DEF MemInv, Owned
    <3>2. ASSUME NEW n \in 1 .. Len(stack), stack[n].obj = v
          PROVE  v \in Frees' \/ \E m \in 1 .. Len(stack') : stack'[m].obj = v
      <4>1. CASE n = Len(stack)
        <5>1. objects[Top.obj].is = "value"
          BY <1>3, <2>1, <3>2, <4>1 DEF Values
        <5>2. Top.obj \in Range(s)
          BY <5>1 DEF Freeable
        <5>3. s # <<>>
          BY <5>2 DEF Range
        <5> QED
          BY <1>3, <1>6, <3>2, <4>1, <5>3
      <4>2. CASE n # Len(stack)
        <5>1. n \in 1 .. Len(stack')
          BY <1>2, <1>3, <4>2
        <5> QED
          BY <1>2, <3>2, <5>1
      <4> QED
        BY <4>1, <4>2
    <3> QED
      BY <1>6, <3>1, <3>2 DEF Kept
  <2> QED
    BY <2>1 DEF Owned
<1> QED
  BY <1>1, <1>7, <1>8, <1>9, <1>10, <1>11 DEF MemInv

LEMMA LeftOpenStays == ASSUME MemInv, LeftOpen PROVE MemInv'
<1>1. /\ SameHeap /\ Pop /\ mode = "loop" /\ mode' = "failing" /\ ret' = ret
      /\ Top.fun = "inline" /\ log' = log \o <<>>
  BY DEF LeftOpen, Halts, SameHeap
<1>2. objects[Top.obj].is = "key"
  BY <1>1, TopIs DEF MemInv, Calls
<1>3. PICK s : s = <<>>
  OBVIOUS
<1> QED
  BY <1>1, <1>2, <1>3, CallFails

\* The root goes: parse_keyval has failed, or toml_free is called.
LEMMA RootFreed ==
    ASSUME MemInv, SameHeap, UNCHANGED <<stack, ret>>, Top.fun = "keyval",
           \/ mode = "failing" /\ mode' = "failed"
           \/ mode = "done" /\ mode' = "freed",
           log' = log \o delete_key(Root)
    PROVE  MemInv'
<1> USE SamePointers
<1>1. Len(stack) = 1 /\ Top = stack[1] /\ Top.obj = Root /\ 1 \in 1 .. Len(stack)
  BY TopIs DEF MemInv, Calls
<1>2. Root \in Allocated /\ objects[Root].is = "key" /\ objects[Root].value = NULL /\ Loose(Root)
  BY <1>1 DEF MemInv, Calls
<1>3. Root \notin Frees
  BY <1>1 DEF MemInv, Released, Frees, Range
<1>4. PICK s : s = delete_key(Root)
  OBVIOUS
<1>5. Freeable(s, Root)
  BY <1>2, <1>3, <1>4, KeyFreeable DEF MemInv
<1>6. PICK r : r = Root
  OBVIOUS
<1>7. /\ log' \in Seq(Allocated) /\ Once(log') /\ Frees' = Frees \cup Range(s)
      /\ \A p \in Ids : \A o \in Frees' : /\ \A i \in Indices : Elem(p, i, o)' => p \in Frees'
                                          /\ DataOf(p, o)' => p \in Frees'
                                          /\ ~ValueOf(p, o)' /\ ~SubOf(p, o)'
      /\ \A p \in Frees' : \A o \in Ids : \A i \in Indices : Elem(p, i, o)' => o \in Frees'
  BY <1>4, <1>5, <1>6, FreeingReleases DEF MemInv
<1>8. mode' \in Modes \ {"loop", "value", "return", "failing", "done", "undefined"}
  BY DEF Modes
<1>9. ret = NULL
  BY DEF MemInv, Returned
<1>10. Typed'
  BY <1>7, <1>8 DEF MemInv, Typed, SameHeap, Allocated
<1>11. Pointers' /\ Unshared'
  BY DEF MemInv
<1>12. Calls'
  BY <1>1, <1>8 DEF MemInv, Calls, SameHeap
<1>13. Waiting' /\ Returned'
  BY <1>8, <1>9 DEF MemInv, Waiting, Returned, SameHeap
<1>14. Released'
  BY <1>7, <1>8 DEF Released
<1>15. Owned'
  <2>1. Frees \subseteq Frees'
    BY <1>7
  <2> QED
    BY <2>1 DEF MemInv, Owned, Kept
<1> QED
  BY <1>10, <1>11, <1>12, <1>13, <1>14, <1>15 DEF MemInv

LEMMA UndefinedStays ==
    ASSUME MemInv, SameHeap, Pop, Top.fun # "keyval", mode = "failing", mode' = "undefined",
           UNCHANGED <<ret, log>>
    PROVE  MemInv'
<1> USE SamePointers
<1>1. Calls' /\ Waiting' /\ stack' \in Seq(Calling)
  BY CallsLeft
<1>2. Typed'
  BY <1>1 DEF MemInv, Typed, SameHeap, Modes, Allocated
<1>3. Pointers' /\ Unshared'
  BY DEF MemInv
<1>4. Returned'
  BY DEF MemInv, Returned
<1>5. Released'
  BY DEF MemInv, Released, Frees
<1>6. Owned'
  BY DEF Owned
<1> QED
  BY <1>1, <1>2, <1>3, <1>4, <1>5, <1>6 DEF MemInv

LEMMA UnwindStays == ASSUME MemInv, Unwind PROVE MemInv'
<1>1. mode = "failing" /\ Len(stack) \in 1 .. Len(stack) /\ Top = stack[Len(stack)]
  BY TopIs DEF MemInv, Unwind
<1>2. Top.obj \in Allocated /\ Loose(Top.obj) /\ Top.obj \notin Frees /\ Top.obj \in Ids
  BY <1>1, TopIs DEF MemInv, Calls, Released
<1>3. CASE Top.fun = "array" /\ Pop /\ Halts("failing", delete_value(Top.obj))
  <2>1. PICK s : s = delete_value(Top.obj)
    OBVIOUS
  <2>2. objects[Top.obj].is = "value"
    BY <1>1, <1>3 DEF MemInv, Calls
  <2>3. Freeable(s, Top.obj)
    BY <1>2, <2>1, <2>2, ArrayFreeable DEF MemInv
  <2>4. SameHeap /\ mode' = "failing" /\ ret' = ret /\ log' = log \o s
    BY <1>3, <2>1 DEF Halts, SameHeap
  <2> QED
    BY <1>1, <1>3, <2>3, <2>4, CallFails
<1>4. CASE Top.fun = "inline" /\ Pop /\ Halts("failing", delete_key(Top.obj))
  <2>1. PICK s : s = delete_key(Top.obj)
    OBVIOUS
  <2>2. objects[Top.obj].is = "key" /\ objects[Top.obj].value = NULL
    BY <1>1, <1>4 DEF MemInv, Calls
  <2>3. Freeable(s, Top.obj)
    BY <1>2, <2>1, <2>2, KeyFreeable DEF MemInv
  <2>4. SameHeap /\ mode' = "failing" /\ ret' = ret /\ log' = log \o s
    BY <1>4, <2>1 DEF Halts, SameHeap
  <2> QED
    BY <1>1, <1>4, <2>3, <2>4, CallFails
<1>5. CASE Top.fun = "array" /\ Pop /\ Halts("undefined", <<>>)
  <2>1. SameHeap /\ mode' = "undefined" /\ ret' = ret
    BY <1>5 DEF Halts, SameHeap
  <2>2. log' = log
    BY <1>5 DEF Halts, MemInv, Typed
  <2> QED
    BY <1>1, <1>5, <2>1, <2>2, UndefinedStays
<1>6. CASE Top.fun = "keyval" /\ UNCHANGED stack /\ Halts("failed", delete_key(Root))
  <2>1. SameHeap /\ mode' = "failed" /\ ret' = ret /\ log' = log \o delete_key(Root)
    BY <1>6 DEF Halts, SameHeap
  <2> QED
    BY <1>1, <1>6, <2>1, RootFreed
<1> QED
  BY <1>3, <1>4, <1>5, <1>6 DEF Unwind

LEMMA TomlFreeStays == ASSUME MemInv, toml_free PROVE MemInv'
<1>1. Top.fun = "keyval"
  BY TopIs DEF MemInv, Calls, toml_free
<1>2. /\ SameHeap /\ mode = "done" /\ mode' = "freed" /\ UNCHANGED <<stack, ret>>
      /\ log' = log \o delete_key(Root)
  BY DEF toml_free, Halts, SameHeap
<1> QED
  BY <1>1, <1>2, RootFreed

-----------------------------------------------------------------------------
(***************************************************************************)
(* Steps that change the heap: a comes to own c (as its b-th element, its  *)
(* value or its pseudo key, if kind says so), and k gets the subkeys new.  *)
(***************************************************************************)
PointersGrow(kind, a, b, c, k, more) ==
    /\ \A p, o \in Ids : \A i \in Indices :
          Elem(p, i, o)' <=> Elem(p, i, o) \/ (kind = "elem" /\ p = a /\ i = b /\ o = c)
    /\ \A p, o \in Ids :
          /\ DataOf(p, o)' <=> DataOf(p, o) \/ (kind = "data" /\ p = a /\ o = c)
          /\ ValueOf(p, o)' <=> ValueOf(p, o) \/ (kind = "value" /\ p = a /\ o = c)
          /\ SubOf(p, o)' <=> SubOf(p, o) \/ (p = k /\ o \in more)

ObjectsStay(kind, a) ==
    /\ nobjects \in Ids /\ nobjects' \in Ids /\ nobjects <= nobjects'
    /\ \A o \in Allocated :
          /\ objects'[o].is = objects[o].is
          /\ objects[o].is = "value" => objects'[o].type = objects[o].type
          /\ objects[o].is = "value" /\ ~(kind = "elem" /\ o = a)
                => objects'[o].len = objects[o].len
          /\ objects[o].is = "key" /\ objects[o].value = NULL /\ ~(kind = "value" /\ o = a)
                => objects'[o].value = NULL

Sound(kind, a, b, c, more) ==
    /\ kind \in {"none", "elem", "value", "data"}
    /\ kind # "none" => /\ a \in Ids /\ c \in Ids /\ Loose(c) /\ c \notin more
                        /\ a < c /\ c <= nobjects'
    /\ kind = "elem" => objects'[c].is = "value"
    /\ kind = "value" => /\ objects'[c].is = "value" /\ objects'[c].type # "inline"
                         /\ \A p \in Ids : ~DataOf(p, a)
                         /\ \A o \in Ids : ~ValueOf(a, o)
    /\ kind = "data" => c = a + 1 /\ objects'[c].is = "key" /\ objects'[c].value = NULL
    /\ \A o \in more : /\ o \in Ids /\ o <= nobjects' /\ objects'[o].is = "key"
                       /\ Loose(o) \/ \E p \in Ids : SubOf(p, o)

LEMMA TargetsStay ==
    ASSUME Pointers, NEW kind, NEW a, NEW b, NEW c, NEW k, NEW more,
           PointersGrow(kind, a, b, c, k, more), ObjectsStay(kind, a),
           Sound(kind, a, b, c, more)
    PROVE  Targets'
<1>1. \A o \in Ids : o <= nobjects => o \in Allocated /\ o <= nobjects'
  BY DEF ObjectsStay, Allocated, Ids
<1>2. ASSUME NEW v \in Ids, NEW o \in Ids, NEW i \in Indices, Elem(v, i, o)'
      PROVE  v < o /\ o <= nobjects' /\ objects'[o].is = "value"
  <2>1. CASE Elem(v, i, o)
    BY <1>1, <2>1 DEF Pointers, Targets, ObjectsStay
  <2>2. CASE kind = "elem" /\ v = a /\ i = b /\ o = c
    BY <2>2 DEF Sound
  <2> QED
    BY <1>2, <2>1, <2>2 DEF PointersGrow
<1>3. ASSUME NEW v \in Ids, NEW o \in Ids, DataOf(v, o)'
      PROVE  o = v + 1 /\ o <= nobjects' /\ objects'[o].is = "key" /\ objects'[o].value = NULL
  <2>1. CASE DataOf(v, o)
    BY <1>1, <2>1 DEF Pointers, Targets, ObjectsStay, Sound
  <2>2. CASE kind = "data" /\ v = a /\ o = c
    BY <2>2 DEF Sound
  <2> QED
    BY <1>3, <2>1, <2>2 DEF PointersGrow
<1>4. ASSUME NEW v \in Ids, NEW o \in Ids, ValueOf(v, o)'
      PROVE  v < o /\ o <= nobjects' /\ objects'[o].is = "value" /\ objects'[o].type # "inline"
  <2>1. CASE ValueOf(v, o)
    BY <1>1, <2>1 DEF Pointers, Targets, ObjectsStay
  <2>2. CASE kind = "value" /\ v = a /\ o = c
    BY <2>2 DEF Sound
  <2> QED
    BY <1>4, <2>1, <2>2 DEF PointersGrow
<1>5. ASSUME NEW v \in Ids, NEW o \in Ids, SubOf(v, o)'
      PROVE  o <= nobjects' /\ objects'[o].is = "key"
  <2>1. CASE SubOf(v, o)
    BY <1>1, <2>1 DEF Pointers, Targets, ObjectsStay
  <2>2. CASE o \in more
    BY <2>2 DEF Sound
  <2> QED
    BY <1>5, <2>1, <2>2 DEF PointersGrow
<1> QED
  BY <1>2, <1>3, <1>4, <1>5 DEF Targets

LEMMA UnsharedStays ==
    ASSUME Unshared, NEW kind, NEW a, NEW b, NEW c, NEW k, NEW more,
           PointersGrow(kind, a, b, c, k, more), Sound(kind, a, b, c, more)
    PROVE  Unshared'
<1>1. kind # "none" => Loose(c) /\ c \notin more
  BY DEF Sound
<1>2. ASSUME NEW v \in Ids, NEW w \in Ids, NEW o \in Ids, NEW i \in Indices, NEW j \in Indices,
             Elem(v, i, o)', Elem(w, j, o)'
      PROVE  v = w /\ i = j
  BY <1>1, <1>2 DEF Unshared, PointersGrow, Loose
<1>3. ASSUME NEW v \in Ids, NEW p \in Ids, NEW o \in Ids, NEW i \in Indices
      PROVE  ~(Elem(v, i, o)' /\ ValueOf(p, o)')
  BY <1>1 DEF Unshared, PointersGrow, Loose
<1>4. ASSUME NEW j \in Ids, NEW p \in Ids, NEW o \in Ids, ValueOf(j, o)', ValueOf(p, o)'
      PROVE  j = p
  BY <1>1, <1>4 DEF Unshared, PointersGrow, Loose
<1>5. ASSUME NEW v \in Ids, NEW p \in Ids, NEW o \in Ids PROVE ~(DataOf(v, o)' /\ SubOf(p, o)')
  <2>1. CASE kind = "data" /\ v = a /\ o = c
    BY <1>1, <2>1 DEF PointersGrow, Loose
  <2>2. CASE ~(kind = "data" /\ v = a /\ o = c)
    <3>1. o \in more => Loose(o) \/ \E q \in Ids : SubOf(q, o)
      BY DEF Sound
    <3> QED
      BY <2>2, <3>1 DEF Unshared, PointersGrow, Loose
  <2> QED
    BY <2>1, <2>2
<1> QED
  BY <1>2, <1>3, <1>4, <1>5 DEF Unshared

LEMMA LooseStays ==
    ASSUME NEW kind, NEW a, NEW b, NEW c, NEW k, NEW more,
           PointersGrow(kind, a, b, c, k, more), NEW o \in Ids, Loose(o),
           kind # "none" => o # c, o \notin more
    PROVE  Loose(o)'
<1>1. \A p \in Ids : /\ \A i \in Indices : ~Elem(p, i, o)'
                     /\ ~DataOf(p, o)' /\ ~ValueOf(p, o)' /\ ~SubOf(p, o)'
  BY DEF Loose, PointersGrow
<1> QED
  BY <1>1 DEF Loose

LEMMA NewLoose ==
    ASSUME Pointers, NEW o \in Ids, o > nobjects, nobjects \in Ids
    PROVE  Loose(o)
<1>1. ~(o <= nobjects)
  BY DEF Ids
<1> QED
  BY <1>1 DEF Pointers, Targets, Loose

\* What is true of a call and of its key remains true.
LEMMA CallStays ==
    ASSUME Typed, Calls, Waiting, NEW kind, NEW a, NEW b, NEW c, NEW k, NEW more,
           PointersGrow(kind, a, b, c, k, more), ObjectsStay(kind, a),
           NEW n \in 1 .. Len(stack), NEW call, call = stack[n],
           call.obj \notin more, kind # "none" => c # call.obj,
           kind = "data" => c # call.key, kind = "value" => a # call.obj
    PROVE  /\ call \in Calling /\ call.obj \in Allocated /\ call.obj \in Allocated'
           /\ Loose(call.obj)'
           /\ call.fun = "array" => /\ objects'[call.obj].is = "value"
                                    /\ objects'[call.obj].type = "array" /\ call.key = NULL
           /\ call.fun # "array" => objects'[call.obj].is = "key"
                                    /\ objects'[call.obj].value = NULL
           /\ call.fun = "array" /\ Room(call.obj) /\ ~(kind = "elem" /\ a = call.obj)
                 => Room(call.obj)'
           /\ call.key # NULL /\ ~(kind = "value" /\ a = call.key)
                 => /\ call.key \in Allocated /\ call.key \in Allocated'
                    /\ objects'[call.key].is = "key" /\ objects'[call.key].value = NULL
                    /\ \A p \in Ids : ~DataOf(p, call.key)'
<1>1. call \in Calling /\ call.obj \in Ids /\ call.obj \in Allocated /\ Loose(call.obj)
  BY TopIs DEF Calls
<1>2. Allocated \subseteq Allocated' /\ Allocated \subseteq Ids
  BY DEF ObjectsStay, Allocated, Ids
<1>3. PICK o \in Ids : o = call.obj
  BY <1>1
<1>4. Loose(o)'
  BY <1>1, <1>3, LooseStays
<1>5. call.fun = "array" => /\ objects'[o].is = "value" /\ objects'[o].type = "array"
                            /\ call.key = NULL /\ objects[o].is = "value"
  BY <1>1, <1>3 DEF Calls, ObjectsStay
<1>6. call.fun # "array" => objects'[o].is = "key" /\ objects'[o].value = NULL
  BY <1>1, <1>3 DEF Calls, ObjectsStay
<1>7. call.fun = "array" /\ Room(o) /\ ~(kind = "elem" /\ a = o) => Room(o)'
  BY <1>1, <1>3, <1>5 DEF ObjectsStay, Room
<1>8. ASSUME NEW x, x = call.key, x # NULL, ~(kind = "value" /\ a = x)
      PROVE  /\ x \in Allocated /\ objects'[x].is = "key" /\ objects'[x].value = NULL
             /\ \A p \in Ids : ~DataOf(p, x)'
  <2>1. x \in Allocated /\ objects[x].is = "key" /\ objects[x].value = NULL
        /\ \A p \in Ids : ~DataOf(p, x)
    BY <1>8 DEF Waiting
  <2>2. \A p \in Ids : ~DataOf(p, x)'
    BY <1>2, <1>8, <2>1 DEF PointersGrow
  <2> QED
    BY <1>8, <2>1, <2>2 DEF ObjectsStay
<1> QED
  BY <1>1, <1>2, <1>3, <1>4, <1>5, <1>6, <1>7, <1>8

LEMMA OwnedStays ==
    ASSUME MemInv, NEW kind, NEW a, NEW b, NEW c, NEW k, NEW more,
           PointersGrow(kind, a, b, c, k, more), ObjectsStay(kind, a),
           mode # "undefined", log' = log,
           \A o \in Ids : nobjects < o /\ o \in Values' => Kept(o)',
           \A o \in Values : o = ret => Kept(o)',
           \A n \in 1 .. Len(stack) : objects[stack[n].obj].is = "value" =>
              \E m \in 1 .. Len(stack') : stack'[m].obj = stack[n].obj
    PROVE  Owned'
<1>1. ASSUME NEW v \in Values' PROVE Kept(v)'
  <2>1. v \in Ids /\ nobjects \in Ids
    BY DEF Values, ObjectsStay, Ids
  <2>2. CASE nobjects < v
    BY <2>1, <2>2
  <2>3. CASE ~(nobjects < v)
    <3>1. v \in Allocated /\ v \in Values
      BY <2>1, <2>3 DEF Values, Allocated, ObjectsStay, Ids
    <3>2. Kept(v)
      BY <3>1 DEF MemInv, Owned
    <3>3. CASE v \in Frees
      BY <3>3 DEF Kept, Frees
    <3>4. CASE v = ret
      BY <3>1, <3>4
    <3>5. CASE \E p \in Ids : (\E i \in Indices : Elem(p, i, v)) \/ ValueOf(p, v)
      BY <2>1, <3>5 DEF Kept, PointersGrow
    <3>6. CASE \E n \in 1 .. Len(stack) : stack[n].obj = v
      BY <3>1, <3>6 DEF Kept, Values
    <3> QED
      BY <3>2, <3>3, <3>4, <3>5, <3>6 DEF Kept
  <2> QED
    BY <2>2, <2>3
<1> QED
  BY <1>1 DEF Owned

LEMMA NothingFreed ==
    ASSUME MemInv, mode \in {"loop", "value", "return"}, log' = log,
           mode' \in {"loop", "value", "return"}
    PROVE  Released' /\ log = <<>> /\ Frees = {}
<1>1. log = <<>>
  BY DEF MemInv, Released
<1>2. Range(log) = {}
  BY <1>1 DEF Range
<1>3. Once(log)
  BY DEF MemInv, Released
<1> QED
  BY <1>1, <1>2, <1>3 DEF Released, Frees

-----------------------------------------------------------------------------
(* Allocating an object without pointers. *)

Blank == {new_key, new_value("scalar"), new_value("array")}

LEMMA AllocEffect ==
    ASSUME Typed, Pointers, CanAlloc(1), NEW n, n = new, NEW x \in Blank,
           objects' = [objects EXCEPT ![n] = x], nobjects' = n
    PROVE  /\ n \in Ids /\ n = nobjects + 1 /\ objects'[n] = x /\ Loose(n) /\ Loose(n)'
           /\ objects' \in [Ids -> KeyType \cup ValueType] /\ Shapes'
           /\ PointersGrow("none", 1, 0, 1, 1, {}) /\ ObjectsStay("none", 1)
           /\ Sound("none", 1, 0, 1, {})
<1>1. n \in Ids /\ n = nobjects + 1 /\ nobjects \in Ids /\ n > nobjects
  BY DEF new, CanAlloc, Typed, Ids
<1>2. x \in KeyType \cup ValueType /\ x.is \in {"key", "value"}
  BY NewTyped DEF Blank
<1>3. objects' \in [Ids -> KeyType \cup ValueType] /\ objects'[n] = x
      /\ \A o \in Ids : o # n => objects'[o] = objects[o]
  BY <1>1, <1>2 DEF Typed
<1>4. objects[n] = new_key
  BY <1>1 DEF Pointers, Shapes
<1>5. /\ \A o : \A i \in Indices : ~Elem(n, i, o) /\ ~Elem(n, i, o)'
      /\ \A o : /\ ~DataOf(n, o) /\ ~ValueOf(n, o) /\ ~SubOf(n, o)
                /\ ~DataOf(n, o)' /\ ~ValueOf(n, o)' /\ ~SubOf(n, o)'
  <2>1. x = new_key \/ x = new_value("scalar") \/ x = new_value("array")
    BY DEF Blank
  <2> QED
    BY <1>3, <1>4, <2>1, NewTyped DEF Elem, DataOf, ValueOf, SubOf
<1>6. PointersGrow("none", 1, 0, 1, 1, {})
  <2>1. ASSUME NEW p \in Ids, NEW o \in Ids, p # n
        PROVE  /\ \A i \in Indices : Elem(p, i, o)' <=> Elem(p, i, o)
               /\ DataOf(p, o)' <=> DataOf(p, o)
               /\ ValueOf(p, o)' <=> ValueOf(p, o)
               /\ SubOf(p, o)' <=> SubOf(p, o)
    BY <1>3, <2>1 DEF Elem, DataOf, ValueOf, SubOf
  <2> QED
    BY <1>5, <2>1 DEF PointersGrow
<1>7. ObjectsStay("none", 1)
  <2>1. \A o \in Allocated : o \in Ids /\ o # n
    BY <1>1 DEF Allocated, Ids
  <2> QED
    BY <1>1, <1>3, <2>1 DEF ObjectsStay
<1>8. Sound("none", 1, 0, 1, {})
  BY DEF Sound
<1>9. Shapes'
  <2>1. \A o \in Ids : o > nobjects' => o # n /\ o > nobjects
    BY <1>1 DEF Ids
  <2>2. \A o \in Ids : o > nobjects' => objects'[o] = new_key
    BY <1>3, <2>1 DEF Pointers, Shapes
  <2>3. x.is = "value" => /\ \A i \in Indices : x.arr[i] = NULL /\ ~(i < x.len)
                          /\ x.data = NULL /\ x.type # "inline"
    <3>1. \A i \in Indices : ~(i < 0)
      BY DEF Indices
    <3> QED
      BY <3>1, NewTyped DEF Blank
  <2> QED
    BY <1>3, <2>2, <2>3 DEF Pointers, Shapes
<1>10. Loose(n)
  BY <1>1, NewLoose
<1>11. Loose(n)'
  BY <1>1, <1>6, <1>10, LooseStays
<1> QED
  BY <1>1, <1>3, <1>6, <1>7, <1>8, <1>9, <1>10, <1>11

LEMMA ScalarStays == ASSUME MemInv, Scalar PROVE MemInv'
<1>1. /\ Typed /\ Pointers /\ Unshared /\ Calls /\ Waiting /\ CanAlloc(1)
      /\ mode = "value" /\ mode' = "return" /\ stack' = stack /\ log' = log
  BY DEF MemInv, Scalar
<1>2. PICK n : n = new
  OBVIOUS
<1>3. PICK x \in Blank : x = new_value("scalar")
  BY DEF Blank
<1>4. objects' = [objects EXCEPT ![n] = x] /\ nobjects' = n /\ ret' = n
  BY <1>2, <1>3 DEF Scalar
<1>5. /\ n \in Ids /\ n = nobjects + 1 /\ objects'[n] = x /\ Loose(n)'
      /\ objects' \in [Ids -> KeyType \cup ValueType] /\ Shapes'
      /\ PointersGrow("none", 1, 0, 1, 1, {}) /\ ObjectsStay("none", 1)
      /\ Sound("none", 1, 0, 1, {})
  BY <1>1, <1>2, <1>4, AllocEffect
<1>6. ret = NULL /\ n # NULL /\ nobjects \in Ids
  BY <1>1, <1>5 DEF MemInv, Returned, Typed, Ids, NULL
<1>7. Released' /\ log = <<>> /\ Frees = {}
  BY <1>1, NothingFreed
<1>8. Typed'
  <2>1. stack' \in Seq(Calling) /\ log' \in Seq(Allocated') /\ mode' \in Modes
    BY <1>1, <1>7 DEF Typed, Modes
  <2>2. nobjects' \in Ids /\ ret' \in 0 .. nobjects'
    BY <1>4, <1>5 DEF Ids
  <2> QED
    BY <1>5, <2>1, <2>2 DEF Typed
<1>9. Pointers' /\ Unshared'
  BY <1>1, <1>5, TargetsStay, UnsharedStays DEF Pointers
<1>10. ASSUME NEW m \in 1 .. Len(stack), NEW call, call = stack[m]
       PROVE  /\ call.obj \in Allocated /\ call.obj \in Allocated'
              /\ Loose(call.obj)'
              /\ call.fun = "array" => /\ objects'[call.obj].is = "value"
                                       /\ objects'[call.obj].type = "array" /\ call.key = NULL
              /\ call.fun # "array" => objects'[call.obj].is = "key"
                                       /\ objects'[call.obj].value = NULL
              /\ call.fun = "array" /\ Room(call.obj) => Room(call.obj)'
              /\ call.key # NULL => /\ call.key \in Allocated /\ call.key \in Allocated'
                                    /\ objects'[call.key].is = "key"
                                    /\ objects'[call.key].value = NULL
                                    /\ \A p \in Ids : ~DataOf(p, call.key)'
  BY <1>1, <1>5, <1>10, CallStays
<1>11. Calls'
  BY <1>1, <1>10 DEF Calls
<1>12. Waiting'
  BY <1>1, <1>10 DEF Waiting
<1>13. Returned'
  <2>1. objects'[n].is = "value"
    BY <1>3, <1>5, NewTyped
  <2>2. ASSUME NEW m \in 1 .. Len(stack) PROVE stack[m].obj < n /\ stack[m].key < n
    <3>1. stack[m].obj \in Allocated /\ (stack[m].key = NULL \/ stack[m].key \in Allocated)
      BY <1>10
    <3> QED
      BY <1>5, <1>6, <3>1 DEF Allocated, NULL, Ids
  <2> QED
    BY <1>1, <1>4, <1>5, <1>6, <2>1, <2>2 DEF Returned
<1>14. Owned'
  <2>1. ASSUME NEW o \in Ids, nobjects < o, o \in Values' PROVE Kept(o)'
    <3>1. o = n
      BY <1>4, <1>5, <1>6, <2>1 DEF Values, Ids
    <3> QED
      BY <1>4, <3>1 DEF Kept
  <2>2. \A o \in Values : o # ret
    BY <1>6 DEF Values, NULL
  <2> QED
    BY <1>1, <1>5, <2>1, <2>2, OwnedStays
<1> QED
  BY <1>7, <1>8, <1>9, <1>11, <1>12, <1>13, <1>14 DEF MemInv

\* parse_array and parse_inlinetable begin.
LEMMA OpenStays == ASSUME MemInv, OpenArray \/ OpenInline PROVE MemInv'
<1>1. /\ Typed /\ Pointers /\ Unshared /\ Calls /\ Waiting /\ CanAlloc(1)
      /\ mode = "value" /\ mode' = "loop" /\ log' = log /\ ret' = ret
  BY DEF MemInv, OpenArray, OpenInline
<1>2. PICK n : n = new
  OBVIOUS
<1>3. PICK x \in Blank, fun \in {"array", "inline"} :
         /\ objects' = [objects EXCEPT ![n] = x] /\ nobjects' = n
         /\ Push(Call(fun, n))
         /\ x = IF fun = "array" THEN new_value("array") ELSE new_key
  BY <1>2 DEF Blank, OpenArray, OpenInline
<1>4. /\ n \in Ids /\ n = nobjects + 1 /\ objects'[n] = x /\ Loose(n)'
      /\ objects' \in [Ids -> KeyType \cup ValueType] /\ Shapes'
      /\ PointersGrow("none", 1, 0, 1, 1, {}) /\ ObjectsStay("none", 1)
      /\ Sound("none", 1, 0, 1, {})
  BY <1>1, <1>2, <1>3, AllocEffect
<1>5. ret = NULL /\ n # NULL /\ nobjects \in Ids
  BY <1>1, <1>4 DEF MemInv, Returned, Typed, Ids, NULL
<1>6. Released' /\ log = <<>> /\ Frees = {}
  BY <1>1, NothingFreed
<1>7. PICK first : first = [fun |-> fun, obj |-> n, key |-> NULL]
  OBVIOUS
<1>8. PICK l \in Nat : l = Len(stack) /\ l # 0 /\ l \in 1 .. l
  BY <1>1, TopIs
<1>9. /\ stack' \in Seq(Calling) /\ Len(stack') = l + 1
      /\ stack'[l + 1] = first /\ \A m \in 1 .. l : stack'[m] = stack[m]
  <2>1. first \in Calling
    BY <1>4, <1>7 DEF Calling, NULL, Ids
  <2>2. stack' = Append(stack, first) /\ stack \in Seq(Calling)
    BY <1>1, <1>3, <1>7 DEF Push, Call, Typed
  <2> QED
    BY <1>8, <2>1, <2>2
<1>10. Typed'
  <2>1. log' \in Seq(Allocated') /\ mode' \in Modes
    BY <1>1, <1>6 DEF Modes
  <2>2. nobjects' \in Ids /\ ret' \in 0 .. nobjects'
    BY <1>1, <1>3, <1>4, <1>5 DEF Ids, NULL
  <2> QED
    BY <1>4, <1>9, <2>1, <2>2 DEF Typed
<1>11. Pointers' /\ Unshared'
  BY <1>1, <1>4, TargetsStay, UnsharedStays DEF Pointers
<1>12. ASSUME NEW m \in 1 .. l, NEW call, call = stack[m]
       PROVE  /\ call.obj \in Allocated /\ call.obj \in Allocated'
              /\ Loose(call.obj)'
              /\ call.fun = "array" => /\ objects'[call.obj].is = "value"
                                       /\ objects'[call.obj].type = "array" /\ call.key = NULL
              /\ call.fun # "array" => objects'[call.obj].is = "key"
                                       /\ objects'[call.obj].value = NULL /\ call.key # NULL
              /\ call.fun = "array" => Room(call.obj)'
              /\ call.key # NULL => /\ call.key \in Allocated /\ call.key \in Allocated'
                                    /\ objects'[call.key].is = "key"
                                    /\ objects'[call.key].value = NULL
                                    /\ \A p \in Ids : ~DataOf(p, call.key)'
              /\ call.obj < n /\ call.key < n /\ call.key # n
  <2>1. /\ call.obj \in Allocated /\ call.obj \in Allocated'
        /\ Loose(call.obj)'
        /\ call.fun = "array" => /\ objects'[call.obj].is = "value"
                                 /\ objects'[call.obj].type = "array" /\ call.key = NULL
        /\ call.fun # "array" => objects'[call.obj].is = "key"
                                 /\ objects'[call.obj].value = NULL
        /\ call.fun = "array" /\ Room(call.obj) => Room(call.obj)'
        /\ call.key # NULL => /\ call.key \in Allocated /\ call.key \in Allocated'
                              /\ objects'[call.key].is = "key"
                              /\ objects'[call.key].value = NULL
                              /\ \A p \in Ids : ~DataOf(p, call.key)'
    BY <1>1, <1>4, <1>8, <1>12, CallStays
  <2>2. (call.fun = "array" => Room(call.obj)) /\ (call.fun # "array" => call.key # NULL)
    BY <1>1, <1>8, <1>12 DEF Calls
  <2>3. call.obj < n /\ call.key < n /\ call.key # n
    BY <1>4, <1>5, <2>1 DEF Allocated, NULL, Ids
  <2> QED
    BY <2>1, <2>2, <2>3
<1>13. \A m : m \in 1 .. l + 1 <=> m \in 1 .. l \/ m = l + 1
  BY <1>8
<1>14. n \in Allocated'
  BY <1>3, <1>4 DEF Allocated, Ids
<1>15. Calls'
  <2>1. stack' # <<>> /\ stack'[1].obj = Root
    BY <1>1, <1>8, <1>9 DEF Calls
  <2>2. ASSUME NEW m \in 1 .. l + 1, NEW call, call = stack'[m]
        PROVE  /\ call.fun = "keyval" <=> m = 1
               /\ call.obj \in Allocated' /\ Loose(call.obj)'
               /\ call.fun = "array"  => /\ objects'[call.obj].is = "value"
                                         /\ objects'[call.obj].type = "array"
                                         /\ call.key = NULL
               /\ call.fun # "array"  => /\ objects'[call.obj].is = "key"
                                         /\ objects'[call.obj].value = NULL
               /\ call.fun # "array" /\ m < l + 1 => call.key # NULL
               /\ call.fun = "array" /\ m < l + 1 => Room(call.obj)'
    <3>1. CASE m \in 1 .. l
      <4>1. call = stack[m] /\ (stack[m].fun = "keyval" <=> m = 1)
        BY <1>1, <1>8, <1>9, <2>2, <3>1 DEF Calls
      <4> QED
        BY <1>12, <3>1, <4>1
    <3>2. CASE m = l + 1
      <4>1. call = first /\ m # 1 /\ ~(m < l + 1)
        BY <1>8, <1>9, <2>2, <3>2
      <4>2. call.fun = fun /\ call.obj = n /\ call.key = NULL
        BY <1>7, <4>1
      <4>3. fun = "array"  => objects'[n].is = "value" /\ objects'[n].type = "array"
        BY <1>3, <1>4, NewTyped
      <4>4. fun # "array"  => objects'[n].is = "key" /\ objects'[n].value = NULL
        BY <1>3, <1>4, NewTyped
      <4>5. fun # "keyval"
        BY <1>3
      <4> QED
        BY <1>4, <1>14, <4>1, <4>2, <4>3, <4>4, <4>5
    <3> QED
      BY <1>13, <3>1, <3>2
  <2>3. ASSUME NEW m \in 1 .. l + 1, NEW o \in 1 .. l + 1, m < o
        PROVE  stack'[m].obj < stack'[o].obj
    <3>1. m \in 1 .. l
      BY <1>8, <2>3
    <3>2. CASE o \in 1 .. l
      BY <1>1, <1>8, <1>9, <2>3, <3>1, <3>2 DEF Calls
    <3>3. CASE o = l + 1
      BY <1>7, <1>9, <1>12, <3>1, <3>3
    <3> QED
      BY <1>13, <3>2, <3>3
  <2> QED
    BY <1>1, <1>9, <2>1, <2>2, <2>3 DEF Calls
<1>16. Waiting'
  <2>1. ASSUME NEW m \in 1 .. l + 1, NEW k, k = stack'[m].key, k # NULL
        PROVE  /\ m \in 1 .. l
               /\ k \in Allocated'
               /\ objects'[k].is = "key" /\ objects'[k].value = NULL
               /\ \A p \in Ids : ~DataOf(p, k)'
    <3>1. m \in 1 .. l
      BY <1>7, <1>9, <1>13, <2>1
    <3>2. PICK call : call = stack[m]
      OBVIOUS
    <3>3. k = call.key
      BY <1>9, <2>1, <3>1, <3>2
    <3> QED
      BY <1>12, <2>1, <3>1, <3>2, <3>3
  <2>2. ASSUME NEW m \in 1 .. l + 1, NEW o \in 1 .. l + 1, stack'[m].key # NULL
        PROVE  stack'[o].obj # stack'[m].key
    <3>1. m \in 1 .. l
      BY <2>1, <2>2
    <3>2. CASE o \in 1 .. l
      BY <1>1, <1>8, <1>9, <2>2, <3>1, <3>2 DEF Waiting
    <3>3. CASE o = l + 1
      BY <1>7, <1>9, <1>12, <3>1, <3>3
    <3> QED
      BY <1>13, <3>2, <3>3
  <2>3. ASSUME NEW m \in 1 .. l + 1, NEW o \in 1 .. l + 1,
               stack'[m].key = stack'[o].key, stack'[m].key # NULL
        PROVE  m = o
    <3>1. m \in 1 .. l /\ o \in 1 .. l
      BY <2>1, <2>3
    <3> QED
      BY <1>1, <1>8, <1>9, <2>3, <3>1 DEF Waiting
  <2>4. ASSUME NEW m \in 1 .. l + 1, NEW o \in 1 .. l + 1, m < o
        PROVE  stack'[m].key < stack'[o].obj
    <3>1. m \in 1 .. l
      BY <1>8, <2>4
    <3>2. CASE o \in 1 .. l
      BY <1>1, <1>8, <1>9, <2>4, <3>1, <3>2 DEF Waiting
    <3>3. CASE o = l + 1
      BY <1>7, <1>9, <1>12, <3>1, <3>3
    <3> QED
      BY <1>13, <3>2, <3>3
  <2> QED
    BY <1>9, <2>1, <2>2, <2>3, <2>4 DEF Waiting
<1>17. Returned'
  BY <1>1, <1>5 DEF Returned
<1>18. Owned'
  <2>1. ASSUME NEW o \in Ids, nobjects < o, o \in Values' PROVE Kept(o)'
    <3>1. o = n
      BY <1>3, <1>4, <1>5, <2>1 DEF Values, Ids
    <3>2. l + 1 \in 1 .. Len(stack') /\ stack'[l + 1].obj = n
      BY <1>7, <1>8, <1>9
    <3> QED
      BY <3>1, <3>2 DEF Kept
  <2>2. \A o \in Values : o # ret
    BY <1>5 DEF Values, NULL
  <2>3. \A m \in 1 .. Len(stack) : m \in 1 .. Len(stack') /\ stack'[m].obj = stack[m].obj
    BY <1>8, <1>9
  <2> QED
    BY <1>1, <1>4, <2>1, <2>2, <2>3, OwnedStays
<1> QED
  BY <1>6, <1>10, <1>11, <1>15, <1>16, <1>17, <1>18 DEF MemInv

-----------------------------------------------------------------------------
(* A key is allocated, and waits for its value. *)

LEMMA PairEffect ==
    ASSUME Typed, Pointers, CanAlloc(1), NEW n, n = new, NEW t \in Allocated,
           objects[t].is = "key",
           objects' = [objects EXCEPT ![t].subkeys = @ \cup {n}, ![n] = new_key],
           nobjects' = n
    PROVE  /\ n \in Ids /\ n = nobjects + 1 /\ objects'[n] = new_key /\ Loose(n)
           /\ objects' \in [Ids -> KeyType \cup ValueType] /\ Shapes'
           /\ PointersGrow("none", 1, 0, 1, t, {n}) /\ ObjectsStay("none", 1)
           /\ Sound("none", 1, 0, 1, {n})
<1>1. n \in Ids /\ n = nobjects + 1 /\ nobjects \in Ids /\ n > nobjects /\ t \in Ids /\ t # n
  BY DEF new, CanAlloc, Typed, Ids, Allocated
<1>2. objects[t] \in KeyType /\ objects[n] = new_key
  BY <1>1 DEF Typed, KeyType, ValueType, Pointers, Shapes
<1>3. PICK x : x = [objects[t] EXCEPT !.subkeys = @ \cup {n}]
  OBVIOUS
<1>4. /\ x \in KeyType /\ x.is = "key" /\ x.value = objects[t].value
      /\ x.subkeys = objects[t].subkeys \cup {n}
  BY <1>1, <1>2, <1>3 DEF KeyType
<1>5. /\ objects'[n] = new_key /\ objects'[t] = x
      /\ \A o \in Ids : o # n /\ o # t => objects'[o] = objects[o]
      /\ objects' \in [Ids -> KeyType \cup ValueType]
  BY <1>1, <1>3, <1>4, NewTyped DEF Typed
<1>6. PointersGrow("none", 1, 0, 1, t, {n})
  <2>1. ASSUME NEW p \in Ids, NEW o \in Ids
        PROVE  /\ \A i \in Indices : Elem(p, i, o)' <=> Elem(p, i, o)
               /\ DataOf(p, o)' <=> DataOf(p, o)
               /\ ValueOf(p, o)' <=> ValueOf(p, o)
               /\ SubOf(p, o)' <=> SubOf(p, o) \/ (p = t /\ o = n)
    <3>1. CASE p = n
      BY <1>1, <1>2, <1>5, <3>1 DEF Elem, DataOf, ValueOf, SubOf
    <3>2. CASE p = t
      BY <1>1, <1>4, <1>5, <3>2 DEF Elem, DataOf, ValueOf, SubOf
    <3>3. CASE p # n /\ p # t
      BY <1>5, <3>3 DEF Elem, DataOf, ValueOf, SubOf
    <3> QED
      BY <3>1, <3>2, <3>3
  <2> QED
    BY <2>1 DEF PointersGrow
<1>7. ObjectsStay("none", 1)
  <2>1. \A o \in Allocated : o \in Ids /\ o # n
    BY <1>1 DEF Allocated, Ids
  <2>2. \A o \in Allocated : o # t => objects'[o] = objects[o]
    BY <1>5, <2>1
  <2>3. objects[t].is = "key" /\ objects'[t].is = "key" /\ objects'[t].value = objects[t].value
    BY <1>4, <1>5
  <2>4. nobjects <= nobjects'
    BY <1>1 DEF Ids
  <2> QED
    BY <1>1, <2>2, <2>3, <2>4 DEF ObjectsStay
<1>8. Loose(n)
  BY <1>1, NewLoose
<1>9. Sound("none", 1, 0, 1, {n})
  <2>1. n \in Ids /\ n <= nobjects' /\ objects'[n].is = "key"
    BY <1>1, <1>5, NewTyped DEF Ids
  <2> QED
    BY <1>8, <2>1 DEF Sound
<1>10. Shapes'
  <2>1. \A o \in Ids : o > nobjects' => o # n /\ o > nobjects /\ o # t
    BY <1>1 DEF Ids, Allocated
  <2>2. \A o \in Ids : objects'[o].is = "value" => objects'[o] = objects[o]
    BY <1>4, <1>5, NewTyped
  <2>3. \A o \in Ids : o > nobjects' => objects'[o] = new_key
    BY <1>5, <2>1 DEF Pointers, Shapes
  <2>4. ASSUME NEW v \in Ids, objects'[v].is = "value"
        PROVE  /\ \A i \in Indices : objects'[v].arr[i] = NULL <=>
                                        ~(objects'[v].type = "array" /\ i < objects'[v].len)
               /\ objects'[v].data = NULL <=> objects'[v].type # "inline"
    BY ZenonT(60), <2>2, <2>4 DEF Pointers, Shapes
  <2> QED
    BY <2>3, <2>4 DEF Shapes
<1> QED
  BY <1>1, <1>5, <1>6, <1>7, <1>8, <1>9, <1>10

LEMMA PairStays == ASSUME MemInv, Pair PROVE MemInv'
<1>1. /\ Typed /\ Pointers /\ Unshared /\ Calls /\ Waiting /\ CanAlloc(1)
      /\ mode = "loop" /\ mode' = "value" /\ log' = log /\ ret' = ret
      /\ Top.fun \in {"keyval", "inline"}
  BY DEF MemInv, Pair
<1>2. PICK n : n = new
  OBVIOUS
<1>3. PICK l \in Nat : l = Len(stack) /\ l # 0 /\ l \in 1 .. l
  BY <1>1, TopIs
<1>4. PICK t : t = Top.obj
  OBVIOUS
<1>5. /\ stack[l].obj = t /\ stack[l].fun # "array" /\ t \in Allocated /\ objects[t].is = "key"
  BY <1>1, <1>3, <1>4, TopIs DEF Calls
<1>6. /\ objects' = [objects EXCEPT ![t].subkeys = @ \cup {n}, ![n] = new_key]
      /\ nobjects' = n
  BY <1>2, <1>4 DEF Pair
<1>7. /\ n \in Ids /\ n = nobjects + 1 /\ objects'[n] = new_key /\ Loose(n)
      /\ objects' \in [Ids -> KeyType \cup ValueType] /\ Shapes'
      /\ PointersGrow("none", 1, 0, 1, t, {n}) /\ ObjectsStay("none", 1)
      /\ Sound("none", 1, 0, 1, {n})
  BY <1>1, <1>2, <1>5, <1>6, PairEffect
<1>8. ret = NULL /\ n # NULL /\ nobjects \in Ids
  BY <1>1, <1>7 DEF MemInv, Returned, Typed, Ids, NULL
<1>9. Released' /\ log = <<>> /\ Frees = {}
  BY <1>1, NothingFreed
<1>10. PICK last : last = [stack[l] EXCEPT !.key = n]
  OBVIOUS
<1>11. /\ last \in Calling /\ last.fun = stack[l].fun /\ last.obj = t /\ last.key = n
  BY <1>1, <1>3, <1>5, <1>7, <1>10, TopIs DEF Calling, Ids
<1>12. /\ stack' \in Seq(Calling) /\ Len(stack') = l
       /\ stack'[l] = last /\ \A m \in 1 .. l : m # l => stack'[m] = stack[m]
  <2>1. stack \in Seq(Calling) /\ stack' = [stack EXCEPT ![l] = last]
    BY <1>1, <1>2, <1>3, <1>10 DEF Typed, Pair
  <2> QED
    BY <1>3, <1>11, <2>1
<1>13. Typed'
  <2>1. log' \in Seq(Allocated') /\ mode' \in Modes
    BY <1>1, <1>9 DEF Modes
  <2>2. nobjects' \in Ids /\ ret' \in 0 .. nobjects'
    BY <1>1, <1>6, <1>7, <1>8 DEF Ids, NULL
  <2> QED
    BY <1>7, <1>12, <2>1, <2>2 DEF Typed
<1>14. Pointers' /\ Unshared'
  BY <1>1, <1>7, TargetsStay, UnsharedStays DEF Pointers
<1>15. \A o \in Allocated : o < n /\ o # n
  BY <1>7, <1>8 DEF Allocated, Ids
<1>16. ASSUME NEW m \in 1 .. l, NEW call, call = stack[m]
       PROVE  /\ call.obj \in Allocated /\ call.obj \in Allocated'
              /\ Loose(call.obj)'
              /\ call.fun = "array" => /\ objects'[call.obj].is = "value"
                                       /\ objects'[call.obj].type = "array" /\ call.key = NULL
              /\ call.fun # "array" => objects'[call.obj].is = "key"
                                       /\ objects'[call.obj].value = NULL
              /\ call.fun # "array" /\ m < l => call.key # NULL
              /\ call.fun = "array" /\ m < l => Room(call.obj)'
              /\ call.key # NULL => /\ call.key \in Allocated /\ call.key \in Allocated'
                                    /\ objects'[call.key].is = "key"
                                    /\ objects'[call.key].value = NULL
                                    /\ \A p \in Ids : ~DataOf(p, call.key)'
              /\ call.obj < n /\ call.key < n /\ call.key # n
  <2>1. call.obj \in Allocated /\ call.obj \notin {n}
    BY <1>1, <1>3, <1>15, <1>16 DEF Calls
  <2>2. /\ call.obj \in Allocated /\ call.obj \in Allocated'
        /\ Loose(call.obj)'
        /\ call.fun = "array" => /\ objects'[call.obj].is = "value"
                                 /\ objects'[call.obj].type = "array" /\ call.key = NULL
        /\ call.fun # "array" => objects'[call.obj].is = "key"
                                 /\ objects'[call.obj].value = NULL
        /\ call.fun = "array" /\ Room(call.obj) => Room(call.obj)'
        /\ call.key # NULL => /\ call.key \in Allocated /\ call.key \in Allocated'
                              /\ objects'[call.key].is = "key"
                              /\ objects'[call.key].value = NULL
                              /\ \A p \in Ids : ~DataOf(p, call.key)'
    BY <1>1, <1>3, <1>7, <1>16, <2>1, CallStays
  <2>3. m < l => /\ call.fun = "array" => Room(call.obj)
                 /\ call.fun # "array" => call.key # NULL
    BY <1>1, <1>3, <1>16 DEF Calls
  <2>4. call.obj < n /\ call.key < n /\ call.key # n
    BY <1>7, <1>8, <1>15, <2>2 DEF NULL, Ids
  <2> QED
    BY <2>2, <2>3, <2>4
<1>17. \A m \in 1 .. l : m < l \/ m = l
  BY <1>3
<1>18. /\ n \in Allocated' /\ objects'[n].is = "key" /\ objects'[n].value = NULL
       /\ \A p \in Ids : ~DataOf(p, n)'
  <2>1. \A p \in Ids : ~DataOf(p, n)
    BY <1>7 DEF Loose
  <2> QED
    BY <1>6, <1>7, <2>1, NewTyped DEF Allocated, Ids, PointersGrow
<1>19. Calls'
  <2>1. stack' # <<>> /\ stack'[1].obj = Root
    BY <1>1, <1>3, <1>5, <1>11, <1>12 DEF Calls
  <2>2. ASSUME NEW m \in 1 .. l, NEW call, call = stack'[m]
        PROVE  /\ call.fun = "keyval" <=> m = 1
               /\ call.obj \in Allocated' /\ Loose(call.obj)'
               /\ call.fun = "array"  => /\ objects'[call.obj].is = "value"
                                         /\ objects'[call.obj].type = "array"
                                         /\ call.key = NULL
               /\ call.fun # "array"  => /\ objects'[call.obj].is = "key"
                                         /\ objects'[call.obj].value = NULL
               /\ call.fun # "array" => call.key # NULL
               /\ call.fun = "array" => Room(call.obj)'
    <3>1. PICK old : old = stack[m]
      OBVIOUS
    <3>2. old.fun = "keyval" <=> m = 1
      BY <1>1, <1>3, <3>1 DEF Calls
    <3>3. CASE m < l
      <4>1. call = old
        BY <1>12, <2>2, <3>1, <3>3
      <4> QED
        BY <1>16, <3>1, <3>2, <3>3, <4>1
    <3>4. CASE m = l
      <4>1. call.fun = old.fun /\ call.obj = old.obj /\ call.key = n /\ call.fun # "array"
        BY <1>5, <1>11, <1>12, <2>2, <3>1, <3>4
      <4> QED
        BY <1>8, <1>16, <3>1, <3>2, <4>1
    <3> QED
      BY <1>17, <3>3, <3>4
  <2>3. \A m, o \in 1 .. l : m < o => stack'[m].obj < stack'[o].obj
    <3>1. \A m \in 1 .. l : stack'[m].obj = stack[m].obj
      BY <1>5, <1>11, <1>12
    <3> QED
      BY <1>1, <1>3, <3>1 DEF Calls
  <2> QED
    BY <1>1, <1>12, <2>1, <2>2, <2>3 DEF Calls
<1>20. Waiting'
  <2>1. \A m \in 1 .. l : /\ stack'[m].obj = stack[m].obj /\ stack'[m].obj # n
                          /\ stack'[m].key = IF m = l THEN n ELSE stack[m].key
                          /\ stack[m].key # n
    <3>1. ASSUME NEW m \in 1 .. l PROVE stack[m].obj # n /\ stack[m].key # n
      <4>1. PICK call : call = stack[m]
        OBVIOUS
      <4> QED
        BY <1>7, <1>8, <1>15, <1>16, <4>1
    <3> QED
      BY <1>5, <1>11, <1>12, <3>1
  <2>2. ASSUME NEW m \in 1 .. l, NEW x, x = stack'[m].key, x # NULL
        PROVE  /\ x \in Allocated'
               /\ objects'[x].is = "key" /\ objects'[x].value = NULL
               /\ \A p \in Ids : ~DataOf(p, x)'
    <3>1. PICK call : call = stack[m]
      OBVIOUS
    <3>2. CASE m = l
      BY <1>18, <2>1, <2>2, <3>2
    <3>3. CASE m # l
      <4>1. x = call.key
        BY <2>1, <2>2, <3>1, <3>3
      <4> QED
        BY <1>16, <2>2, <3>1, <4>1
    <3> QED
      BY <3>2, <3>3
  <2>3. \A m, o \in 1 .. l : stack'[m].key # NULL => stack'[o].obj # stack'[m].key
    BY <1>1, <1>3, <2>1 DEF Waiting
  <2>4. \A m, o \in 1 .. l : stack'[m].key = stack'[o].key /\ stack'[m].key # NULL => m = o
    BY <1>1, <1>3, <2>1 DEF Waiting
  <2>5. \A m, o \in 1 .. l : m < o => stack'[m].key < stack'[o].obj
    <3>1. \A m, o \in 1 .. l : m < o => m # l
      BY <1>3
    <3> QED
      BY <1>1, <1>3, <2>1, <3>1 DEF Waiting
  <2> QED
    BY <1>12, <2>2, <2>3, <2>4, <2>5 DEF Waiting
<1>21. Returned'
  BY <1>1, <1>8 DEF Returned
<1>22. Owned'
  <2>1. ASSUME NEW o \in Ids, nobjects < o, o \in Values' PROVE Kept(o)'
    <3>1. o = n
      BY <1>6, <1>7, <1>8, <2>1 DEF Values, Ids
    <3> QED
      BY <1>18, <2>1, <3>1 DEF Values
  <2>2. \A o \in Values : o # ret
    BY <1>8 DEF Values, NULL
  <2>3. \A m \in 1 .. Len(stack) : m \in 1 .. Len(stack') /\ stack'[m].obj = stack[m].obj
    BY <1>3, <1>5, <1>11, <1>12
  <2> QED
    BY <1>1, <1>7, <2>1, <2>2, <2>3, OwnedStays
<1> QED
  BY <1>9, <1>13, <1>14, <1>19, <1>20, <1>21, <1>22 DEF MemInv

-----------------------------------------------------------------------------
(* The end of an inline table, which gets a value and a pseudo key. *)

Closing(n, t) == [objects EXCEPT
                     ![n]     = [new_value("inline") EXCEPT !.data = n + 1],
                     ![n + 1] = [new_key EXCEPT !.subkeys = objects[t].subkeys]]

LEMMA CloseEffect ==
    ASSUME Typed, Pointers, CanAlloc(2), NEW n, n = new, NEW t \in Allocated,
           objects[t].is = "key",
           objects' = Closing(n, t), nobjects' = n + 1
    PROVE  /\ n \in Ids /\ n + 1 \in Ids /\ n = nobjects + 1 /\ Loose(n)
           /\ objects'[n].is = "value" /\ objects'[n].type = "inline"
           /\ objects' \in [Ids -> KeyType \cup ValueType] /\ Shapes'
           /\ objects'[n + 1].is = "key"
           /\ PointersGrow("data", n, 0, n + 1, n + 1, objects[t].subkeys)
           /\ ObjectsStay("data", n)
           /\ Sound("data", n, 0, n + 1, objects[t].subkeys)
           /\ \A o \in objects[t].subkeys : o \in Ids /\ SubOf(t, o)
<1>1. /\ n \in Ids /\ n + 1 \in Ids /\ n = nobjects + 1 /\ nobjects \in Ids /\ n > nobjects
      /\ n + 1 > nobjects /\ t \in Ids /\ t # n /\ t # n + 1 /\ n # n + 1
  BY DEF new, CanAlloc, Typed, Ids, Allocated
<1>2. objects[t] \in KeyType /\ objects[n] = new_key /\ objects[n + 1] = new_key
  BY <1>1 DEF Typed, KeyType, ValueType, Pointers, Shapes
<1>3. PICK subs : subs = objects[t].subkeys
  OBVIOUS
<1>4. subs \subseteq Ids
  BY <1>2, <1>3 DEF KeyType
<1>5. PICK x : x = [new_value("inline") EXCEPT !.data = n + 1]
  OBVIOUS
<1>6. PICK y : y = [new_key EXCEPT !.subkeys = subs]
  OBVIOUS
<1>7. /\ x \in ValueType /\ x.is = "value" /\ x.type = "inline" /\ x.data = n + 1 /\ n + 1 # NULL
      /\ \A i \in Indices : x.arr[i] = NULL
  BY <1>1, <1>5 DEF new_value, ValueType, NULL, Ids
<1>8. y \in KeyType /\ y.is = "key" /\ y.value = NULL /\ y.subkeys = subs
  BY <1>4, <1>6 DEF new_key, KeyType, NULL
<1>9. /\ objects'[n] = x /\ objects'[n + 1] = y
      /\ \A o \in Ids : o # n /\ o # n + 1 => objects'[o] = objects[o]
      /\ objects' \in [Ids -> KeyType \cup ValueType]
  BY <1>1, <1>3, <1>5, <1>6, <1>7, <1>8 DEF Typed, Closing
<1>10. PointersGrow("data", n, 0, n + 1, n + 1, subs)
  <2>1. ASSUME NEW p \in Ids, NEW o \in Ids
        PROVE  /\ \A i \in Indices : Elem(p, i, o)' <=> Elem(p, i, o)
               /\ DataOf(p, o)' <=> DataOf(p, o) \/ (p = n /\ o = n + 1)
               /\ ValueOf(p, o)' <=> ValueOf(p, o)
               /\ SubOf(p, o)' <=> SubOf(p, o) \/ (p = n + 1 /\ o \in subs)
    <3>1. CASE p = n
      BY <1>1, <1>2, <1>7, <1>9, <3>1, NewTyped DEF Elem, DataOf, ValueOf, SubOf
    <3>2. CASE p = n + 1
      BY <1>1, <1>2, <1>8, <1>9, <3>2, NewTyped DEF Elem, DataOf, ValueOf, SubOf
    <3>3. CASE p # n /\ p # n + 1
      BY <1>9, <3>3 DEF Elem, DataOf, ValueOf, SubOf
    <3> QED
      BY <3>1, <3>2, <3>3
  <2> QED
    BY <2>1 DEF PointersGrow
<1>11. ObjectsStay("data", n)
  <2>1. \A o \in Allocated : o \in Ids /\ o # n /\ o # n + 1
    BY <1>1 DEF Allocated, Ids
  <2>2. \A o \in Allocated : objects'[o] = objects[o]
    BY <1>9, <2>1
  <2>3. nobjects <= nobjects' /\ nobjects' \in Ids
    BY <1>1 DEF Ids
  <2> QED
    BY <1>1, <2>2, <2>3 DEF ObjectsStay
<1>12. Loose(n) /\ Loose(n + 1)
  BY <1>1, NewLoose
<1>13. ASSUME NEW o \in subs
       PROVE  /\ o \in Ids /\ SubOf(t, o) /\ o <= nobjects' /\ objects'[o].is = "key"
              /\ o # n + 1
  <2>1. o \in Ids /\ SubOf(t, o)
    BY <1>2, <1>3, <1>4 DEF SubOf
  <2>2. o <= nobjects /\ objects[o].is = "key"
    BY <1>1, <2>1 DEF Pointers, Targets
  <2>3. o \in Allocated /\ o # n + 1 /\ o <= nobjects'
    BY <1>1, <2>1, <2>2 DEF Allocated, Ids
  <2> QED
    BY <1>11, <2>1, <2>2, <2>3 DEF ObjectsStay
<1>14. Sound("data", n, 0, n + 1, subs)
  <2>1. n < n + 1 /\ n + 1 <= nobjects'
    BY <1>1 DEF Ids
  <2>2. \A o \in subs : \E p \in Ids : SubOf(p, o)
    BY <1>1, <1>13
  <2>3. n + 1 \notin subs
    BY <1>13
  <2> QED
    BY <1>1, <1>8, <1>9, <1>12, <1>13, <2>1, <2>2, <2>3 DEF Sound
<1>15. Shapes'
  <2>1. \A o \in Ids : o > nobjects' => o # n /\ o # n + 1 /\ o > nobjects
    BY <1>1 DEF Ids
  <2>2. \A o \in Ids : o > nobjects' => objects'[o] = new_key
    BY <1>9, <2>1 DEF Pointers, Shapes
  <2>3. ASSUME NEW v \in Ids, objects'[v].is = "value"
        PROVE  /\ \A i \in Indices : objects'[v].arr[i] = NULL <=>
                                        ~(objects'[v].type = "array" /\ i < objects'[v].len)
               /\ objects'[v].data = NULL <=> objects'[v].type # "inline"
    <3>1. CASE v = n
      BY <1>7, <1>9, <3>1
    <3>2. CASE v # n
      <4>1. objects'[v] = objects[v]
        BY <1>8, <1>9, <2>3, <3>2
      <4> QED
        BY <2>3, <4>1 DEF Pointers, Shapes
    <3> QED
      BY <3>1, <3>2
  <2> QED
    BY <2>2, <2>3 DEF Shapes
<1> QED
  BY <1>1, <1>3, <1>7, <1>8, <1>9, <1>10, <1>11, <1>12, <1>13, <1>14, <1>15

LEMMA CloseInlineStays == ASSUME MemInv, CloseInline PROVE MemInv'
<1>1. /\ Typed /\ Pointers /\ Unshared /\ Calls /\ Waiting /\ CanAlloc(2) /\ Pop
      /\ mode = "loop" /\ mode' = "return" /\ log' = log /\ Top.fun = "inline"
  BY DEF MemInv, CloseInline
<1>2. PICK n : n = new
  OBVIOUS
<1>3. PICK l \in Nat : l = Len(stack) /\ l # 0 /\ l \in 1 .. l
  BY <1>1, TopIs
<1>4. PICK t : t = Top.obj
  OBVIOUS
<1>5. /\ stack[l].obj = t /\ t \in Allocated /\ objects[t].is = "key"
  BY <1>1, <1>3, <1>4, TopIs DEF Calls
<1>6. objects' = Closing(n, t) /\ nobjects' = n + 1 /\ ret' = n
  BY <1>2, <1>4 DEF CloseInline, Closing
<1>7. PICK subs : subs = objects[t].subkeys
  OBVIOUS
<1>8. PICK d : d = n + 1
  OBVIOUS
<1>9. /\ n \in Ids /\ d \in Ids /\ n = nobjects + 1 /\ Loose(n)
      /\ objects'[n].is = "value" /\ objects'[n].type = "inline"
      /\ objects' \in [Ids -> KeyType \cup ValueType] /\ Shapes'
      /\ objects'[d].is = "key"
      /\ PointersGrow("data", n, 0, d, d, subs) /\ ObjectsStay("data", n)
      /\ Sound("data", n, 0, d, subs)
      /\ \A o \in subs : o \in Ids /\ SubOf(t, o)
  <2>1. /\ n \in Ids /\ n + 1 \in Ids /\ n = nobjects + 1 /\ Loose(n)
        /\ objects'[n].is = "value" /\ objects'[n].type = "inline"
        /\ objects' \in [Ids -> KeyType \cup ValueType] /\ Shapes'
        /\ objects'[n + 1].is = "key"
        /\ PointersGrow("data", n, 0, n + 1, n + 1, objects[t].subkeys)
        /\ ObjectsStay("data", n)
        /\ Sound("data", n, 0, n + 1, objects[t].subkeys)
        /\ \A o \in objects[t].subkeys : o \in Ids /\ SubOf(t, o)
    BY <1>1, <1>2, <1>5, <1>6, CloseEffect
  <2> QED
    BY <1>7, <1>8, <2>1
<1>10. ret = NULL /\ n # NULL /\ nobjects \in Ids
  BY <1>1, <1>9 DEF MemInv, Returned, Typed, Ids, NULL
<1>11. Released' /\ log = <<>> /\ Frees = {}
  BY <1>1, NothingFreed
<1>12. PICK k \in Nat : k = l - 1 /\ k # 0
  BY <1>1, <1>3, TopNotFirst
<1>13. /\ stack' \in Seq(Calling) /\ Len(stack') = k
       /\ \A m \in 1 .. k : m \in 1 .. l /\ m < l /\ stack'[m] = stack[m]
  BY <1>1, <1>3, <1>12, Popped
<1>14. Typed'
  <2>1. log' \in Seq(Allocated') /\ mode' \in Modes
    BY <1>1, <1>11 DEF Modes
  <2>2. nobjects' \in Ids /\ ret' \in 0 .. nobjects'
    BY <1>1, <1>6, <1>8, <1>9, <1>10 DEF Ids, NULL
  <2> QED
    BY <1>9, <1>13, <2>1, <2>2 DEF Typed
<1>15. Pointers' /\ Unshared'
  BY <1>1, <1>9, TargetsStay, UnsharedStays DEF Pointers
<1>16. \A o \in Allocated : o < n /\ o # n /\ o # d
  BY <1>8, <1>9, <1>10 DEF Allocated, Ids
<1>17. ASSUME NEW m \in 1 .. k, NEW call, call = stack[m]
       PROVE  /\ call.obj \in Allocated'
              /\ Loose(call.obj)'
              /\ call.fun = "array" => /\ objects'[call.obj].is = "value"
                                       /\ objects'[call.obj].type = "array" /\ call.key = NULL
              /\ call.fun # "array" => objects'[call.obj].is = "key"
                                       /\ objects'[call.obj].value = NULL
              /\ call.fun # "array" => call.key # NULL
              /\ call.fun = "array" => Room(call.obj)'
              /\ call.key # NULL => /\ call.key \in Allocated'
                                    /\ objects'[call.key].is = "key"
                                    /\ objects'[call.key].value = NULL
                                    /\ \A p \in Ids : ~DataOf(p, call.key)'
              /\ call.obj < n /\ call.key < n
  <2>1. m \in 1 .. l /\ m < l
    BY <1>13
  <2>2. /\ call.obj \in Allocated /\ Loose(call.obj)
        /\ call.fun = "array" => Room(call.obj)
        /\ call.fun # "array" => call.key # NULL
        /\ call.key # NULL => call.key \in Allocated
    BY <1>1, <1>3, <1>17, <2>1 DEF Calls, Waiting
  <2>3. call.obj \notin subs
    <3>1. t \in Ids
      BY <1>5, <1>10 DEF Allocated, Ids
    <3> QED
      BY <1>9, <2>2, <3>1 DEF Loose
  <2>4. d # call.obj /\ d # call.key /\ call.key < n /\ call.obj < n
    <3>1. d # NULL /\ NULL < n
      BY <1>8, <1>9, <1>10 DEF Ids, NULL
    <3> QED
      BY <1>16, <2>2, <3>1
  <2>5. /\ call.obj \in Allocated'
        /\ Loose(call.obj)'
        /\ call.fun = "array" => /\ objects'[call.obj].is = "value"
                                 /\ objects'[call.obj].type = "array" /\ call.key = NULL
        /\ call.fun # "array" => objects'[call.obj].is = "key"
                                 /\ objects'[call.obj].value = NULL
        /\ call.fun = "array" /\ Room(call.obj) => Room(call.obj)'
        /\ call.key # NULL => /\ call.key \in Allocated'
                              /\ objects'[call.key].is = "key"
                              /\ objects'[call.key].value = NULL
                              /\ \A p \in Ids : ~DataOf(p, call.key)'
    BY <1>1, <1>3, <1>9, <1>17, <2>1, <2>3, <2>4, CallStays
  <2> QED
    BY <2>2, <2>4, <2>5
<1>18. Calls'
  <2>1. stack' # <<>> /\ stack'[1].obj = Root
    BY <1>1, <1>12, <1>13 DEF Calls
  <2>2. ASSUME NEW m \in 1 .. k, NEW call, call = stack'[m]
        PROVE  /\ call.fun = "keyval" <=> m = 1
               /\ call.obj \in Allocated' /\ Loose(call.obj)'
               /\ call.fun = "array"  => /\ objects'[call.obj].is = "value"
                                         /\ objects'[call.obj].type = "array"
                                         /\ call.key = NULL
               /\ call.fun # "array"  => /\ objects'[call.obj].is = "key"
                                         /\ objects'[call.obj].value = NULL
               /\ call.fun # "array" => call.key # NULL
               /\ call.fun = "array" => Room(call.obj)'
    <3>1. call = stack[m] /\ (call.fun = "keyval" <=> m = 1)
      BY <1>1, <1>3, <1>13, <2>2 DEF Calls
    <3> QED
      BY <1>17, <3>1
  <2>3. \A m, o \in 1 .. k : m < o => stack'[m].obj < stack'[o].obj
    BY <1>1, <1>3, <1>13 DEF Calls
  <2> QED
    BY <1>1, <1>13, <2>1, <2>2, <2>3 DEF Calls
<1>19. Waiting'
  <2>1. ASSUME NEW m \in 1 .. k, NEW x, x = stack'[m].key, x # NULL
        PROVE  /\ x \in Allocated'
               /\ objects'[x].is = "key" /\ objects'[x].value = NULL
               /\ \A p \in Ids : ~DataOf(p, x)'
    <3>1. PICK call : call = stack[m]
      OBVIOUS
    <3>2. x = call.key
      BY <1>13, <2>1, <3>1
    <3> QED
      BY <1>17, <2>1, <3>1, <3>2
  <2>2. \A m, o \in 1 .. k : /\ stack'[m].key # NULL => stack'[o].obj # stack'[m].key
                             /\ stack'[m].key = stack'[o].key /\ stack'[m].key # NULL => m = o
                             /\ m < o => stack'[m].key < stack'[o].obj
    BY <1>1, <1>3, <1>13 DEF Waiting
  <2> QED
    BY <1>13, <2>1, <2>2 DEF Waiting
<1>20. Returned'
  <2>1. Loose(n)'
    <3>1. n \notin subs
      <4>1. t \in Ids
        BY <1>5, <1>10 DEF Allocated, Ids
      <4> QED
        BY <1>9, <4>1 DEF Loose
    <3>2. n # d
      BY <1>8, <1>9 DEF Ids
    <3> QED
      BY <1>9, <3>1, <3>2, LooseStays
  <2>2. ASSUME NEW m \in 1 .. k PROVE stack'[m].obj < n /\ stack'[m].key < n
    BY <1>13, <1>17
  <2> QED
    BY <1>1, <1>6, <1>9, <1>10, <1>13, <2>1, <2>2 DEF Returned
<1>21. Owned'
  <2>1. ASSUME NEW o \in Ids, nobjects < o, o \in Values' PROVE Kept(o)'
    <3>1. o = n \/ o = d
      BY <1>6, <1>8, <1>9, <1>10, <2>1 DEF Values, Ids
    <3> QED
      BY <1>9, <2>1, <3>1 DEF Values
  <2>2. \A o \in Values : o # ret
    BY <1>10 DEF Values, NULL
  <2>3. ASSUME NEW m \in 1 .. Len(stack), objects[stack[m].obj].is = "value"
        PROVE  \E o \in 1 .. Len(stack') : stack'[o].obj = stack[m].obj
    <3>1. m # l
      BY <1>5, <2>3
    <3>2. m \in 1 .. k
      BY <1>3, <1>12, <3>1
    <3> QED
      BY <1>13, <3>2
  <2> QED
    BY <1>1, <1>9, <2>1, <2>2, <2>3, OwnedStays
<1> QED
  BY <1>11, <1>14, <1>15, <1>18, <1>19, <1>20, <1>21 DEF MemInv

-----------------------------------------------------------------------------
(* The caller takes the value: as an element, as a value, or its pairs. *)

LEMMA ElementEffect ==
    ASSUME Typed, Pointers, NEW t \in Allocated, NEW r \in Allocated, NEW i,
           objects[t].is = "value", objects[t].type = "array", i = objects[t].len, Room(t),
           objects[r].is = "value", Loose(r), t < r, nobjects' = nobjects,
           objects' = [objects EXCEPT ![t].arr = [@ EXCEPT ![i] = r], ![t].len = i + 1]
    PROVE  /\ objects' \in [Ids -> KeyType \cup ValueType] /\ Shapes' /\ i \in Indices
           /\ PointersGrow("elem", t, i, r, 1, {}) /\ ObjectsStay("elem", t)
           /\ Sound("elem", t, i, r, {})
<1>1. t \in Ids /\ r \in Ids /\ nobjects \in Ids /\ r # NULL /\ t # r /\ r <= nobjects
  BY DEF Typed, Ids, Allocated, NULL
<1>2. objects[t] \in ValueType
  BY <1>1 DEF Typed, KeyType, ValueType
<1>3. i \in Indices /\ i + 1 \in 0 .. MaxArray /\ i \in Nat
  BY <1>2 DEF Room, Indices, ValueType
<1>4. PICK x : x = [objects[t] EXCEPT !.arr = [@ EXCEPT ![i] = r], !.len = i + 1]
  OBVIOUS
<1>5. /\ x \in ValueType /\ x.is = "value" /\ x.type = "array" /\ x.len = i + 1
      /\ x.data = objects[t].data
      /\ x.arr[i] = r /\ \A j \in Indices : j # i => x.arr[j] = objects[t].arr[j]
  <2>1. PICK arr : arr = [objects[t].arr EXCEPT ![i] = r]
    OBVIOUS
  <2>2. /\ arr \in [Indices -> 0 .. MaxObjects] /\ arr[i] = r
        /\ \A j \in Indices : j # i => arr[j] = objects[t].arr[j]
    BY <1>1, <1>2, <1>3, <2>1 DEF ValueType, Ids
  <2>3. x = [objects[t] EXCEPT !.arr = arr, !.len = i + 1]
    BY <1>4, <2>1
  <2>4. /\ x \in ValueType /\ x.is = objects[t].is /\ x.type = objects[t].type /\ x.len = i + 1
        /\ x.data = objects[t].data /\ x.arr = arr
    BY <1>2, <1>3, <2>2, <2>3 DEF ValueType
  <2> QED
    BY <2>2, <2>4
<1>6. /\ objects'[t] = x /\ \A o \in Ids : o # t => objects'[o] = objects[o]
      /\ objects' \in [Ids -> KeyType \cup ValueType]
  BY <1>1, <1>4, <1>5 DEF Typed
<1>7. /\ \A j \in Indices : objects[t].arr[j] = NULL <=> ~(j < i)
      /\ objects[t].data = NULL
  BY <1>1 DEF Pointers, Shapes
<1>8. PointersGrow("elem", t, i, r, 1, {})
  <2>1. ASSUME NEW p \in Ids, NEW o \in Ids
        PROVE  /\ \A j \in Indices : Elem(p, j, o)' <=> Elem(p, j, o) \/ (p = t /\ j = i /\ o = r)
               /\ DataOf(p, o)' <=> DataOf(p, o)
               /\ ValueOf(p, o)' <=> ValueOf(p, o)
               /\ SubOf(p, o)' <=> SubOf(p, o)
    <3>1. CASE p = t
      <4>1. objects[t].arr[i] = NULL
        BY <1>3, <1>7 DEF Indices
      <4> QED
        BY ZenonT(60), <1>1, <1>5, <1>6, <3>1, <4>1 DEF Elem, DataOf, ValueOf, SubOf
    <3>2. CASE p # t
      BY <1>6, <3>2 DEF Elem, DataOf, ValueOf, SubOf
    <3> QED
      BY <3>1, <3>2
  <2> QED
    BY <2>1 DEF PointersGrow
<1>9. ObjectsStay("elem", t)
  <2>1. \A o \in Allocated : o \in Ids /\ (o # t => objects'[o] = objects[o])
    BY <1>1, <1>6 DEF Allocated, Ids
  <2>2. nobjects <= nobjects' /\ nobjects' \in Ids
    BY <1>1 DEF Ids
  <2> QED
    BY <1>1, <1>5, <1>6, <2>1, <2>2 DEF ObjectsStay
<1>10. Sound("elem", t, i, r, {})
  <2>1. objects'[r].is = "value"
    BY <1>1, <1>6
  <2> QED
    BY <1>1, <2>1 DEF Sound
<1>11. Shapes'
  <2>1. \A o \in Ids : o > nobjects' => objects'[o] = new_key
    <3>1. \A o \in Ids : o > nobjects => o # t
      BY <1>1 DEF Ids, Allocated
    <3> QED
      BY <1>6, <3>1 DEF Pointers, Shapes
  <2>2. ASSUME NEW v \in Ids, objects'[v].is = "value"
        PROVE  /\ \A j \in Indices : objects'[v].arr[j] = NULL <=>
                                        ~(objects'[v].type = "array" /\ j < objects'[v].len)
               /\ objects'[v].data = NULL <=> objects'[v].type # "inline"
    <3>1. CASE v = t
      <4>1. ASSUME NEW j \in Indices PROVE x.arr[j] = NULL <=> ~(j < i + 1)
        <5>1. CASE j = i
          BY <1>1, <1>3, <1>5, <5>1
        <5>2. CASE j # i
          <6>1. j < i + 1 <=> j < i
            BY <1>3, <5>2 DEF Indices
          <6> QED
            BY <1>5, <1>7, <5>2, <6>1
        <5> QED
          BY <5>1, <5>2
      <4>2. objects'[v] = x /\ x.type = "array" /\ x.len = i + 1 /\ x.data = NULL
        BY <1>5, <1>6, <1>7, <3>1
      <4> QED
        BY <4>1, <4>2
    <3>2. CASE v # t
      BY <1>6, <2>2, <3>2 DEF Pointers, Shapes
    <3> QED
      BY <3>1, <3>2
  <2> QED
    BY <2>1, <2>2 DEF Shapes
<1> QED
  BY <1>3, <1>6, <1>8, <1>9, <1>10, <1>11

LEMMA ValueEffect ==
    ASSUME Typed, Pointers, NEW t \in Allocated, NEW r \in Allocated,
           objects[t].is = "key", objects[t].value = NULL, \A p \in Ids : ~DataOf(p, t),
           objects[r].is = "value", objects[r].type # "inline", Loose(r), t < r,
           nobjects' = nobjects, objects' = [objects EXCEPT ![t].value = r]
    PROVE  /\ objects' \in [Ids -> KeyType \cup ValueType] /\ Shapes'
           /\ PointersGrow("value", t, 0, r, 1, {}) /\ ObjectsStay("value", t)
           /\ Sound("value", t, 0, r, {})
<1>1. t \in Ids /\ r \in Ids /\ nobjects \in Ids /\ r # NULL /\ t # r /\ r <= nobjects
  BY DEF Typed, Ids, Allocated, NULL
<1>2. objects[t] \in KeyType
  BY <1>1 DEF Typed, KeyType, ValueType
<1>3. PICK x : x = [objects[t] EXCEPT !.value = r]
  OBVIOUS
<1>4. x \in KeyType /\ x.is = "key" /\ x.value = r /\ x.subkeys = objects[t].subkeys
  BY <1>1, <1>2, <1>3 DEF KeyType, Ids
<1>5. /\ objects'[t] = x /\ \A o \in Ids : o # t => objects'[o] = objects[o]
      /\ objects' \in [Ids -> KeyType \cup ValueType]
  BY <1>1, <1>3, <1>4 DEF Typed
<1>6. PointersGrow("value", t, 0, r, 1, {})
  <2>1. ASSUME NEW p \in Ids, NEW o \in Ids
        PROVE  /\ \A j \in Indices : Elem(p, j, o)' <=> Elem(p, j, o)
               /\ DataOf(p, o)' <=> DataOf(p, o)
               /\ ValueOf(p, o)' <=> ValueOf(p, o) \/ (p = t /\ o = r)
               /\ SubOf(p, o)' <=> SubOf(p, o)
    <3>1. CASE p = t
      BY <1>1, <1>4, <1>5, <3>1 DEF Elem, DataOf, ValueOf, SubOf
    <3>2. CASE p # t
      BY <1>5, <3>2 DEF Elem, DataOf, ValueOf, SubOf
    <3> QED
      BY <3>1, <3>2
  <2> QED
    BY <2>1 DEF PointersGrow
<1>7. ObjectsStay("value", t)
  <2>1. \A o \in Allocated : o \in Ids /\ (o # t => objects'[o] = objects[o])
    BY <1>1, <1>5 DEF Allocated, Ids
  <2>2. nobjects <= nobjects' /\ nobjects' \in Ids
    BY <1>1 DEF Ids
  <2> QED
    BY <1>1, <1>4, <1>5, <2>1, <2>2 DEF ObjectsStay
<1>8. Sound("value", t, 0, r, {})
  <2>1. objects'[r].is = "value" /\ objects'[r].type # "inline"
    BY <1>1, <1>5
  <2>2. \A o \in Ids : ~ValueOf(t, o)
    BY DEF ValueOf
  <2> QED
    BY <1>1, <2>1, <2>2 DEF Sound
<1>9. Shapes'
  <2>1. \A o \in Ids : o > nobjects' => objects'[o] = new_key
    <3>1. \A o \in Ids : o > nobjects => o # t
      BY <1>1 DEF Ids, Allocated
    <3> QED
      BY <1>5, <3>1 DEF Pointers, Shapes
  <2>2. ASSUME NEW v \in Ids, objects'[v].is = "value" PROVE objects'[v] = objects[v]
    BY <1>4, <1>5, <2>2
  <2>3. ASSUME NEW v \in Ids, objects'[v].is = "value"
        PROVE  /\ \A j \in Indices : objects'[v].arr[j] = NULL <=>
                                        ~(objects'[v].type = "array" /\ j < objects'[v].len)
               /\ objects'[v].data = NULL <=> objects'[v].type # "inline"
    BY <2>2, <2>3 DEF Pointers, Shapes
  <2> QED
    BY <2>1, <2>3 DEF Shapes
<1> QED
  BY <1>5, <1>6, <1>7, <1>8, <1>9

LEMMA PairsEffect ==
    ASSUME Typed, Pointers, NEW t \in Allocated, NEW r \in Allocated, NEW d, NEW subs,
           objects[t].is = "key", objects[r].is = "value", objects[r].type = "inline",
           d = objects[r].data, subs = objects[d].subkeys,
           nobjects' = nobjects, objects' = [objects EXCEPT ![t].subkeys = @ \cup subs]
    PROVE  /\ objects' \in [Ids -> KeyType \cup ValueType] /\ Shapes'
           /\ PointersGrow("none", 1, 0, 1, t, subs) /\ ObjectsStay("none", 1)
           /\ Sound("none", 1, 0, 1, subs)
           /\ \A o \in subs : o \in Ids /\ \E p \in Ids : SubOf(p, o)
<1>1. t \in Ids /\ r \in Ids /\ nobjects \in Ids
  BY DEF Typed, Ids, Allocated, NULL
<1>2. objects[t] \in KeyType /\ objects[r] \in ValueType
  BY <1>1 DEF Typed, KeyType, ValueType
<1>3. d \in Ids /\ objects[d].is = "key"
  <2>1. d # NULL
    BY <1>1 DEF Pointers, Shapes
  <2>2. d \in Ids
    BY <1>2, <2>1 DEF ValueType, Ids, NULL
  <2>3. DataOf(r, d)
    BY <2>1 DEF DataOf
  <2> QED
    BY <1>1, <2>2, <2>3 DEF Pointers, Targets
<1>4. objects[d] \in KeyType
  BY <1>3 DEF Typed, KeyType, ValueType
<1>5. ASSUME NEW o \in subs PROVE o \in Ids /\ SubOf(d, o) /\ o <= nobjects /\ objects[o].is = "key"
  <2>1. o \in Ids /\ SubOf(d, o)
    BY <1>3, <1>4 DEF KeyType, SubOf
  <2> QED
    BY <1>3, <2>1 DEF Pointers, Targets
<1>6. PICK x : x = [objects[t] EXCEPT !.subkeys = @ \cup subs]
  OBVIOUS
<1>7. /\ x \in KeyType /\ x.is = "key" /\ x.value = objects[t].value
      /\ x.subkeys = objects[t].subkeys \cup subs
  BY <1>2, <1>5, <1>6 DEF KeyType
<1>8. /\ objects'[t] = x /\ \A o \in Ids : o # t => objects'[o] = objects[o]
      /\ objects' \in [Ids -> KeyType \cup ValueType]
  BY <1>1, <1>6, <1>7 DEF Typed
<1>9. PointersGrow("none", 1, 0, 1, t, subs)
  <2>1. ASSUME NEW p \in Ids, NEW o \in Ids
        PROVE  /\ \A j \in Indices : Elem(p, j, o)' <=> Elem(p, j, o)
               /\ DataOf(p, o)' <=> DataOf(p, o)
               /\ ValueOf(p, o)' <=> ValueOf(p, o)
               /\ SubOf(p, o)' <=> SubOf(p, o) \/ (p = t /\ o \in subs)
    <3>1. CASE p = t
      BY <1>1, <1>7, <1>8, <3>1 DEF Elem, DataOf, ValueOf, SubOf
    <3>2. CASE p # t
      BY <1>8, <3>2 DEF Elem, DataOf, ValueOf, SubOf
    <3> QED
      BY <3>1, <3>2
  <2> QED
    BY <2>1 DEF PointersGrow
<1>10. ObjectsStay("none", 1)
  <2>1. \A o \in Allocated : o \in Ids /\ (o # t => objects'[o] = objects[o])
    BY <1>1, <1>8 DEF Allocated, Ids
  <2>2. nobjects <= nobjects' /\ nobjects' \in Ids
    BY <1>1 DEF Ids
  <2>3. objects'[t].is = "key" /\ objects'[t].value = objects[t].value
    BY <1>7, <1>8
  <2> QED
    BY <1>1, <2>1, <2>2, <2>3 DEF ObjectsStay
<1>11. Sound("none", 1, 0, 1, subs)
  <2>1. \A o \in subs : objects'[o].is = "key"
    BY <1>5, <1>7, <1>8
  <2> QED
    BY <1>3, <1>5, <2>1 DEF Sound
<1>12. Shapes'
  <2>1. \A o \in Ids : o > nobjects' => objects'[o] = new_key
    <3>1. \A o \in Ids : o > nobjects => o # t
      BY <1>1 DEF Ids, Allocated
    <3> QED
      BY <1>8, <3>1 DEF Pointers, Shapes
  <2>2. ASSUME NEW v \in Ids, objects'[v].is = "value" PROVE objects'[v] = objects[v]
    BY <1>7, <1>8, <2>2
  <2>3. ASSUME NEW v \in Ids, objects'[v].is = "value"
        PROVE  /\ \A j \in Indices : objects'[v].arr[j] = NULL <=>
                                        ~(objects'[v].type = "array" /\ j < objects'[v].len)
               /\ objects'[v].data = NULL <=> objects'[v].type # "inline"
    BY <2>2, <2>3 DEF Pointers, Shapes
  <2> QED
    BY <2>1, <2>3 DEF Shapes
<1> QED
  BY <1>3, <1>5, <1>8, <1>9, <1>10, <1>11, <1>12

KeyTaken == [stack EXCEPT ![Len(stack)].key = NULL]

LEMMA Taken ==
    ASSUME MemInv, mode = "return", mode' = "loop", ret' = NULL, log' = log,
           nobjects' = nobjects, stack' = KeyTaken,
           NEW kind, NEW a, NEW b, NEW c, NEW k, NEW more,
           objects' \in [Ids -> KeyType \cup ValueType], Shapes',
           PointersGrow(kind, a, b, c, k, more), ObjectsStay(kind, a),
           Sound(kind, a, b, c, more),
           \A o \in more : o \in Ids /\ \E p \in Ids : SubOf(p, o),
           \/ kind = "elem" /\ a = Top.obj /\ c = ret /\ b \in Indices
           \/ kind = "value" /\ a = Top.key /\ a # NULL /\ c = ret
           \/ kind = "none" /\ objects[ret].type = "inline"
    PROVE  MemInv'
<1>1. /\ Typed /\ Pointers /\ Unshared /\ Calls /\ Waiting
      /\ nobjects \in Ids /\ ret # NULL
  BY DEF MemInv, Typed, Returned
<1>2. PICK l \in Nat : l = Len(stack) /\ l # 0 /\ l \in 1 .. l
  BY <1>1, TopIs
<1>3. Top = stack[l]
  BY <1>1, <1>2, TopIs
<1>4. Released' /\ log = <<>> /\ Frees = {}
  BY <1>1, NothingFreed
<1>5. PICK last : last = [stack[l] EXCEPT !.key = NULL]
  OBVIOUS
<1>6. last \in Calling /\ last.fun = stack[l].fun /\ last.obj = stack[l].obj /\ last.key = NULL
  BY <1>1, <1>2, <1>5, TopIs DEF Calling, NULL
<1>7. /\ stack' \in Seq(Calling) /\ Len(stack') = l
      /\ stack'[l] = last /\ \A m \in 1 .. l : m # l => stack'[m] = stack[m]
  <2>1. stack \in Seq(Calling) /\ stack' = [stack EXCEPT ![l] = last]
    BY <1>1, <1>2, <1>5 DEF Typed, KeyTaken
  <2> QED
    BY <1>2, <1>6, <2>1
<1>8. Typed'
  <2>1. log' \in Seq(Allocated') /\ mode' \in Modes
    BY <1>4 DEF Modes
  <2>2. nobjects' \in Ids /\ ret' \in 0 .. nobjects'
    BY <1>1 DEF Ids, NULL
  <2> QED
    BY <1>7, <2>1, <2>2 DEF Typed
<1>9. Pointers' /\ Unshared'
  BY <1>1, TargetsStay, UnsharedStays DEF Pointers
<1>10. \A m \in 1 .. l : m < l \/ m = l
  BY <1>2
<1>11. ASSUME NEW m \in 1 .. l, NEW call, call = stack[m]
       PROVE  /\ call.obj \in Allocated'
              /\ Loose(call.obj)'
              /\ call.fun = "array" => /\ objects'[call.obj].is = "value"
                                       /\ objects'[call.obj].type = "array" /\ call.key = NULL
              /\ call.fun # "array" => objects'[call.obj].is = "key"
                                       /\ objects'[call.obj].value = NULL
              /\ call.fun # "array" => call.key # NULL
              /\ call.fun = "array" /\ m < l => Room(call.obj)'
              /\ call.key # NULL /\ m < l
                    => /\ call.key \in Allocated'
                       /\ objects'[call.key].is = "key" /\ objects'[call.key].value = NULL
                       /\ \A p \in Ids : ~DataOf(p, call.key)'
  <2>1. /\ call.obj \in Allocated /\ Loose(call.obj) /\ call.obj # ret
        /\ call.fun = "array" => Room(call.obj)
        /\ call.fun # "array" => call.key # NULL
    <3>1. call.obj < ret /\ call.obj \in Ids /\ call.obj # ret
      <4>1. call.obj < ret /\ call.obj \in Ids
        BY <1>1, <1>2, <1>11, TopIs DEF MemInv, Returned
      <4> QED
        BY <4>1 DEF Ids
    <3> QED
      BY <1>1, <1>2, <1>11, <3>1 DEF Calls
  <2>2. call.obj \notin more
    BY <2>1 DEF Loose
  <2>3. kind = "value" => a # call.obj
    BY <1>1, <1>2, <1>3, <1>11 DEF Waiting
  <2>4. m < l => ~(kind = "elem" /\ a = call.obj)
    <3>1. m < l => call.obj < stack[l].obj
      BY <1>1, <1>2, <1>11 DEF Calls
    <3>2. call.obj \in Ids
      BY <1>1, <1>2, <1>11, TopIs
    <3> QED
      BY <1>3, <3>1, <3>2 DEF Ids
  <2>5. m < l /\ call.key # NULL => ~(kind = "value" /\ a = call.key)
    BY <1>1, <1>2, <1>3, <1>11 DEF Waiting
  <2>6. /\ kind # "none" => c # call.obj
        /\ kind # "data"
    BY <2>1
  <2>7. /\ call.obj \in Allocated'
        /\ Loose(call.obj)'
        /\ call.fun = "array" => /\ objects'[call.obj].is = "value"
                                 /\ objects'[call.obj].type = "array" /\ call.key = NULL
        /\ call.fun # "array" => objects'[call.obj].is = "key"
                                 /\ objects'[call.obj].value = NULL
        /\ call.fun = "array" /\ Room(call.obj) /\ ~(kind = "elem" /\ a = call.obj)
              => Room(call.obj)'
        /\ call.key # NULL /\ ~(kind = "value" /\ a = call.key)
              => /\ call.key \in Allocated'
                 /\ objects'[call.key].is = "key" /\ objects'[call.key].value = NULL
                 /\ \A p \in Ids : ~DataOf(p, call.key)'
    BY <1>1, <1>2, <1>11, <2>2, <2>3, <2>6, CallStays
  <2> QED
    BY <2>1, <2>4, <2>5, <2>7
<1>12. \A m \in 1 .. l : /\ stack'[m].obj = stack[m].obj /\ stack'[m].fun = stack[m].fun
                         /\ stack'[m].key = IF m = l THEN NULL ELSE stack[m].key
  BY <1>6, <1>7
<1>13. Calls'
  <2>1. stack' # <<>> /\ stack'[1].obj = Root
    BY <1>1, <1>2, <1>7, <1>12 DEF Calls
  <2>2. ASSUME NEW m \in 1 .. l, NEW call, call = stack'[m]
        PROVE  /\ call.fun = "keyval" <=> m = 1
               /\ call.obj \in Allocated' /\ Loose(call.obj)'
               /\ call.fun = "array"  => /\ objects'[call.obj].is = "value"
                                         /\ objects'[call.obj].type = "array"
                                         /\ call.key = NULL
               /\ call.fun # "array"  => /\ objects'[call.obj].is = "key"
                                         /\ objects'[call.obj].value = NULL
               /\ call.fun # "array" /\ m < l => call.key # NULL
               /\ call.fun = "array" /\ m < l => Room(call.obj)'
    <3>1. PICK old : old = stack[m]
      OBVIOUS
    <3>2. old.fun = "keyval" <=> m = 1
      BY <1>1, <1>2, <3>1 DEF Calls
    <3>3. call.fun = old.fun /\ call.obj = old.obj
      BY <1>12, <2>2, <3>1
    <3>4. call.key = IF m = l THEN NULL ELSE old.key
      BY <1>12, <2>2, <3>1
    <3>5. m < l => m # l
      BY <1>2
    <3> QED
      BY <1>11, <3>1, <3>2, <3>3, <3>4, <3>5
  <2>3. \A m, o \in 1 .. l : m < o => stack'[m].obj < stack'[o].obj
    BY <1>1, <1>2, <1>12 DEF Calls
  <2>4. mode' \notin {"value", "return", "done", "failed", "freed"}
    OBVIOUS
  <2> QED
    BY <1>7, <2>1, <2>2, <2>3, <2>4 DEF Calls
<1>14. Waiting'
  <2>1. ASSUME NEW m \in 1 .. l, NEW x, x = stack'[m].key, x # NULL
        PROVE  /\ x \in Allocated'
               /\ objects'[x].is = "key" /\ objects'[x].value = NULL
               /\ \A p \in Ids : ~DataOf(p, x)'
    <3>1. PICK call : call = stack[m]
      OBVIOUS
    <3>2. x = call.key /\ m < l
      BY <1>10, <1>12, <2>1, <3>1
    <3> QED
      BY <1>11, <2>1, <3>1, <3>2
  <2>2. \A m, o \in 1 .. l : /\ stack'[m].key # NULL => stack'[o].obj # stack'[m].key
                             /\ stack'[m].key = stack'[o].key /\ stack'[m].key # NULL => m = o
    BY <1>1, <1>2, <1>12 DEF Waiting
  <2>3. \A m, o \in 1 .. l : m < o => stack'[m].key < stack'[o].obj
    <3>1. \A m, o \in 1 .. l : m < o => m # l
      BY <1>2
    <3> QED
      BY <1>1, <1>2, <1>12, <3>1 DEF Waiting
  <2> QED
    BY <1>7, <2>1, <2>2, <2>3 DEF Waiting
<1>15. Returned'
  BY DEF Returned
<1>16. Owned'
  <2>1. ASSUME NEW o \in Ids, nobjects < o, o \in Values' PROVE Kept(o)'
    BY <1>1, <2>1 DEF Values, Ids
  <2>2. ASSUME NEW o \in Values, o = ret PROVE Kept(o)'
    <3>1. kind # "none" /\ o \in Ids /\ a \in Ids
      BY <1>1, <2>2 DEF Values, Ids, Sound
    <3> QED
      BY <2>2, <3>1 DEF Kept, PointersGrow
  <2>3. \A m \in 1 .. Len(stack) : m \in 1 .. Len(stack') /\ stack'[m].obj = stack[m].obj
    BY <1>2, <1>7, <1>12
  <2> QED
    BY <2>1, <2>2, <2>3, OwnedStays
<1> QED
  BY <1>4, <1>8, <1>9, <1>13, <1>14, <1>15, <1>16 DEF MemInv

LEMMA TakeStays == ASSUME MemInv, Take PROVE MemInv'
<1>1. /\ mode = "return" /\ mode' = "loop" /\ ret' = NULL /\ log' = log
      /\ nobjects' = nobjects /\ stack' = KeyTaken
  BY DEF Take, KeyTaken
<1>2. /\ Typed /\ Pointers /\ Calls /\ Waiting
  BY DEF MemInv
<1>3. PICK r : r = ret
  OBVIOUS
<1>4. r \in Allocated /\ objects[r].is = "value" /\ Loose(r)
  <2>1. r # NULL /\ r \in 0 .. nobjects /\ nobjects \in Ids
    BY <1>1, <1>3 DEF MemInv, Returned, Typed
  <2> QED
    BY <1>3, <2>1 DEF MemInv, Returned, Allocated, NULL, Ids
<1>5. PICK t : t = Top.obj
  OBVIOUS
<1>6. PICK k : k = Top.key
  OBVIOUS
<1>7. t < r /\ k < r /\ t \in Allocated
  BY <1>1, <1>2, <1>3, <1>4, <1>5, <1>6, TopIs DEF MemInv, Returned, Calls
<1>8. CASE Top.fun = "array"
  <2>1. objects[t].is = "value" /\ objects[t].type = "array" /\ Room(t)
    BY <1>1, <1>2, <1>5, <1>8, TopIs DEF Calls
  <2>2. PICK i : i = objects[t].len
    OBVIOUS
  <2>3. objects' = [objects EXCEPT ![t].arr = [@ EXCEPT ![i] = r], ![t].len = i + 1]
    BY <1>3, <1>5, <1>8, <2>2 DEF Take
  <2>4. /\ objects' \in [Ids -> KeyType \cup ValueType] /\ Shapes' /\ i \in Indices
        /\ PointersGrow("elem", t, i, r, 1, {}) /\ ObjectsStay("elem", t)
        /\ Sound("elem", t, i, r, {})
    BY <1>1, <1>2, <1>4, <1>7, <2>1, <2>2, <2>3, ElementEffect
  <2> QED
    BY <1>1, <1>3, <1>5, <2>4, Taken
<1>9. CASE Top.fun # "array"
  <2>1. /\ k # NULL /\ k \in Allocated /\ objects[k].is = "key" /\ objects[k].value = NULL
        /\ \A p \in Ids : ~DataOf(p, k)
    BY <1>1, <1>2, <1>6, <1>9, TopIs DEF Calls, Waiting
  <2>2. CASE objects[r].type = "inline"
    <3>1. PICK d : d = objects[r].data
      OBVIOUS
    <3>2. PICK subs : subs = objects[d].subkeys
      OBVIOUS
    <3>3. objects' = [objects EXCEPT ![k].subkeys = @ \cup subs]
      BY <1>3, <1>6, <1>9, <2>2, <3>1, <3>2 DEF Take
    <3>4. /\ objects' \in [Ids -> KeyType \cup ValueType] /\ Shapes'
          /\ PointersGrow("none", 1, 0, 1, k, subs) /\ ObjectsStay("none", 1)
          /\ Sound("none", 1, 0, 1, subs)
          /\ \A o \in subs : o \in Ids /\ \E p \in Ids : SubOf(p, o)
      BY <1>1, <1>2, <1>4, <2>1, <2>2, <3>1, <3>2, <3>3, PairsEffect
    <3> QED
      BY <1>1, <1>3, <2>2, <3>4, Taken
  <2>3. CASE objects[r].type # "inline"
    <3>1. objects' = [objects EXCEPT ![k].value = r]
      BY <1>3, <1>6, <1>9, <2>3 DEF Take
    <3>2. /\ objects' \in [Ids -> KeyType \cup ValueType] /\ Shapes'
          /\ PointersGrow("value", k, 0, r, 1, {}) /\ ObjectsStay("value", k)
          /\ Sound("value", k, 0, r, {})
      BY <1>1, <1>2, <1>4, <1>7, <2>1, <2>3, <3>1, ValueEffect
    <3> QED
      BY <1>1, <1>3, <1>6, <2>1, <3>2, Taken
  <2> QED
    BY <2>2, <2>3
<1> QED
  BY <1>8, <1>9

(***************************************************************************)
(* The heap and the calls keep their shape, and nothing is freed that is   *)
(* in use or was freed before, whichever calls fail.                       *)
(***************************************************************************)
LEMMA MemNext == ASSUME MemInv, [Next]_vars PROVE MemInv'
<1>1. CASE Element \/ Malformed \/ Finish
  <2>1. SameHeap /\ UNCHANGED <<stack, ret>>
    BY <1>1 DEF Element, Malformed, Finish, Halts, SameHeap
  <2>2. log' = log
    BY <1>1 DEF Element, Malformed, Finish, Halts, MemInv, Typed
  <2> QED
    BY <1>1, <2>1, <2>2, ModeChanges
<1>2. CASE Stopped \/ UNCHANGED vars
  <2>1. SameHeap /\ UNCHANGED <<stack, mode, ret, log>>
    BY <1>2 DEF Stopped, vars, SameHeap
  <2>2. Typed'
    BY <2>1 DEF MemInv, Typed, SameHeap, Allocated
  <2>3. Pointers' /\ Unshared'
    BY <2>1, SamePointers DEF MemInv
  <2>4. Calls'
    BY <2>1, SamePointers DEF MemInv, Calls, SameHeap
  <2>5. Waiting' /\ Returned'
    BY <2>1, SamePointers DEF MemInv, Waiting, Returned, SameHeap
  <2>6. Released'
    BY <2>1, SamePointers DEF MemInv, Released, Frees
  <2>7. Owned'
    BY <2>1, SamePointers DEF MemInv, Owned, Kept, SameHeap, Frees
  <2> QED
    BY <2>2, <2>3, <2>4, <2>5, <2>6, <2>7 DEF MemInv
<1> QED
  BY <1>1, <1>2, PairStays, ScalarStays, OpenStays, CloseArrayStays, CloseInlineStays, TakeStays,
     LeftOpenStays, UnwindStays, TomlFreeStays DEF Next

LEMMA MemoryInv == Spec => []MemInv
<1>1. Init => MemInv
  BY MemInit
<1>2. MemInv /\ [Next]_vars => MemInv'
  BY MemNext
<1> QED
  BY <1>1, <1>2, PTL DEF Spec

-----------------------------------------------------------------------------
(* What can be reached, and the properties that follow. *)

Step1(roots, f, n) == IF n = 0 THEN roots
                      ELSE f[n - 1] \cup UNION {Refs(o) : o \in f[n - 1]}

LEMMA ReachedIs ==
    ASSUME NEW roots
    PROVE  \E f : /\ Reached(roots) = f[MaxObjects]
                  /\ \A n \in 0 .. MaxObjects : f[n] = Step1(roots, f, n)
<1> DEFINE Right(f, n) == /\ f = [i \in 0 .. n |-> f[i]]
                          /\ \A i \in 0 .. n : f[i] = Step1(roots, f, i)
           T == {n \in Nat : \E f : Right(f, n)}
<1>1. 0 \in T
  <2>1. PICK f : f = [i \in 0 .. 0 |-> roots]
    OBVIOUS
  <2>2. f = [i \in 0 .. 0 |-> f[i]]
    BY <2>1
  <2>3. \A i \in 0 .. 0 : i = 0 /\ f[i] = roots
    BY <2>1
  <2>4. \A i \in 0 .. 0 : f[i] = Step1(roots, f, i)
    BY <2>3 DEF Step1
  <2> QED
    BY <2>2, <2>4
<1>2. ASSUME NEW n \in Nat, n \in T PROVE n + 1 \in T
  <2>1. PICK f : Right(f, n)
    <3> HIDE DEF Right
    <3> QED
      BY <1>2
  <2>2. PICK last : last = f[n] \cup UNION {Refs(o) : o \in f[n]}
    OBVIOUS
  <2>3. PICK g : g = [i \in 0 .. n + 1 |-> IF i = n + 1 THEN last ELSE f[i]]
    OBVIOUS
  <2>4. g = [i \in 0 .. n + 1 |-> g[i]]
    BY <2>3
  <2>5. /\ \A i \in 0 .. n : i \in 0 .. n + 1 /\ i # n + 1 /\ (i # 0 => i - 1 \in 0 .. n)
        /\ \A i \in 0 .. n + 1 : i \in 0 .. n \/ i = n + 1
        /\ n + 1 \in 0 .. n + 1 /\ n \in 0 .. n /\ (n + 1) - 1 = n /\ n + 1 # 0
    OBVIOUS
  <2>6. \A i \in 0 .. n : g[i] = f[i]
    BY <2>3, <2>5
  <2>7. ASSUME NEW i \in 0 .. n PROVE g[i] = Step1(roots, g, i)
    <3>1. f[i] = Step1(roots, f, i) /\ g[i] = f[i]
      BY <2>1, <2>6
    <3>2. i # 0 => g[i - 1] = f[i - 1]
      BY <2>5, <2>6
    <3> QED
      BY <3>1, <3>2 DEF Step1
  <2>8. g[n + 1] = Step1(roots, g, n + 1)
    <3>1. g[n + 1] = last /\ g[(n + 1) - 1] = f[n]
      BY <2>3, <2>5, <2>6
    <3> QED
      BY <2>2, <2>5, <3>1, Zenon DEF Step1
  <2>9. \A i \in 0 .. n + 1 : g[i] = Step1(roots, g, i)
    BY <2>5, <2>7, <2>8
  <2> QED
    BY <2>4, <2>9
<1>3. MaxObjects \in T
  <2>1. Nat \subseteq T
    <3> HIDE DEF T
    <3> QED
      BY <1>1, <1>2, NatInducts
  <2> HIDE DEF T
  <2> QED
    BY <2>1
<1>4. PICK h : Right(h, MaxObjects)
  <2> HIDE DEF Right
  <2> QED
    BY <1>3
<1> DEFINE reached == CHOOSE f : f = [n \in 0 .. MaxObjects |->
                                        IF n = 0 THEN roots
                                        ELSE f[n - 1] \cup UNION {Refs(o) : o \in f[n - 1]}]
<1>5. h = [n \in 0 .. MaxObjects |->
             IF n = 0 THEN roots ELSE h[n - 1] \cup UNION {Refs(o) : o \in h[n - 1]}]
  BY <1>4 DEF Step1
<1>6. reached = [n \in 0 .. MaxObjects |->
             IF n = 0 THEN roots
             ELSE reached[n - 1] \cup UNION {Refs(o) : o \in reached[n - 1]}]
  BY <1>5, Zenon
<1>7. Reached(roots) = reached[MaxObjects]
  BY Zenon DEF Reached
<1> HIDE DEF reached
<1>8. \A n \in 0 .. MaxObjects : reached[n] = Step1(roots, reached, n)
  BY <1>6, Zenon DEF Step1
<1> QED
  BY <1>7, <1>8

\* A set that no pointer leaves has everything that is reached from within.
LEMMA ReachedWithin ==
    ASSUME NEW G, NEW roots, roots \subseteq G, \A o \in G : Refs(o) \subseteq G
    PROVE  Reached(roots) \subseteq G
<1>1. PICK f : /\ Reached(roots) = f[MaxObjects]
               /\ \A n \in 0 .. MaxObjects : f[n] = Step1(roots, f, n)
  BY ReachedIs
<1> DEFINE T == {n \in Nat : n <= MaxObjects => f[n] \subseteq G}
<1>2. 0 \in T
  <2>1. 0 \in 0 .. MaxObjects
    OBVIOUS
  <2>2. f[0] = roots
    BY <1>1, <2>1 DEF Step1
  <2> QED
    BY <2>2
<1>3. ASSUME NEW n \in Nat, n \in T PROVE n + 1 \in T
  <2> SUFFICES ASSUME n + 1 <= MaxObjects PROVE f[n + 1] \subseteq G
    OBVIOUS
  <2>1. n + 1 \in 0 .. MaxObjects /\ n + 1 # 0 /\ (n + 1) - 1 = n /\ n <= MaxObjects
    OBVIOUS
  <2>2. f[n] \subseteq G
    BY <1>3, <2>1
  <2>3. f[n + 1] = f[n] \cup UNION {Refs(o) : o \in f[n]}
    BY <1>1, <2>1 DEF Step1
  <2> QED
    BY <2>2, <2>3
<1>4. MaxObjects \in T
  <2>1. Nat \subseteq T
    <3> HIDE DEF T
    <3> QED
      BY <1>2, <1>3, NatInducts
  <2> HIDE DEF T
  <2> QED
    BY <2>1
<1> QED
  BY <1>1, <1>4

(***************************************************************************)
(* Objects, calls and the log of what free() got have their types, and     *)
(* arrays stay within their bounds.                                        *)
(***************************************************************************)
THEOREM MemoryTyped == Spec => []TypeOK
<1>1. MemInv => TypeOK
  <2> SUFFICES ASSUME MemInv PROVE TypeOK
    OBVIOUS
  <2>1. Typed
    BY DEF MemInv
  <2>2. Range(log) \subseteq 1 .. nobjects
    BY <2>1, RangeIs DEF Typed, Allocated
  <2>3. \A i \in 1 .. Len(stack) : stack[i] \in Calling
    BY <2>1, AtIsIn DEF Typed
  <2> QED
    BY <2>1, <2>2, <2>3 DEF Typed, TypeOK, Modes, Calling
<1> QED
  BY <1>1, MemoryInv, PTL

(***************************************************************************)
(* delete_value and delete_key free no object twice, however the failures  *)
(* of nested parse_array and parse_inlinetable follow each other.          *)
(***************************************************************************)
THEOREM NothingFreedTwice == Spec => []FreedOnce
<1>1. MemInv => FreedOnce
  BY OnceCounted DEF MemInv, Typed, Released, FreedOnce
<1> QED
  BY <1>1, MemoryInv, PTL

(***************************************************************************)
(* What the calls that still run can reach has not been freed: no call     *)
(* uses what a failed call below it has deleted.                           *)
(***************************************************************************)
THEOREM NothingInUseFreed == Spec => []NothingDangles
<1>1. MemInv => NothingDangles
  <2> SUFFICES ASSUME MemInv, mode \notin {"failed", "freed", "undefined"}
               PROVE  Reached(Held) \cap Range(log) = {}
    BY DEF NothingDangles
  <2>1. CASE mode # "failing"
    <3>1. mode \in {"loop", "value", "return", "done"}
      BY <2>1 DEF MemInv, Typed, Modes
    <3>2. log = <<>>
      BY <3>1 DEF MemInv, Released
    <3> QED
      BY <3>2 DEF Range
  <2>2. CASE mode = "failing"
    <3> DEFINE G == Ids \ Frees
    <3>1. Held \subseteq G
      <4>1. ret = NULL
        BY <2>2 DEF MemInv, Returned
      <4>2. \A i \in 1 .. Len(stack) : /\ stack[i].obj \in Ids /\ stack[i].key \in 0 .. MaxObjects
                                       /\ stack[i].obj \notin Frees /\ stack[i].key \notin Frees
        BY <2>2, TopIs DEF MemInv, Released
      <4>3. \A x \in 0 .. MaxObjects : x # NULL => x \in Ids
        BY DEF Ids, NULL
      <4>4. ASSUME NEW x \in Held PROVE x \in G
        <5>1. x # NULL /\ \E i \in 1 .. Len(stack) : x = stack[i].obj \/ x = stack[i].key
          BY <4>1, <4>4 DEF Held
        <5> QED
          BY <4>2, <4>3, <5>1
      <4> QED
        BY <4>4
    <3>2. ASSUME NEW o \in G, NEW x \in Refs(o) PROVE x \in G
      <4>1. o \in Ids /\ o \notin Frees /\ x # NULL
            /\ (objects[o] \in KeyType \/ objects[o] \in ValueType)
        BY <3>2 DEF Refs, MemInv, Typed
      <4>2. CASE objects[o] \in KeyType
        <5>1. objects[o].is = "key" /\ (x \in objects[o].subkeys \/ x = objects[o].value)
          BY <3>2, <4>2 DEF Refs, KeyType
        <5>2. x \in Ids
          BY <4>1, <4>2, <5>1 DEF KeyType, Ids, NULL
        <5>3. SubOf(o, x) \/ ValueOf(o, x)
          BY <4>1, <5>1 DEF SubOf, ValueOf
        <5> QED
          BY <4>1, <5>2, <5>3 DEF MemInv, Released
      <4>3. CASE objects[o] \in ValueType
        <5>1. objects[o].is = "value" /\ objects[o].arr \in [Indices -> 0 .. MaxObjects]
              /\ objects[o].data \in 0 .. MaxObjects
          BY <4>3 DEF ValueType
        <5>2. (\E i \in Indices : x = objects[o].arr[i]) \/ x = objects[o].data
          BY <3>2, <5>1 DEF Refs, Range
        <5>3. x \in Ids
          BY <4>1, <5>1, <5>2 DEF Ids, NULL
        <5>4. (\E i \in Indices : Elem(o, i, x)) \/ DataOf(o, x)
          BY <4>1, <5>1, <5>2 DEF Elem, DataOf
        <5> QED
          BY <4>1, <5>3, <5>4 DEF MemInv, Released
      <4> QED
        BY <4>1, <4>2, <4>3
    <3>3. Reached(Held) \subseteq G
      <4> HIDE DEF G
      <4> QED
        BY <3>1, <3>2, ReachedWithin
    <3> QED
      BY <3>3 DEF Frees
  <2> QED
    BY <2>1, <2>2
<1> QED
  BY <1>1, MemoryInv, PTL

(***************************************************************************)
(* When parse_keyval has failed no value is lost: an array that parse_array*)
(* could not finish is freed with its elements, at any depth, and every    *)
(* other value hangs on a key.  (This is about values that are not of      *)
(* inline tables; those are lost.)                                         *)
(***************************************************************************)
THEOREM ArraysOfFailuresFreed == Spec => []FailedArraysFreed
<1>1. MemInv => FailedArraysFreed
  <2> SUFFICES ASSUME MemInv, mode = "failed" PROVE Values \subseteq Range(log) \cup Reached(Keys)
    BY DEF FailedArraysFreed
  <2>1. PICK f : /\ Reached(Keys) = f[MaxObjects]
                 /\ \A n \in 0 .. MaxObjects : f[n] = Step1(Keys, f, n)
    BY ReachedIs
  <2>2. ASSUME NEW m \in 1 .. MaxObjects
        PROVE  f[m - 1] \subseteq f[m] /\ \A o \in f[m - 1] : Refs(o) \subseteq f[m]
    <3>1. m \in 0 .. MaxObjects /\ m # 0
      OBVIOUS
    <3>2. f[m] = f[m - 1] \cup UNION {Refs(o) : o \in f[m - 1]}
      BY <2>1, <3>1 DEF Step1
    <3> QED
      BY <3>2
  <2>3. \A m \in 0 .. MaxObjects : \A n \in 0 .. MaxObjects : m <= n => f[m] \subseteq f[n]
    <3> SUFFICES ASSUME NEW m \in 0 .. MaxObjects
                 PROVE  \A n \in 0 .. MaxObjects : m <= n => f[m] \subseteq f[n]
      OBVIOUS
    <3> DEFINE T == {n \in Nat : n <= MaxObjects /\ m <= n => f[m] \subseteq f[n]}
    <3>1. 0 \in T
      OBVIOUS
    <3>2. ASSUME NEW n \in Nat, n \in T PROVE n + 1 \in T
      <4> SUFFICES ASSUME n + 1 <= MaxObjects, m <= n + 1 PROVE f[m] \subseteq f[n + 1]
        OBVIOUS
      <4>1. CASE m = n + 1
        BY <4>1
      <4>2. CASE m # n + 1
        <5>1. m <= n /\ n <= MaxObjects /\ n + 1 \in 1 .. MaxObjects /\ (n + 1) - 1 = n
          BY <4>2
        <5>2. f[m] \subseteq f[n]
          BY <3>2, <5>1
        <5>3. f[n] \subseteq f[n + 1]
          BY <2>2, <5>1
        <5> QED
          BY <5>2, <5>3
      <4> QED
        BY <4>1, <4>2
    <3>3. Nat \subseteq T
      <4> HIDE DEF T
      <4> QED
        BY <3>1, <3>2, NatInducts
    <3> QED
      BY <3>3
  <2>4. f[0] = Keys
    <3>1. 0 \in 0 .. MaxObjects
      OBVIOUS
    <3> QED
      BY <2>1, <3>1 DEF Step1
  <2> DEFINE Lost == {v \in Values : v \notin Frees /\ v \notin f[v]}
  <2>5. \A v \in Values : v \in Ids /\ v \in Nat /\ objects[v].is = "value"
                          /\ objects[v].type # "inline"
    BY DEF Values, MemInv, Typed, Ids
  <2>6. Lost = {}
    <3> SUFFICES ASSUME Lost # {} PROVE FALSE
      OBVIOUS
    <3>1. PICK v \in Lost : \A w \in Lost : v <= w
      <4>1. Lost \subseteq Nat
        BY <2>5
      <4> HIDE DEF Lost
      <4>2. [w \in Lost |-> w] \in [Lost -> Nat]
        BY <4>1
      <4>3. PICK v \in Lost : \A w \in Lost : [z \in Lost |-> z][v] <= [z \in Lost |-> z][w]
        BY <4>2, LeastRank
      <4> QED
        BY <4>3
    <3>2. v \in Values /\ v \notin Frees /\ v \notin f[v] /\ v \in Ids /\ v \in Nat
          /\ objects[v].is = "value"
      BY <2>5, <3>1
    <3>3. v # ret /\ \A n \in 1 .. Len(stack) : stack[n].obj # v
      <4>1. ret = NULL /\ Len(stack) = 1
        BY DEF MemInv, Returned, Calls
      <4>2. \A n \in 1 .. Len(stack) : n = 1 /\ stack[n].fun = "keyval"
        BY <4>1 DEF MemInv, Calls
      <4>3. \A n \in 1 .. Len(stack) : objects[stack[n].obj].is = "key"
        BY <4>2 DEF MemInv, Calls
      <4> QED
        BY <3>2, <4>1, <4>3 DEF NULL, Ids
    <3>4. PICK p \in Ids : (\E i \in Indices : Elem(p, i, v)) \/ ValueOf(p, v)
      BY <3>2, <3>3 DEF MemInv, Owned, Kept
    <3>5. p < v /\ p \in Nat /\ p <= nobjects
      <4>1. p < v /\ v <= nobjects
        BY <3>2, <3>4 DEF MemInv, Pointers, Targets
      <4>2. nobjects \in Nat
        BY DEF MemInv, Typed, Ids
      <4> QED
        BY <3>2, <4>1, <4>2 DEF Ids
    <3>6. v - 1 \in 0 .. MaxObjects /\ v \in 1 .. MaxObjects /\ p <= v - 1 /\ 0 <= v - 1
          /\ p \in 0 .. MaxObjects /\ 0 \in 0 .. MaxObjects
      BY <3>2, <3>5 DEF Ids
    <3>7. p \notin f[v - 1]
      <4>1. v \in Refs(p)
        <5>1. objects[p] \in KeyType \/ objects[p] \in ValueType
          BY DEF MemInv, Typed
        <5>2. v # NULL
          BY <3>2 DEF Ids, NULL
        <5>3. CASE ValueOf(p, v)
          BY <5>2, <5>3 DEF ValueOf, Refs
        <5>4. CASE \E i \in Indices : Elem(p, i, v)
          <6>1. PICK i \in Indices : objects[p].arr[i] = v /\ objects[p].is = "value"
            BY <5>4 DEF Elem
          <6>2. objects[p].arr \in [Indices -> 0 .. MaxObjects]
            BY <5>1, <6>1 DEF KeyType, ValueType
          <6>3. v \in Range(objects[p].arr)
            BY <6>1, <6>2 DEF Range
          <6> QED
            BY <5>2, <6>1, <6>3 DEF Refs
        <5> QED
          BY <3>4, <5>3, <5>4
      <4> QED
        BY <2>2, <3>2, <3>6, <4>1
    <3>8. CASE ValueOf(p, v)
      <4>1. p \in Keys
        BY <3>5, <3>8 DEF ValueOf, Keys, Ids
      <4>2. f[0] \subseteq f[v - 1]
        BY <2>3, <3>6
      <4> QED
        BY <2>4, <3>7, <4>1, <4>2
    <3>9. CASE \E i \in Indices : Elem(p, i, v)
      <4>1. PICK i \in Indices : Elem(p, i, v)
        BY <3>9
      <4>2. objects[p].is = "value" /\ objects[p].type = "array"
        BY <4>1 DEF Elem, MemInv, Pointers, Shapes
      <4>3. p \in Values
        BY <3>5, <4>2 DEF Values, Ids
      <4>4. p \notin Frees
        BY <3>2, <4>1 DEF MemInv, Released
      <4>5. p \in f[p]
        <5>1. p \notin Lost
          BY <3>1, <3>2, <3>5
        <5> QED
          BY <4>3, <4>4, <5>1
      <4>6. f[p] \subseteq f[v - 1]
        BY <2>3, <3>6
      <4> QED
        BY <3>7, <4>5, <4>6
    <3> QED
      BY <3>4, <3>8, <3>9
  <2>7. ASSUME NEW v \in Values PROVE v \in Range(log) \cup Reached(Keys)
    <3>1. v \in Frees \/ v \in f[v]
      BY <2>6
    <3>2. v \in 0 .. MaxObjects /\ MaxObjects \in 0 .. MaxObjects /\ v <= MaxObjects
      BY <2>5 DEF Ids
    <3>3. f[v] \subseteq f[MaxObjects]
      BY <2>3, <3>2
    <3> QED
      BY <2>1, <3>1, <3>3 DEF Frees
  <2> QED
    BY <2>7
<1> QED
  BY <1>1, MemoryInv, PTL
=============================================================================
