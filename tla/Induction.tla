------------------------------ MODULE Induction ------------------------------
(***************************************************************************)
(* Induction over numbers, ranks and loops.  The induction theorems of the *)
(* library have an operator as a parameter; those here, which rest on its  *)
(* WFMin, have sets and functions instead.                                 *)
(***************************************************************************)
EXTENDS Integers, WellFoundedInduction, TLAPS

\* A set of natural numbers that is closed under successors is all of them.
LEMMA NatInducts ==
    ASSUME NEW S, 0 \in S, \A n \in Nat : n \in S => n + 1 \in S
    PROVE  Nat \subseteq S
<1> DEFINE T == Nat \ S
<1> SUFFICES ASSUME T # {} PROVE FALSE
  OBVIOUS
<1>1. PICK m \in T : \A n \in T : ~(<<n, m>> \in OpToRel(<, Nat))
  <2> HIDE DEF T
  <2>1. T \subseteq Nat
    BY DEF T
  <2> QED
    BY <2>1, WFMin, NatLessThanWellFounded
<1>2. \A n \in T : ~(n < m)
  BY <1>1 DEF OpToRel
<1>3. m # 0 /\ m - 1 \in Nat
  OBVIOUS
<1>4. m - 1 \in T
  BY <1>3
<1> QED
  BY <1>2, <1>4

\* A non-empty set with a rank has an element of the least rank.
LEMMA LeastRank ==
    ASSUME NEW T, T # {}, NEW rank \in [T -> Nat]
    PROVE  \E x \in T : \A y \in T : rank[x] <= rank[y]
<1> DEFINE R == {rank[x] : x \in T}
<1>1. PICK m \in R : \A n \in R : ~(<<n, m>> \in OpToRel(<, Nat))
  <2>1. R \subseteq Nat /\ R # {}
    OBVIOUS
  <2> HIDE DEF R
  <2> QED
    BY <2>1, WFMin, NatLessThanWellFounded
<1>2. R \subseteq Nat
  OBVIOUS
<1>3. \A n \in R : m <= n
  <2> HIDE DEF R
  <2>1. \A n \in R : ~(n < m)
    BY <1>1, <1>2 DEF OpToRel
  <2> QED
    BY <1>2, <2>1
<1> QED
  BY <1>3

\* A set that has every number up to N whose successors up to N it has.
LEMMA DownInducts ==
    ASSUME NEW N \in Nat, NEW S,
           \A k \in 1 .. N : (\A j \in k + 1 .. N : j \in S) => k \in S
    PROVE  1 .. N \subseteq S
<1> DEFINE T == 1 .. N \ S
<1> SUFFICES ASSUME T # {} PROVE FALSE
  OBVIOUS
<1>1. PICK k \in T : \A j \in T : N - k <= N - j
  <2>1. T \subseteq 1 .. N /\ T # {}
    OBVIOUS
  <2> HIDE DEF T
  <2> DEFINE rank == [j \in T |-> N - j]
  <2>2. rank \in [T -> Nat]
    BY <2>1
  <2> HIDE DEF rank
  <2>3. PICK k \in T : \A j \in T : rank[k] <= rank[j]
    BY <2>1, <2>2, LeastRank
  <2> QED
    BY <2>3 DEF rank
<1>2. k \in 1 .. N /\ k \notin S
  OBVIOUS
<1>3. PICK j \in k + 1 .. N : j \notin S
  BY <1>2
<1>4. j \in T /\ ~(N - k <= N - j)
  BY <1>2, <1>3
<1> QED
  BY <1>1, <1>4

(***************************************************************************)
(* A loop whose rank falls with every turn has a result: some function     *)
(* takes each state to the one in which the loop that starts there stops.  *)
(***************************************************************************)
Falls(W, next, stop, rank) ==
    /\ next \in [W -> W] /\ rank \in [W -> Nat]
    /\ \A w \in W : w \in stop \/ rank[next[w]] < rank[w]

Iterates(W, next, stop, g) ==
    /\ g \in [W -> W]
    /\ \A w \in W : /\ w \in stop => g[w] = w
                    /\ w \notin stop => g[w] = g[next[w]]

LEMMA LoopsEnd ==
    ASSUME NEW W, NEW next, NEW stop, NEW rank, Falls(W, next, stop, rank)
    PROVE  \E g : Iterates(W, next, stop, g)
<1> USE DEF Falls
<1> DEFINE Closed(S) == \A u \in S \ stop : next[u] \in S
           Orbit(w)  == {v \in W : \A S \in SUBSET W : w \in S /\ Closed(S) => v \in S}
           Result(w) == CHOOSE v : v \in Orbit(w) \cap stop
           g         == [w \in W |-> Result(w)]
<1>1. ASSUME NEW w \in W PROVE w \in Orbit(w) /\ Orbit(w) \subseteq W
  OBVIOUS
<1>2. ASSUME NEW w \in W PROVE Closed(Orbit(w))
  OBVIOUS
<1>3. ASSUME NEW w \in W PROVE Orbit(w) \cap stop # {}
  <2> DEFINE O == Orbit(w)
  <2>1. O # {} /\ O \subseteq W /\ Closed(O)
    BY <1>1, <1>2
  <2> HIDE DEF O
  <2>2. [u \in O |-> rank[u]] \in [O -> Nat]
    BY <2>1
  <2>3. PICK u \in O : \A v \in O : rank[u] <= rank[v]
    BY <2>1, <2>2, LeastRank
  <2>4. u \in stop
    <3> SUFFICES ASSUME u \notin stop PROVE FALSE
      OBVIOUS
    <3>1. next[u] \in O /\ u \in W /\ next[u] \in W
      BY <2>1
    <3>2. rank[next[u]] < rank[u] /\ rank[u] <= rank[next[u]]
      BY <2>3, <3>1
    <3>3. rank[next[u]] \in Nat /\ rank[u] \in Nat
      BY <3>1
    <3> QED
      BY <3>2, <3>3
  <2> QED
    BY <2>4 DEF O
<1>4. ASSUME NEW w \in W \cap stop PROVE Orbit(w) \cap stop = {w}
  <2>1. {w} \in SUBSET W /\ w \in {w} /\ Closed({w})
    OBVIOUS
  <2>2. Orbit(w) \subseteq {w}
    BY <2>1
  <2> QED
    BY <1>1, <2>2
<1>5. ASSUME NEW w \in W \ stop PROVE Orbit(w) \cap stop = Orbit(next[w]) \cap stop
  <2>1. Orbit(next[w]) \subseteq Orbit(w)
    OBVIOUS
  <2>2. ASSUME NEW v \in Orbit(w) \cap stop PROVE v \in Orbit(next[w])
    <3> SUFFICES ASSUME NEW S \in SUBSET W, next[w] \in S, Closed(S) PROVE v \in S
      OBVIOUS
    <3>1. S \cup {w} \in SUBSET W /\ Closed(S \cup {w})
      OBVIOUS
    <3>2. v \in S \cup {w}
      BY <3>1
    <3> QED
      BY <3>2
  <2> HIDE DEF Orbit
  <2> QED
    BY <2>1, <2>2
<1>6. ASSUME NEW w \in W PROVE Result(w) \in Orbit(w) \cap stop
  <2> HIDE DEF Orbit
  <2> QED
    BY <1>3
<1>7. g \in [W -> W]
  <2> HIDE DEF Orbit, Result
  <2> QED
    BY <1>1, <1>6
<1>8. ASSUME NEW w \in W PROVE (w \in stop => g[w] = w) /\ (w \notin stop => g[w] = g[next[w]])
  <2>1. CASE w \in stop
    <3>1. Result(w) = w
      <4> HIDE DEF Orbit
      <4> QED
        BY <2>1, <1>4
    <3> HIDE DEF Result
    <3> QED
      BY <2>1, <3>1
  <2>2. CASE w \notin stop
    <3>1. Result(w) = Result(next[w])
      <4> HIDE DEF Orbit
      <4> QED
        BY <2>2, <1>5
    <3> HIDE DEF Result
    <3> QED
      BY <2>2, <3>1
  <2> QED
    BY <2>1, <2>2
<1> HIDE DEF g
<1> QED
  BY <1>7, <1>8 DEF Iterates

\* A loop that turns n times.
Turns(n, x, next, g) == g = [i \in 0 .. n |-> IF i = 0 THEN x ELSE next[g[i - 1]]]

LEMMA TurnsEnd ==
    ASSUME NEW W, NEW next \in [W -> W], NEW x \in W, NEW n \in Nat
    PROVE  \E g \in [0 .. n -> W] : Turns(n, x, next, g)
<1> DEFINE T == {m \in Nat : \E g \in [0 .. m -> W] : Turns(m, x, next, g)}
<1>1. 0 \in T
  <2>1. PICK g \in [0 .. 0 -> W] : g = [i \in 0 .. 0 |-> x]
    OBVIOUS
  <2>2. Turns(0, x, next, g)
    BY <2>1 DEF Turns
  <2> QED
    BY <2>2
<1>2. ASSUME NEW m \in Nat, m \in T PROVE m + 1 \in T
  <2>1. PICK f \in [0 .. m -> W] : Turns(m, x, next, f)
    BY <1>2
  <2>2. PICK last \in W : last = next[f[m]]
    OBVIOUS
  <2>3. PICK g : g = [i \in 0 .. m + 1 |-> IF i = m + 1 THEN last ELSE f[i]]
    OBVIOUS
  <2>4. g \in [0 .. m + 1 -> W]
    BY <2>3
  <2>5. ASSUME NEW i \in 0 .. m + 1 PROVE g[i] = IF i = 0 THEN x ELSE next[g[i - 1]]
    <3>1. CASE i = m + 1
      <4>1. g[i] = last /\ g[i - 1] = f[m] /\ i # 0
        BY <2>3, <3>1
      <4> QED
        BY <2>2, <4>1
    <3>2. CASE i \in 0 .. m
      <4>1. g[i] = f[i] /\ (i # 0 => g[i - 1] = f[i - 1])
        BY <2>3, <3>2
      <4> QED
        BY <2>1, <3>2, <4>1 DEF Turns
    <3> QED
      BY <3>1, <3>2
  <2>6. g = [i \in 0 .. m + 1 |-> IF i = 0 THEN x ELSE next[g[i - 1]]]
    BY <2>3, <2>5
  <2>7. m + 1 \in Nat /\ Turns(m + 1, x, next, g)
    BY <2>6 DEF Turns
  <2> QED
    BY <2>4, <2>7
<1> HIDE DEF T
<1>3. n \in T
  BY <1>1, <1>2, NatInducts
<1> QED
  BY <1>3 DEF T
=============================================================================
