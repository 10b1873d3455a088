---------------------------- MODULE KeyTreeProofs ----------------------------
(***************************************************************************)
(* The tree of keys, for every set of identifiers, every limit and every   *)
(* size of the heap: its safety; that it implements the rules about paths; *)
(* that toml_get_key finds what is in it, and that its dump reads back.    *)
(***************************************************************************)
EXTENDS KeyTreeUse, Induction, SequenceTheorems, FiniteSetTheorems

(***************************************************************************)
(* What makes the invariants of KeyTree inductive.                         *)
(***************************************************************************)

\* The pseudo keys of array tables keep the type new_inline_table gives them.
ElementsPlain ==
    \A k \in Allocated : \A i \in 0 .. MaxArray - 1 :
        keys[k].arr[i] # NULL => keys[keys[k].arr[i]].type = "KEY"

\* A statement has a key to go on from, and never a leaf.
Somewhere ==
    /\ keys[Root].type # "KEYLEAF" /\ keys[active].type # "KEYLEAF"
    /\ mode \in Walking => at # NULL /\ keys[at].type # "KEYLEAF"
    /\ mode = "element" => at # NULL /\ keys[at].type = "ARRAYTABLE"
    /\ mode = "value"   => at # NULL
    /\ mode = "inline"  => open # <<>>

\* Open inline tables are nested: each key is older than its container and
\* than every key inside it.
Nested ==
    /\ \A n \in 1 .. Len(open) :
          /\ open[n].key < open[n].keys /\ open[n].keys <= nkeys
          /\ keys[open[n].keys].type # "KEYLEAF"
          /\ mode = "value" => open[n].key < at
    /\ \A n \in 1 .. Len(open) : \A m \in 1 .. n - 1 : open[m].key < open[n].key

IInv == /\ TypeOK /\ Acyclic /\ ArrayTablesReady /\ LeavesFresh
        /\ ElementsPlain /\ Somewhere /\ Nested

-----------------------------------------------------------------------------
USE MaxSubkeysAssumption, MaxArrayAssumption, MaxKeysAssumption

LEMMA NewKeyType ==
    ASSUME NEW type \in Types
    PROVE  /\ new_key(type) \in KeyType
           /\ new_key(type).type = type /\ new_key(type).value = "none"
           /\ new_key(type).idx = -1
           /\ \A id \in Ids : new_key(type).subkeys[id] = NULL
           /\ \A i \in 0 .. MaxArray - 1 : new_key(type).arr[i] = NULL
  BY DEF new_key, KeyType, NoSubkeys, NULL

\* All but the last elements of a sequence.
LEMMA FrontOfSeq ==
    ASSUME NEW S, NEW s \in Seq(S), NEW l \in 0 .. Len(s)
    PROVE  /\ SubSeq(s, 1, l) \in Seq(S)
           /\ Len(SubSeq(s, 1, l)) = l
           /\ \A i \in 1 .. l : SubSeq(s, 1, l)[i] = s[i]
  OBVIOUS

LEMMA InitInv == Init => IInv
<1> SUFFICES ASSUME Init PROVE IInv
  OBVIOUS
<1>1. \A k \in 1 .. MaxKeys : keys[k] = new_key("TABLE")
  BY DEF Init
<1>2. TypeOK
  BY NewKeyType DEF Init, TypeOK, Types, Modes, Allocated, Root, NULL
<1>3. Acyclic
  BY <1>1, NewKeyType DEF Init, Acyclic, Allocated, Refs, has_subkey, Types
<1>4. ArrayTablesReady /\ LeavesFresh /\ ElementsPlain /\ Somewhere /\ Nested
  BY <1>1, NewKeyType DEF Init, ArrayTablesReady, LeavesFresh, ElementsPlain,
     Somewhere, Nested, Allocated, Walking, Types, Root
<1> QED
  BY <1>2, <1>3, <1>4 DEF IInv

-----------------------------------------------------------------------------
(* Facts about the state that every step starts from. *)

\* Pointers lead forward, to allocated keys.
LEMMA Pointers ==
    ASSUME TypeOK, Acyclic, NEW k \in Allocated
    PROVE  /\ k \in 1 .. MaxKeys
           /\ keys[k] \in KeyType
           /\ \A id \in Ids : has_subkey(k, id) # NULL
                 => has_subkey(k, id) \in Allocated /\ k < has_subkey(k, id)
           /\ \A i \in 0 .. MaxArray - 1 : keys[k].arr[i] # NULL
                 => keys[k].arr[i] \in Allocated /\ k < keys[k].arr[i]
<1>1. k \in 1 .. MaxKeys /\ keys[k] \in KeyType
  BY DEF TypeOK, Allocated
<1>2. \A r \in Refs(k) : k < r /\ r <= nkeys
  BY DEF Acyclic
<1>3. \A id \in Ids : has_subkey(k, id) \in 0 .. MaxKeys
  BY <1>1 DEF KeyType, has_subkey
<1>4. \A i \in 0 .. MaxArray - 1 : keys[k].arr[i] \in 0 .. MaxKeys
  BY <1>1 DEF KeyType
<1>5. ASSUME NEW id \in Ids, has_subkey(k, id) # NULL
      PROVE  has_subkey(k, id) \in Allocated /\ k < has_subkey(k, id)
  <2>1. has_subkey(k, id) \in Refs(k)
    BY <1>5 DEF Refs
  <2> QED
    BY <2>1, <1>2, <1>3 DEF Allocated, TypeOK
<1>6. ASSUME NEW i \in 0 .. MaxArray - 1, keys[k].arr[i] # NULL
      PROVE  keys[k].arr[i] \in Allocated /\ k < keys[k].arr[i]
  <2>1. keys[k].arr[i] \in Refs(k)
    BY <1>6 DEF Refs
  <2> QED
    BY <2>1, <1>2, <1>4 DEF Allocated, TypeOK
<1> QED
  BY <1>1, <1>5, <1>6

\* add_subkey never follows a pointer that is not there, and never stores
\* into a leaf or into the own subkeys of an array table.
LEMMA HolderFacts ==
    ASSUME IInv, mode \in Walking, NEW id \in Ids
    PROVE  /\ at \in Allocated
           /\ Holder(at, id) \in Allocated
           /\ keys[Holder(at, id)].type \notin {"ARRAYTABLE", "KEYLEAF"}
           /\ Found(at, id) # NULL => Found(at, id) \in Allocated
<1>1. at \in Allocated /\ keys[at].type # "KEYLEAF"
  BY DEF IInv, Somewhere, TypeOK, Allocated, NULL
<1>2. CASE keys[at].type = "ARRAYTABLE"
  <2>1. keys[at].idx >= 0 /\ UsedIds(at) = {}
    BY <1>1, <1>2 DEF IInv, ArrayTablesReady, Walking, Stopped
  <2>2. has_subkey(at, id) = NULL
    BY <2>1 DEF UsedIds
  <2>3. keys[at].idx \in 0 .. MaxArray - 1
    BY <2>1, <1>1, Pointers DEF IInv, KeyType
  <2>4. Holder(at, id) = keys[at].arr[keys[at].idx]
    BY <2>2, <1>2 DEF Holder
  <2>5. keys[at].arr[keys[at].idx] # NULL
    BY <2>3, <1>1, <1>2 DEF IInv, ArrayTablesReady
  <2>6. Holder(at, id) \in Allocated
    BY <2>3, <2>4, <2>5, <1>1, Pointers DEF IInv
  <2>7. keys[Holder(at, id)].type = "KEY"
    BY <2>3, <2>4, <2>5, <1>1 DEF IInv, ElementsPlain
  <2> QED
    BY <1>1, <2>6, <2>7, Pointers DEF IInv, Found
<1>3. CASE keys[at].type # "ARRAYTABLE"
  <2>1. Holder(at, id) = at
    BY <1>3 DEF Holder
  <2> QED
    BY <1>1, <1>3, <2>1, Pointers DEF IInv, Found
<1> QED
  BY <1>2, <1>3

\* The open inline tables, and the innermost one.
LEMMA OpenFacts ==
    ASSUME IInv
    PROVE  /\ \A n \in 1 .. Len(open) :
                 /\ open[n] \in [key : 1 .. MaxKeys, keys : 1 .. MaxKeys]
                 /\ open[n].key \in Allocated /\ open[n].keys \in Allocated
                 /\ keys[open[n].key].type = "KEYLEAF"
                 /\ keys[open[n].keys].type # "KEYLEAF"
                 /\ open[n].key < open[n].keys
           /\ Len(open) \in Nat
           /\ mode = "inline" => Len(open) \in 1 .. Len(open) /\ Top = open[Len(open)]
<1>1. \A n \in 1 .. Len(open) : open[n] \in [key : 1 .. MaxKeys, keys : 1 .. MaxKeys]
  BY ElementOfSeq DEF IInv, TypeOK
<1>2. Len(open) \in Nat
  BY DEF IInv, TypeOK
<1>3. mode = "inline" => Len(open) \in 1 .. Len(open) /\ Top = open[Len(open)]
  BY DEF IInv, TypeOK, Somewhere, Top
<1>4. ASSUME NEW n \in 1 .. Len(open)
      PROVE  /\ open[n].key \in Allocated /\ open[n].keys \in Allocated
             /\ keys[open[n].key].type = "KEYLEAF"
             /\ keys[open[n].keys].type # "KEYLEAF"
             /\ open[n].key < open[n].keys
  BY <1>1 DEF IInv, Nested, LeavesFresh, Fresh, Allocated, TypeOK
<1> QED
  BY <1>1, <1>2, <1>3, <1>4

-----------------------------------------------------------------------------
(* The steps, by what they change. *)

\* Steps that leave the heap, the active key and the open inline tables alone
\* and do not enter or stay in a mode that expects a value.
LEMMA HeapUnchanged ==
    ASSUME IInv, UNCHANGED <<keys, nkeys, active, open>>,
           mode' \in Walking \cup Stopped, at' \in 0 .. nkeys,
           mode = "element" => at' = at,
           mode' \in Walking => mode # "element" /\ at' # NULL
                                  /\ keys[at'].type # "KEYLEAF",
           mode \in Stopped \cup {"element"} => at' = at /\ mode' \in Stopped
    PROVE  IInv'
<1>1. TypeOK'
  BY DEF IInv, TypeOK, Allocated, Modes
<1>2. Acyclic'
  BY DEF IInv, Acyclic, Refs, has_subkey, Allocated
<1>3. ArrayTablesReady'
  <2> SUFFICES ASSUME NEW k \in Allocated, keys[k].type = "ARRAYTABLE"
               PROVE  \/ keys[k].idx >= 0
                      \/ at' = k /\ mode' \in Stopped \cup {"element"}
    BY DEF IInv, ArrayTablesReady, Allocated, UsedIds, has_subkey
  <2> QED
    BY DEF IInv, ArrayTablesReady
<1>4. LeavesFresh'
  BY DEF IInv, LeavesFresh, Fresh, UsedIds, has_subkey, Walking, Stopped
<1>5. ElementsPlain'
  BY DEF IInv, ElementsPlain, Allocated
<1>6. Somewhere'
  BY DEF IInv, Somewhere, Walking, Stopped
<1>7. Nested'
  BY DEF IInv, Nested, Walking, Stopped
<1> QED
  BY <1>1, <1>2, <1>3, <1>4, <1>5, <1>6, <1>7 DEF IInv

LEMMA QuietSteps ==
    ASSUME IInv,
           \/ StartKey \/ StartTable \/ ArrayOverflow \/ InlineKey
           \/ Finish \/ Invalid
           \/ \E id \in Ids : Overflow(id) \/ \E final \in BOOLEAN : Redefine(id, final)
    PROVE  IInv'
<1>1. CASE StartKey
  BY <1>1, HeapUnchanged DEF StartKey, IInv, TypeOK, Somewhere, Walking, Stopped,
     Allocated, NULL
<1>2. CASE StartTable
  BY <1>2, HeapUnchanged DEF StartTable, IInv, TypeOK, Somewhere, Walking,
     Stopped, NULL, Root
<1>3. CASE InlineKey
  <2>1. Top.keys \in Allocated /\ keys[Top.keys].type # "KEYLEAF"
    BY <1>3, OpenFacts DEF InlineKey
  <2> QED
    BY <1>3, <2>1, HeapUnchanged DEF InlineKey, IInv, TypeOK, Allocated, Walking,
       Stopped, NULL
<1>4. CASE ArrayOverflow \/ Finish \/ Invalid
           \/ \E id \in Ids : Overflow(id) \/ \E final \in BOOLEAN : Redefine(id, final)
  <2>1. UNCHANGED <<keys, nkeys, active, at, open>> /\ mode' \in Stopped
    BY <1>4 DEF ArrayOverflow, Finish, Invalid, Overflow, Redefine, Stopped
  <2> QED
    BY <2>1, HeapUnchanged DEF IInv, TypeOK, Walking, Stopped
<1> QED
  BY <1>1, <1>2, <1>3, <1>4

\* A segment that is already there: at most a TABLE becomes a TABLELEAF.
LEMMA DescendStep ==
    ASSUME IInv, NEW id \in Ids, NEW final \in BOOLEAN, Descend(id, final)
    PROVE  IInv'
<1> DEFINE s == Found(at, id)
<1>1. mode \in Walking /\ s # NULL /\ compatible_keys(keys[s].type, NewType(final))
  BY DEF Descend
<1>2. s \in Allocated /\ s \in 1 .. MaxKeys /\ keys[s] \in KeyType
  BY <1>1, HolderFacts DEF IInv, TypeOK, Allocated
<1>3. /\ keys' \in [1 .. MaxKeys -> KeyType]
      /\ \A k \in 1 .. MaxKeys :
            /\ keys'[k].subkeys = keys[k].subkeys /\ keys'[k].value = keys[k].value
            /\ keys'[k].idx = keys[k].idx /\ keys'[k].arr = keys[k].arr
            /\ \/ keys'[k].type = keys[k].type
               \/ keys[k].type = "TABLE" /\ keys'[k].type = "TABLELEAF"
  <2>1. CASE NewType(final) = "TABLELEAF"
    <3>1. keys[s].type = "TABLE"
      BY <1>1, <2>1 DEF compatible_keys
    <3>2. keys' = [keys EXCEPT ![s].type = "TABLELEAF"]
      BY <2>1 DEF Descend
    <3> QED
      BY <1>2, <3>1, <3>2 DEF IInv, TypeOK, KeyType, Types
  <2>2. CASE NewType(final) # "TABLELEAF"
    BY <2>2 DEF Descend, IInv, TypeOK
  <2> QED
    BY <2>1, <2>2
<1>4. nkeys' = nkeys /\ open' = open /\ Arrive(s, final)
  BY DEF Descend
<1>5. /\ keys[s].type # "KEYLEAF"
      /\ ~(final /\ mode = "key")
      /\ final /\ mode = "arraytable" => keys[s].type = "ARRAYTABLE"
  BY <1>1 DEF compatible_keys, NewType, Walking
<1>6. mode' \in Walking \cup {"statement", "element"}
  BY <1>1, <1>4, <1>5 DEF Arrive, Walking
<1>7. TypeOK'
  <2>1. mode' \in Modes
    BY <1>6 DEF Modes
  <2>2. active' \in Allocated
    BY <1>2, <1>4 DEF IInv, TypeOK, Arrive
  <2>3. at' \in 0 .. nkeys
    BY <1>2, <1>4 DEF IInv, TypeOK, Allocated, Arrive, NULL
  <2> QED
    BY <2>1, <2>2, <2>3, <1>3, <1>4 DEF IInv, TypeOK, Allocated
<1>8. Acyclic'
  <2>1. ASSUME NEW k \in Allocated PROVE Refs(k)' = Refs(k)
    <3>1. k \in 1 .. MaxKeys
      BY DEF Allocated, IInv, TypeOK
    <3>2. keys'[k].subkeys = keys[k].subkeys /\ keys'[k].arr = keys[k].arr
      BY <3>1, <1>3
    <3> QED
      BY <3>2 DEF Refs, has_subkey
  <2> QED
    BY <2>1, <1>4 DEF IInv, Acyclic, Allocated
<1>9. ASSUME NEW k \in Allocated
      PROVE  /\ k \in 1 .. MaxKeys
             /\ UsedIds(k)' = UsedIds(k)
             /\ keys'[k].type \in {"KEYLEAF", "ARRAYTABLE"}
                  => keys'[k].type = keys[k].type
             /\ keys[k].type # "TABLE" => keys'[k].type = keys[k].type
  BY <1>3 DEF UsedIds, has_subkey, Allocated, IInv, TypeOK
<1>10. ElementsPlain'
  <2> SUFFICES ASSUME NEW k \in Allocated, NEW i \in 0 .. MaxArray - 1,
                      keys[k].arr[i] # NULL
               PROVE  keys'[keys[k].arr[i]].type = "KEY"
    BY <1>3, <1>4, <1>9 DEF ElementsPlain, Allocated
  <2>1. keys[k].arr[i] \in Allocated
    BY Pointers DEF IInv
  <2> QED
    BY <2>1, <1>9 DEF IInv, ElementsPlain
<1>11. ArrayTablesReady'
  <2> SUFFICES ASSUME NEW k \in Allocated, keys'[k].type = "ARRAYTABLE"
               PROVE  /\ keys'[k].idx >= 0 /\ keys'[k].value = "array"
                      /\ UsedIds(k)' = {}
                      /\ \A i \in 0 .. keys'[k].idx :
                            /\ keys'[k].arr[i] # NULL
                            /\ keys'[keys'[k].arr[i]].type # "ARRAYTABLE"
    BY <1>4 DEF ArrayTablesReady, Allocated
  <2>1. /\ keys[k].type = "ARRAYTABLE" /\ keys[k].idx >= 0
        /\ keys[k].value = "array" /\ UsedIds(k) = {}
        /\ \A i \in 0 .. keys[k].idx : keys[k].arr[i] # NULL
    BY <1>1, <1>9 DEF IInv, ArrayTablesReady, Walking, Stopped
  <2>2. keys[k].idx \in 0 .. MaxArray - 1
    BY <2>1, Pointers DEF IInv, KeyType
  <2>3. \A i \in 0 .. keys[k].idx : keys'[keys[k].arr[i]].type = "KEY"
    BY <2>1, <2>2, <1>3, <1>4, <1>9, <1>10 DEF ElementsPlain, Allocated
  <2> QED
    BY <2>1, <2>3, <1>3, <1>9
<1>12. LeavesFresh'
  <2>1. \A n \in 1 .. Len(open) : Fresh(open[n].key)'
    <3> SUFFICES ASSUME NEW n \in 1 .. Len(open) PROVE Fresh(open[n].key)'
      OBVIOUS
    <3>1. open[n].key \in Allocated /\ Fresh(open[n].key)
      BY OpenFacts DEF IInv, LeavesFresh
    <3> QED
      BY <3>1, <1>3, <1>4, <1>9 DEF Fresh
  <2> QED
    BY <2>1, <1>4, <1>6 DEF LeavesFresh, Walking
<1>13. Somewhere'
  <2>1. \A k \in {Root, active, s} : keys'[k].type # "KEYLEAF"
    <3>1. \A k \in {Root, active, s} : k \in Allocated /\ keys[k].type # "KEYLEAF"
      BY <1>2, <1>5 DEF IInv, Somewhere, TypeOK, Allocated, Root
    <3> QED
      BY <3>1, <1>9
  <2>2. active' \in {active, s} /\ (mode' \in {"element"} \cup Walking => at' = s)
    BY <1>1, <1>4, <1>6 DEF Arrive, Walking
  <2>3. mode' = "element" => keys'[s].type = "ARRAYTABLE"
    BY <1>1, <1>2, <1>4, <1>5, <1>9 DEF Arrive, Walking
  <2> QED
    BY <1>1, <1>6, <2>1, <2>2, <2>3 DEF Somewhere, Walking
<1>14. Nested'
  <2>1. \A n \in 1 .. Len(open) : keys'[open[n].keys].type # "KEYLEAF"
    BY <1>9, OpenFacts
  <2> QED
    BY <2>1, <1>4, <1>6 DEF IInv, Nested, Walking
<1> QED
  BY <1>7, <1>8, <1>10, <1>11, <1>12, <1>13, <1>14 DEF IInv

\* Allocating a key of type t, that at most the key h is made to point to.
LEMMA Grown ==
    ASSUME IInv, CanAlloc, NEW h \in Allocated, NEW t \in Types,
           NEW fresh \in Nat, fresh = new,
           nkeys' = fresh, keys' \in [1 .. MaxKeys -> KeyType],
           keys'[fresh] = new_key(t),
           \A k \in Allocated \ {h} : keys'[k] = keys[k],
           keys'[h].type = keys[h].type,
           \A id \in Ids : keys'[h].subkeys[id] \in {keys[h].subkeys[id], fresh},
           \A i \in 0 .. MaxArray - 1 :
              keys'[h].arr[i] = keys[h].arr[i] \/ (keys'[h].arr[i] = fresh /\ t = "KEY")
    PROVE  /\ Allocated' = Allocated \cup {fresh} /\ fresh \notin Allocated
           /\ fresh \in 1 .. MaxKeys /\ Allocated \subseteq 1 .. MaxKeys
           /\ \A k \in Allocated : keys'[k].type = keys[k].type
           /\ \A k \in Allocated \ {h} : UsedIds(k)' = UsedIds(k)
           /\ UsedIds(fresh)' = {} /\ keys'[fresh].type = t /\ keys'[fresh].value = "none"
           /\ Acyclic' /\ ElementsPlain'
<1>1. /\ Allocated' = Allocated \cup {fresh} /\ fresh \notin Allocated
      /\ fresh \in 1 .. MaxKeys /\ Allocated \subseteq 1 .. MaxKeys
      /\ \A k \in Allocated : k < fresh
  BY DEF IInv, TypeOK, Allocated, new, CanAlloc
<1>2. \A k \in Allocated : keys'[k].type = keys[k].type
  OBVIOUS
<1>3. \A k \in Allocated \ {h} : UsedIds(k)' = UsedIds(k) /\ Refs(k)' = Refs(k)
  BY DEF UsedIds, Refs, has_subkey
<1>4. UsedIds(fresh)' = {} /\ keys'[fresh].type = t /\ keys'[fresh].value = "none"
  BY <1>1, NewKeyType DEF UsedIds, has_subkey, new
<1>5. Refs(fresh)' = {}
  BY NewKeyType DEF Refs, has_subkey, new
<1>6. Refs(h)' \subseteq Refs(h) \cup {fresh}
  BY DEF Refs, has_subkey
<1>7. Acyclic'
  <2> SUFFICES ASSUME NEW k \in Allocated', NEW r \in Refs(k)'
               PROVE  k < r /\ r <= nkeys'
    BY DEF Acyclic
  <2>1. CASE k = fresh
    BY <2>1, <1>5
  <2>2. CASE k \in Allocated
    <3>1. r \in Refs(k) \/ r = fresh
      BY <2>2, <1>3, <1>6
    <3>2. r \in Refs(k) => k < r /\ r \in Allocated
      BY <2>2, Pointers DEF IInv, Refs
    <3> QED
      BY <3>1, <3>2, <2>2, <1>1 DEF Allocated, IInv, TypeOK, new
  <2> QED
    BY <2>1, <2>2, <1>1
<1>8. ElementsPlain'
  <2> SUFFICES ASSUME NEW k \in Allocated', NEW i \in 0 .. MaxArray - 1,
                      keys'[k].arr[i] # NULL
               PROVE  keys'[keys'[k].arr[i]].type = "KEY"
    BY DEF ElementsPlain
  <2>1. CASE k = fresh
    BY <2>1, NewKeyType
  <2>2. CASE k \in Allocated /\ keys'[k].arr[i] = keys[k].arr[i]
    <3>1. keys[k].arr[i] \in Allocated /\ keys[keys[k].arr[i]].type = "KEY"
      BY <2>2, Pointers DEF IInv, ElementsPlain
    <3> QED
      BY <2>2, <3>1, <1>2
  <2>3. CASE keys'[k].arr[i] = fresh /\ t = "KEY"
    BY <2>3, <1>4
  <2> QED
    BY <2>1, <2>2, <2>3, <1>1
<1> QED
  BY <1>1, <1>2, <1>3, <1>4, <1>7, <1>8

\* A segment that is not there yet.
LEMMA CreateStep ==
    ASSUME IInv, NEW id \in Ids, NEW final \in BOOLEAN, Create(id, final)
    PROVE  IInv'
<1> DEFINE h == Holder(at, id)
           t == NewType(final)
<1>1. mode \in Walking /\ CanAlloc /\ nkeys' = new /\ open' = open /\ Arrive(new, final)
  BY DEF Create
<1>2. h \in Allocated /\ keys[h].type \notin {"ARRAYTABLE", "KEYLEAF"}
  BY <1>1, HolderFacts
<1>3. t \in Types
  BY <1>1 DEF NewType, Types, Walking
<1>4. PICK fresh \in Nat : fresh = new
  BY DEF IInv, TypeOK, new
<1>5. fresh \in 1 .. MaxKeys /\ h \in 1 .. MaxKeys /\ h # fresh /\ fresh \notin Allocated
  BY <1>1, <1>2, <1>4 DEF IInv, TypeOK, Allocated, new, CanAlloc
<1>6. keys' = [keys EXCEPT ![h].subkeys[id] = fresh, ![fresh] = new_key(t)]
  BY <1>4 DEF Create
<1>7. /\ keys' \in [1 .. MaxKeys -> KeyType]
      /\ keys'[fresh] = new_key(t)
      /\ \A k \in Allocated \ {h} : keys'[k] = keys[k]
      /\ keys'[h].type = keys[h].type /\ keys'[h].value = keys[h].value
      /\ keys'[h].idx = keys[h].idx /\ keys'[h].arr = keys[h].arr
      /\ \A i \in Ids : keys'[h].subkeys[i] \in {keys[h].subkeys[i], fresh}
  <2>1. keys[h] \in KeyType /\ new_key(t) \in KeyType
    BY <1>3, <1>5, NewKeyType DEF IInv, TypeOK
  <2>2. [keys[h] EXCEPT !.subkeys[id] = fresh] \in KeyType
    <3>1. [keys[h].subkeys EXCEPT ![id] = fresh] \in [Ids -> 0 .. MaxKeys]
      BY <2>1, <1>5 DEF KeyType
    <3>2. [keys[h] EXCEPT !.subkeys = [keys[h].subkeys EXCEPT ![id] = fresh]] \in KeyType
      BY <2>1, <3>1 DEF KeyType
    <3> QED
      BY <3>2
  <2>3. keys' = [k \in 1 .. MaxKeys |-> IF k = fresh THEN new_key(t)
                   ELSE IF k = h THEN [keys[h] EXCEPT !.subkeys[id] = fresh] ELSE keys[k]]
    BY <1>5, <1>6 DEF IInv, TypeOK
  <2>4. Allocated \subseteq 1 .. MaxKeys
    BY DEF IInv, TypeOK, Allocated
  <2>5. keys' \in [1 .. MaxKeys -> KeyType]
    BY <2>1, <2>2, <2>3 DEF IInv, TypeOK
  <2> QED
    BY <2>1, <2>3, <2>4, <2>5, <1>5 DEF KeyType
<1>8. /\ Allocated' = Allocated \cup {fresh}
      /\ \A k \in Allocated : keys'[k].type = keys[k].type
      /\ \A k \in Allocated \ {h} : UsedIds(k)' = UsedIds(k)
      /\ UsedIds(fresh)' = {} /\ keys'[fresh].type = t /\ keys'[fresh].value = "none"
      /\ Acyclic' /\ ElementsPlain'
  <2>1. \A i \in 0 .. MaxArray - 1 :
           keys'[h].arr[i] = keys[h].arr[i] \/ (keys'[h].arr[i] = fresh /\ t = "KEY")
    BY <1>7
  <2>2. nkeys' = fresh
    BY <1>1, <1>4
  <2> HIDE DEF h, t
  <2> QED
    BY <1>1, <1>2, <1>3, <1>4, <1>7, <2>1, <2>2, Grown
<1>9. /\ mode' \in Walking \cup {"statement", "value", "element"}
      /\ active' \in {active, fresh} /\ at' \in {NULL, fresh}
      /\ mode' \in Walking \cup {"value", "element"} => at' = fresh
      /\ mode' \in Walking => t \in {"KEY", "TABLE"}
      /\ mode' = "value" => t = "KEYLEAF"
      /\ t = "KEYLEAF" => active' = active /\ mode' = "value"
      /\ t = "ARRAYTABLE" <=> mode' = "element"
  BY <1>1, <1>4 DEF Arrive, NewType, Walking
<1>10. TypeOK'
  <2>1. mode' \in Modes
    BY <1>9 DEF Modes
  <2>2. active' \in Allocated'
    BY <1>8, <1>9 DEF IInv, TypeOK
  <2>3. at' \in 0 .. nkeys'
    BY <1>1, <1>4, <1>9 DEF NULL
  <2> QED
    BY <2>1, <2>2, <2>3, <1>1, <1>4, <1>5, <1>7 DEF IInv, TypeOK
<1>11. ArrayTablesReady'
  <2> SUFFICES ASSUME NEW k \in Allocated', keys'[k].type = "ARRAYTABLE"
               PROVE  /\ \/ keys'[k].idx >= 0
                         \/ at' = k /\ mode' = "element"
                      /\ keys'[k].idx >= 0 => keys'[k].value = "array"
                      /\ UsedIds(k)' = {}
                      /\ \A i \in 0 .. keys'[k].idx :
                            /\ keys'[k].arr[i] # NULL
                            /\ keys'[keys'[k].arr[i]].type # "ARRAYTABLE"
    BY DEF ArrayTablesReady
  <2>1. CASE k = fresh
    <3>1. keys'[k].idx = -1
      BY <2>1, <1>3, <1>7, NewKeyType
    <3> QED
      BY <2>1, <3>1, <1>8, <1>9
  <2>2. CASE k \in Allocated
    <3>1. keys[k].type = "ARRAYTABLE" /\ k # h /\ keys'[k] = keys[k]
      BY <2>2, <1>2, <1>7, <1>8
    <3>2. /\ keys[k].idx >= 0 /\ keys[k].value = "array" /\ UsedIds(k) = {}
          /\ \A i \in 0 .. keys[k].idx : keys[k].arr[i] # NULL
      BY <2>2, <3>1, <1>1 DEF IInv, ArrayTablesReady, Walking, Stopped
    <3>3. keys[k].idx \in 0 .. MaxArray - 1
      BY <3>2, <2>2, Pointers DEF IInv, KeyType
    <3>4. \A i \in 0 .. keys[k].idx : keys'[keys[k].arr[i]].type = "KEY"
      BY <2>2, <3>1, <3>2, <3>3, <1>8 DEF ElementsPlain
    <3> QED
      BY <2>2, <3>1, <3>2, <3>4, <1>8
  <2> QED
    BY <2>1, <2>2, <1>8
<1>12. LeavesFresh'
  <2>1. mode' = "value" => Fresh(fresh)'
    BY <1>8, <1>9 DEF Fresh
  <2>2. ASSUME NEW n \in 1 .. Len(open) PROVE Fresh(open[n].key)'
    <3>1. open[n].key \in Allocated /\ Fresh(open[n].key)
      BY OpenFacts DEF IInv, LeavesFresh
    <3>2. open[n].key # h /\ keys'[open[n].key] = keys[open[n].key]
      BY <3>1, <1>2, <1>7 DEF Fresh
    <3> QED
      BY <3>1, <3>2, <1>1, <1>8 DEF Fresh
  <2>3. mode' = "value" => Fresh(at)'
    BY <2>1, <1>9
  <2> QED
    BY <2>2, <2>3, <1>1 DEF LeavesFresh
<1>13. Somewhere'
  <2>1. \A k \in {Root, active} : keys'[k].type # "KEYLEAF"
    <3>1. \A k \in {Root, active} : k \in Allocated /\ keys[k].type # "KEYLEAF"
      BY DEF IInv, Somewhere, TypeOK, Allocated, Root
    <3> QED
      BY <3>1, <1>8
  <2>2. keys'[active'].type # "KEYLEAF"
    BY <2>1, <1>8, <1>9
  <2> QED
    BY <2>1, <2>2, <1>5, <1>8, <1>9 DEF Somewhere, Walking, NULL
<1>14. Nested'
  <2>1. \A n \in 1 .. Len(open) :
           /\ keys'[open[n].keys].type # "KEYLEAF"
           /\ open[n].key < fresh /\ open[n].keys <= nkeys'
    <3> SUFFICES ASSUME NEW n \in 1 .. Len(open)
                 PROVE  /\ keys'[open[n].keys].type # "KEYLEAF"
                        /\ open[n].key < fresh /\ open[n].keys <= nkeys'
      OBVIOUS
    <3>1. /\ open[n].key \in Allocated /\ open[n].keys \in Allocated
          /\ keys[open[n].keys].type # "KEYLEAF"
      BY OpenFacts
    <3>2. \A k \in Allocated : k < fresh /\ k <= nkeys'
      BY <1>1, <1>4 DEF Allocated, IInv, TypeOK, new
    <3> QED
      BY <3>1, <3>2, <1>8
  <2> QED
    BY <2>1, <1>1, <1>9 DEF IInv, Nested
<1> QED
  BY <1>8, <1>10, <1>11, <1>12, <1>13, <1>14 DEF IInv

\* A new table of an array table.
LEMMA NewElementStep == ASSUME IInv, NewElement PROVE IInv'
<1> DEFINE i == keys[at].idx + 1
<1>1. /\ mode = "element" /\ CanAlloc /\ nkeys' = new /\ open' = open
      /\ mode' = "statement" /\ active' = at /\ at' = NULL
  BY DEF NewElement
<1>2. PICK fresh \in Nat : fresh = new
  BY DEF IInv, TypeOK, new
<1>3. PICK table \in Allocated : table = at /\ keys[table].type = "ARRAYTABLE"
  BY <1>1 DEF IInv, Somewhere, TypeOK, Allocated, NULL
<1>4. fresh \in 1 .. MaxKeys /\ table \in 1 .. MaxKeys /\ table # fresh /\ fresh \notin Allocated
  BY <1>1, <1>2, <1>3 DEF IInv, TypeOK, Allocated, new, CanAlloc
<1>5. /\ keys[table] \in KeyType /\ keys[table].idx \in Int
      /\ i = keys[table].idx + 1 /\ i \in 0 .. MaxArray - 1
  BY <1>3, Pointers DEF IInv, KeyType, NewElement
<1>6. /\ keys' \in [1 .. MaxKeys -> KeyType]
      /\ keys'[fresh] = new_key("KEY")
      /\ \A k \in Allocated \ {table} : keys'[k] = keys[k]
      /\ keys'[table].type = keys[table].type /\ keys'[table].value = "array"
      /\ keys'[table].idx = i /\ keys'[table].subkeys = keys[table].subkeys
      /\ keys'[table].arr[i] = fresh
      /\ \A j \in 0 .. MaxArray - 1 \ {i} : keys'[table].arr[j] = keys[table].arr[j]
  <2> DEFINE b == [keys[table] EXCEPT !.value = "array", !.idx = i,
                      !.arr = [keys[table].arr EXCEPT ![i] = fresh]]
  <2>1. [keys[table].arr EXCEPT ![i] = fresh] \in [0 .. MaxArray - 1 -> 0 .. MaxKeys]
    BY <1>4, <1>5 DEF KeyType
  <2>2. b \in KeyType /\ new_key("KEY") \in KeyType
    <3>1. i \in -1 .. MaxArray - 1
      BY <1>5
    <3> HIDE DEF i
    <3> QED
      BY <2>1, <3>1, <1>5, NewKeyType DEF KeyType, Types
  <2>3. /\ b.type = keys[table].type /\ b.value = "array" /\ b.idx = i
        /\ b.subkeys = keys[table].subkeys /\ b.arr[i] = fresh
        /\ \A j \in 0 .. MaxArray - 1 \ {i} : b.arr[j] = keys[table].arr[j]
    BY <1>5 DEF KeyType
  <2>4. keys' = [k \in 1 .. MaxKeys |-> IF k = fresh THEN new_key("KEY")
                                        ELSE IF k = table THEN b ELSE keys[k]]
    <3>1. keys' = [keys EXCEPT ![table].value = "array", ![table].idx = i,
                               ![table].arr[i] = fresh, ![fresh] = new_key("KEY")]
      BY <1>2, <1>3 DEF NewElement
    <3> HIDE DEF i
    <3> QED
      BY <3>1, <1>4, <1>5 DEF IInv, TypeOK, KeyType
  <2>5. Allocated \subseteq 1 .. MaxKeys
    BY DEF IInv, TypeOK, Allocated
  <2> HIDE DEF b
  <2> QED
    BY <2>2, <2>3, <2>4, <2>5, <1>4 DEF IInv, TypeOK
<1>7. /\ Allocated' = Allocated \cup {fresh}
      /\ \A k \in Allocated : keys'[k].type = keys[k].type
      /\ UsedIds(fresh)' = {} /\ keys'[fresh].type = "KEY"
      /\ \A k \in Allocated \ {table} : UsedIds(k)' = UsedIds(k)
      /\ Acyclic' /\ ElementsPlain'
  <2>1. \A j \in 0 .. MaxArray - 1 :
           keys'[table].arr[j] = keys[table].arr[j] \/ keys'[table].arr[j] = fresh
    BY <1>6
  <2>2. nkeys' = fresh /\ "KEY" \in Types
    BY <1>1, <1>2 DEF Types
  <2>3. \A id \in Ids : keys'[table].subkeys[id] = keys[table].subkeys[id]
    BY <1>6
  <2> QED
    BY <1>1, <1>2, <1>6, <2>1, <2>2, <2>3, Grown
<1>8. UsedIds(table)' = UsedIds(table) /\ UsedIds(table) = {}
  BY <1>3, <1>6 DEF UsedIds, has_subkey, IInv, ArrayTablesReady
<1>9. TypeOK'
  BY <1>1, <1>2, <1>3, <1>4, <1>6, <1>7 DEF IInv, TypeOK, Modes, NULL
<1>10. ArrayTablesReady'
  <2> SUFFICES ASSUME NEW k \in Allocated', keys'[k].type = "ARRAYTABLE"
               PROVE  /\ keys'[k].idx >= 0 /\ keys'[k].value = "array"
                      /\ UsedIds(k)' = {}
                      /\ \A j \in 0 .. keys'[k].idx :
                            /\ keys'[k].arr[j] # NULL
                            /\ keys'[keys'[k].arr[j]].type # "ARRAYTABLE"
    BY DEF ArrayTablesReady
  <2>1. k \in Allocated /\ keys[k].type = "ARRAYTABLE"
    BY <1>7
  <2>2. \A j \in 0 .. keys[k].idx : keys[k].arr[j] # NULL
    BY <2>1 DEF IInv, ArrayTablesReady
  <2>3. CASE k = table
    <3>1. ASSUME NEW j \in 0 .. i
          PROVE  j \in 0 .. MaxArray - 1 /\ keys'[table].arr[j] # NULL
      <4>1. j \in 0 .. MaxArray - 1 /\ (j = i \/ j \in 0 .. keys[table].idx)
        BY <1>5
      <4>2. CASE j = i
        BY <4>1, <4>2, <1>4, <1>6 DEF NULL
      <4>3. CASE j # i
        BY <4>1, <4>3, <2>2, <2>3, <1>6
      <4> QED
        BY <4>2, <4>3, <4>1
    <3>2. \A j \in 0 .. i : keys'[keys'[table].arr[j]].type = "KEY"
      BY <3>1, <1>3, <1>7 DEF ElementsPlain
    <3> QED
      BY <2>3, <3>1, <3>2, <1>5, <1>6, <1>8
  <2>4. CASE k # table
    <3>1. keys'[k] = keys[k] /\ UsedIds(k)' = {}
      BY <2>1, <2>4, <1>6, <1>7 DEF IInv, ArrayTablesReady
    <3>2. keys[k].idx >= 0 /\ keys[k].value = "array"
      BY <2>1, <2>4, <1>1, <1>3 DEF IInv, ArrayTablesReady, Stopped
    <3>3. keys[k].idx \in 0 .. MaxArray - 1
      BY <2>1, <3>2, Pointers DEF IInv, KeyType
    <3>4. \A j \in 0 .. keys[k].idx : keys'[keys[k].arr[j]].type = "KEY"
      BY <2>1, <2>2, <3>1, <3>3, <1>7 DEF ElementsPlain
    <3> QED
      BY <3>1, <3>2, <3>4, <2>2
  <2> QED
    BY <2>3, <2>4
<1>11. LeavesFresh'
  <2> SUFFICES ASSUME NEW n \in 1 .. Len(open) PROVE Fresh(open[n].key)'
    BY <1>1 DEF LeavesFresh
  <2>1. open[n].key \in Allocated /\ Fresh(open[n].key)
    BY OpenFacts DEF IInv, LeavesFresh
  <2>2. open[n].key # table /\ keys'[open[n].key] = keys[open[n].key]
    BY <2>1, <1>3, <1>6 DEF Fresh
  <2> QED
    BY <2>1, <2>2, <1>1, <1>7 DEF Fresh
<1>12. Somewhere'
  <2>1. Root \in Allocated /\ keys[Root].type # "KEYLEAF"
    BY DEF IInv, Somewhere, TypeOK, Allocated, Root
  <2> QED
    BY <2>1, <1>1, <1>3, <1>7 DEF Somewhere, Walking
<1>13. Nested'
  <2>1. ASSUME NEW n \in 1 .. Len(open)
        PROVE  keys'[open[n].keys].type # "KEYLEAF" /\ open[n].keys <= nkeys'
    <3>1. open[n].keys \in Allocated /\ keys[open[n].keys].type # "KEYLEAF"
      BY OpenFacts
    <3>2. \A k \in Allocated : k <= nkeys'
      BY <1>1 DEF Allocated, IInv, TypeOK, new
    <3> QED
      BY <3>1, <3>2, <1>7
  <2> QED
    BY <2>1, <1>1 DEF IInv, Nested
<1> QED
  BY <1>7, <1>9, <1>10, <1>11, <1>12, <1>13 DEF IInv

\* Steps that change no type and no pointer outside a leaf l, which is not
\* the key of an inline table that is still open afterwards.
LEMMA LeafChanged ==
    ASSUME IInv, NEW l \in Allocated, keys[l].type = "KEYLEAF", nkeys' = nkeys,
           keys' \in [1 .. MaxKeys -> KeyType],
           \A k \in Allocated : /\ keys'[k].type = keys[k].type
                                /\ keys'[k].idx = keys[k].idx
                                /\ keys'[k].arr = keys[k].arr,
           \A k \in Allocated \ {l} :
              /\ keys'[k].value = keys[k].value
              /\ \A id \in Ids : keys'[k].subkeys[id] \in {keys[k].subkeys[id], NULL},
           mode \in {"value", "inline"}
    PROVE  /\ ArrayTablesReady' /\ ElementsPlain'
           /\ \A k \in Allocated \ {l} : Fresh(k) => Fresh(k)'
<1>1. Allocated' = Allocated /\ Allocated \subseteq 1 .. MaxKeys
  BY DEF Allocated, IInv, TypeOK
<1>2. \A k \in Allocated \ {l} : UsedIds(k)' \subseteq UsedIds(k)
  BY DEF UsedIds, has_subkey
<1>3. ElementsPlain'
  <2> SUFFICES ASSUME NEW k \in Allocated, NEW i \in 0 .. MaxArray - 1,
                      keys'[k].arr[i] # NULL
               PROVE  keys'[keys'[k].arr[i]].type = "KEY"
    BY <1>1 DEF ElementsPlain
  <2>0. keys'[k].arr = keys[k].arr
    OBVIOUS
  <2>1. keys[k].arr[i] \in Allocated
    BY <2>0, Pointers DEF IInv
  <2> QED
    BY <2>0, <2>1 DEF IInv, ElementsPlain
<1>4. ArrayTablesReady'
  <2> SUFFICES ASSUME NEW k \in Allocated, keys'[k].type = "ARRAYTABLE"
               PROVE  /\ keys'[k].idx >= 0 /\ keys'[k].value = "array"
                      /\ UsedIds(k)' = {}
                      /\ \A j \in 0 .. keys'[k].idx :
                            /\ keys'[k].arr[j] # NULL
                            /\ keys'[keys'[k].arr[j]].type # "ARRAYTABLE"
    BY <1>1 DEF ArrayTablesReady
  <2>1. keys[k].type = "ARRAYTABLE" /\ k # l
    OBVIOUS
  <2>2. /\ keys[k].idx >= 0 /\ keys[k].value = "array" /\ UsedIds(k) = {}
        /\ \A j \in 0 .. keys[k].idx : keys[k].arr[j] # NULL
    BY <2>1 DEF IInv, ArrayTablesReady, Stopped
  <2>3. keys[k].idx \in 0 .. MaxArray - 1
    <3>1. keys[k] \in KeyType
      BY Pointers DEF IInv
    <3> QED
      BY <3>1, <2>2 DEF KeyType
  <2>4. keys'[k].arr = keys[k].arr
    OBVIOUS
  <2>5. \A j \in 0 .. MaxArray - 1 :
           keys'[k].arr[j] # NULL => keys'[keys'[k].arr[j]].type = "KEY"
    BY <1>1, <1>3 DEF ElementsPlain
  <2>6. \A j \in 0 .. keys[k].idx : keys'[keys[k].arr[j]].type = "KEY"
    BY <2>2, <2>3, <2>4, <2>5
  <2> QED
    BY <2>1, <2>2, <2>6, <1>2
<1>5. \A k \in Allocated \ {l} : Fresh(k) => Fresh(k)'
  BY <1>2 DEF Fresh
<1> QED
  BY <1>3, <1>4, <1>5

\* A key gets its value.
LEMMA SetValueStep == ASSUME IInv, SetValue PROVE IInv'
<1>1. PICK l \in Allocated : l = at /\ keys[l].type = "KEYLEAF"
  BY DEF SetValue, IInv, Somewhere, LeavesFresh, Fresh, TypeOK, Allocated, NULL
<1>2. /\ nkeys' = nkeys /\ active' = active /\ open' = open /\ mode = "value"
      /\ mode' = AfterValue(open) /\ at' = NULL
  BY DEF SetValue
<1> PICK v \in Values : keys' = [keys EXCEPT ![l].value = v]
  BY <1>1 DEF SetValue
<1>3. /\ keys' \in [1 .. MaxKeys -> KeyType]
      /\ \A k \in Allocated \ {l} : keys'[k] = keys[k]
      /\ keys'[l].type = keys[l].type /\ keys'[l].subkeys = keys[l].subkeys
      /\ keys'[l].idx = keys[l].idx /\ keys'[l].arr = keys[l].arr
  <2>1. l \in 1 .. MaxKeys /\ keys[l] \in KeyType /\ Allocated \subseteq 1 .. MaxKeys
    BY DEF IInv, TypeOK, Allocated
  <2>2. [keys[l] EXCEPT !.value = v] \in KeyType
    BY <2>1 DEF KeyType
  <2> QED
    BY <2>1, <2>2, <1>2 DEF IInv, TypeOK, KeyType
<1>4. \A k \in Allocated : keys'[k].type = keys[k].type /\ Refs(k)' = Refs(k)
  BY <1>3 DEF Refs, has_subkey
<1>5. ArrayTablesReady' /\ ElementsPlain' /\ \A k \in Allocated \ {l} : Fresh(k) => Fresh(k)'
  BY <1>1, <1>2, <1>3, <1>4, LeafChanged
<1>6. mode' \in {"statement", "inline"} /\ (mode' = "inline" => open # <<>>)
  BY <1>2 DEF AfterValue
<1>7. TypeOK'
  BY <1>2, <1>3, <1>6 DEF IInv, TypeOK, Modes, Allocated, NULL
<1>8. Acyclic'
  BY <1>2, <1>4 DEF IInv, Acyclic, Allocated
<1>9. LeavesFresh'
  <2> SUFFICES ASSUME NEW n \in 1 .. Len(open) PROVE Fresh(open[n].key)'
    BY <1>2, <1>6 DEF LeavesFresh
  <2>1. open[n].key \in Allocated /\ Fresh(open[n].key) /\ open[n].key < l
    BY <1>1, <1>2, OpenFacts DEF IInv, LeavesFresh, Nested
  <2> QED
    BY <2>1, <1>2, <1>5 DEF Allocated, IInv, TypeOK
<1>10. Somewhere'
  <2>1. \A k \in {Root, active} : k \in Allocated /\ keys[k].type # "KEYLEAF"
    BY DEF IInv, Somewhere, TypeOK, Allocated, Root
  <2> QED
    BY <2>1, <1>2, <1>4, <1>6 DEF Somewhere, Walking
<1>11. Nested'
  <2>1. \A n \in 1 .. Len(open) : keys'[open[n].keys].type # "KEYLEAF"
    BY <1>4, OpenFacts
  <2> QED
    BY <2>1, <1>2, <1>6 DEF IInv, Nested
<1> QED
  BY <1>5, <1>7, <1>8, <1>9, <1>10, <1>11 DEF IInv

\* The value is an inline table.
LEMMA OpenInlineStep == ASSUME IInv, OpenInline PROVE IInv'
<1>1. PICK l \in Allocated : l = at /\ Fresh(l)
  BY DEF OpenInline, IInv, Somewhere, LeavesFresh, TypeOK, Allocated, NULL
<1>2. PICK fresh \in Nat : fresh = new
  BY DEF IInv, TypeOK, new
<1>3. /\ mode = "value" /\ mode' = "inline" /\ CanAlloc /\ nkeys' = fresh
      /\ active' = active /\ at' = NULL
      /\ open' = Append(open, [key |-> l, keys |-> fresh])
      /\ keys' = [keys EXCEPT ![fresh] = new_key("TABLE")]
  BY <1>1, <1>2 DEF OpenInline
<1>4. /\ fresh \in 1 .. MaxKeys /\ fresh \notin Allocated /\ Allocated \subseteq 1 .. MaxKeys
      /\ \A k \in Allocated : k < fresh /\ k \in Nat
  BY <1>2, <1>3 DEF IInv, TypeOK, Allocated, new, CanAlloc
<1>5. /\ keys' \in [1 .. MaxKeys -> KeyType] /\ keys'[fresh] = new_key("TABLE")
      /\ \A k \in Allocated : keys'[k] = keys[k]
  BY <1>3, <1>4, NewKeyType DEF IInv, TypeOK, Types
<1>6. /\ Allocated' = Allocated \cup {fresh}
      /\ \A k \in Allocated : keys'[k].type = keys[k].type
      /\ keys'[fresh].type = "TABLE"
      /\ Acyclic' /\ ElementsPlain'
  BY <1>1, <1>2, <1>3, <1>5, Grown DEF Types
<1>7. \A k \in Allocated : UsedIds(k)' = UsedIds(k)
  BY <1>5 DEF UsedIds, has_subkey
<1>8. /\ Len(open') = Len(open) + 1 /\ Len(open) \in Nat
      /\ \A n \in 1 .. Len(open) : open'[n] = open[n]
      /\ open'[Len(open) + 1] = [key |-> l, keys |-> fresh]
      /\ open' \in Seq([key : 1 .. MaxKeys, keys : 1 .. MaxKeys])
  <2>1. open \in Seq([key : 1 .. MaxKeys, keys : 1 .. MaxKeys])
    BY DEF IInv, TypeOK
  <2>2. [key |-> l, keys |-> fresh] \in [key : 1 .. MaxKeys, keys : 1 .. MaxKeys]
    BY <1>4
  <2>3. open' = Append(open, [key |-> l, keys |-> fresh])
    BY <1>3
  <2> QED
    BY <2>1, <2>2, <2>3
<1>9. TypeOK'
  BY <1>3, <1>4, <1>5, <1>6, <1>8 DEF IInv, TypeOK, Modes, NULL
<1>10. ArrayTablesReady'
  <2> SUFFICES ASSUME NEW k \in Allocated, keys[k].type = "ARRAYTABLE"
               PROVE  /\ keys[k].idx >= 0 /\ keys[k].value = "array"
                      /\ UsedIds(k)' = {}
                      /\ \A j \in 0 .. keys[k].idx :
                            /\ keys[k].arr[j] # NULL
                            /\ keys'[keys[k].arr[j]].type # "ARRAYTABLE"
    BY <1>5, <1>6 DEF ArrayTablesReady
  <2>1. /\ keys[k].idx >= 0 /\ keys[k].value = "array" /\ UsedIds(k) = {}
        /\ \A j \in 0 .. keys[k].idx : keys[k].arr[j] # NULL
    BY <1>3 DEF IInv, ArrayTablesReady, Stopped
  <2>2. keys[k].idx \in 0 .. MaxArray - 1
    BY <2>1, Pointers DEF IInv, KeyType
  <2>3. \A j \in 0 .. keys[k].idx : keys'[keys[k].arr[j]].type = "KEY"
    BY <2>1, <2>2, <1>5, <1>6 DEF ElementsPlain
  <2> QED
    BY <2>1, <2>3, <1>7
<1>11. LeavesFresh'
  <2> SUFFICES ASSUME NEW n \in 1 .. Len(open') PROVE Fresh(open[n].key)'
    BY <1>3 DEF LeavesFresh
  <2>1. PICK k \in Allocated : k = open'[n].key /\ Fresh(k)
    <3>1. CASE n \in 1 .. Len(open)
      BY <3>1, <1>8, OpenFacts DEF IInv, LeavesFresh
    <3>2. CASE n = Len(open) + 1
      BY <3>2, <1>1, <1>8
    <3> QED
      BY <3>1, <3>2, <1>8
  <2>2. Fresh(k)'
    BY <2>1, <1>5, <1>7 DEF Fresh
  <2> QED
    BY <2>1, <2>2 DEF Fresh, UsedIds, has_subkey
<1>12. Somewhere'
  <2>1. \A k \in {Root, active} : k \in Allocated /\ keys[k].type # "KEYLEAF"
    BY DEF IInv, Somewhere, TypeOK, Allocated, Root
  <2>2. open' # <<>>
    BY <1>8
  <2> QED
    BY <2>1, <2>2, <1>3, <1>6 DEF Somewhere, Walking
<1>13. Nested'
  <2>1. ASSUME NEW n \in 1 .. Len(open')
        PROVE  /\ open'[n].key < open'[n].keys /\ open'[n].keys <= nkeys'
               /\ keys'[open'[n].keys].type # "KEYLEAF"
               /\ \A m \in 1 .. n - 1 : open'[m].key < open'[n].key
    <3>1. CASE n \in 1 .. Len(open)
      <4>1. open'[n] = open[n] /\ \A m \in 1 .. n - 1 : open'[m] = open[m]
        BY <3>1, <1>8
      <4>2. \A m \in 1 .. n - 1 : open[m].key < open[n].key
        BY <3>1 DEF IInv, Nested
      <4>3. /\ open[n].key < open[n].keys /\ open[n].keys \in Allocated
            /\ keys[open[n].keys].type # "KEYLEAF"
        BY <3>1, OpenFacts
      <4>4. PICK c \in Allocated : c = open[n].keys
        BY <4>3
      <4>5. c <= nkeys' /\ c < fresh
        <5>1. nkeys' = fresh
          BY <1>3
        <5> QED
          BY <5>1, <1>4
      <4>6. keys'[c].type # "KEYLEAF"
        BY <4>3, <4>4, <1>6
      <4> QED
        BY <4>1, <4>2, <4>3, <4>4, <4>5, <4>6
    <3>2. CASE n = Len(open) + 1
      <4>1. open'[n].key = l /\ open'[n].keys = fresh
        BY <3>2, <1>8
      <4>2. ASSUME NEW m \in 1 .. n - 1 PROVE open'[m].key < l
        <5>1. m \in 1 .. Len(open)
          BY <3>2, <1>8
        <5>2. open'[m] = open[m]
          BY <5>1, <1>8
        <5> QED
          BY <5>1, <5>2, <1>1, <1>3 DEF IInv, Nested
      <4>3. l < fresh /\ fresh <= nkeys' /\ keys'[fresh].type # "KEYLEAF"
        BY <1>1, <1>3, <1>4, <1>6
      <4> QED
        BY <4>1, <4>2, <4>3
    <3> QED
      BY <3>1, <3>2, <1>8
  <2> QED
    BY <2>1, <1>3 DEF Nested
<1> QED
  BY <1>6, <1>9, <1>10, <1>11, <1>12, <1>13 DEF IInv

\* The end of an inline table: its pairs move to its key.
LEMMA CloseInlineStep == ASSUME IInv, CloseInline PROVE IInv'
<1>1. CASE Clash \/ TooMany
  <2>1. /\ UNCHANGED <<keys, nkeys, active, at, open>>
        /\ mode = "inline" /\ mode' \in Stopped
    BY <1>1 DEF CloseInline, Stopped
  <2> QED
    BY <2>1, HeapUnchanged DEF IInv, TypeOK, Walking, Stopped
<1>2. CASE ~(Clash \/ TooMany)
  <2>1. PICK k \in Allocated, c \in Allocated :
           /\ k = Top.key /\ c = Top.keys /\ k < c
           /\ keys[k].type = "KEYLEAF" /\ keys[c].type # "KEYLEAF"
    BY OpenFacts DEF CloseInline
  <2> DEFINE rest == SubSeq(open, 1, Len(open) - 1)
  <2>2. /\ mode = "inline" /\ mode' = AfterValue(rest) /\ open' = rest
        /\ nkeys' = nkeys /\ active' = active /\ at' = at
        /\ keys' = [keys EXCEPT ![k].subkeys = Merged, ![k].type = "KEYLEAF",
                                ![c].subkeys = NoSubkeys]
    BY <1>2, <2>1 DEF CloseInline
  <2>3. /\ k \in 1 .. MaxKeys /\ c \in 1 .. MaxKeys /\ k # c
        /\ keys[k] \in KeyType /\ keys[c] \in KeyType
        /\ Allocated \subseteq 1 .. MaxKeys
    BY <2>1 DEF IInv, TypeOK, Allocated
  <2>4. /\ Merged \in [Ids -> 0 .. MaxKeys] /\ NoSubkeys \in [Ids -> 0 .. MaxKeys]
        /\ \A id \in Ids : /\ Merged[id] \in {has_subkey(k, id), has_subkey(c, id)}
                           /\ NoSubkeys[id] = NULL
    <3>1. \A id \in Ids : has_subkey(k, id) \in 0 .. MaxKeys /\ has_subkey(c, id) \in 0 .. MaxKeys
      BY <2>3 DEF has_subkey, KeyType
    <3>2. Merged = [id \in Ids |-> IF has_subkey(k, id) # NULL
                                   THEN has_subkey(k, id) ELSE has_subkey(c, id)]
      BY <2>1 DEF Merged
    <3> QED
      BY <3>1, <3>2 DEF NoSubkeys, NULL
  <2>5. /\ keys' \in [1 .. MaxKeys -> KeyType]
        /\ \A x \in 1 .. MaxKeys : /\ keys'[x].type = keys[x].type
                                   /\ keys'[x].value = keys[x].value
                                   /\ keys'[x].idx = keys[x].idx
                                   /\ keys'[x].arr = keys[x].arr
        /\ keys'[k].subkeys = Merged /\ keys'[c].subkeys = NoSubkeys
        /\ \A x \in 1 .. MaxKeys \ {k, c} : keys'[x] = keys[x]
    <3> DEFINE a == [keys[k] EXCEPT !.subkeys = Merged, !.type = "KEYLEAF"]
               b == [keys[c] EXCEPT !.subkeys = NoSubkeys]
    <3>1. a \in KeyType /\ b \in KeyType
      BY <2>3, <2>4 DEF KeyType, Types
    <3>2. /\ a.type = keys[k].type /\ a.value = keys[k].value
          /\ a.idx = keys[k].idx /\ a.arr = keys[k].arr /\ a.subkeys = Merged
      BY <2>1, <2>3 DEF KeyType
    <3>3. /\ b.type = keys[c].type /\ b.value = keys[c].value
          /\ b.idx = keys[c].idx /\ b.arr = keys[c].arr /\ b.subkeys = NoSubkeys
      BY <2>3 DEF KeyType
    <3>4. keys' = [x \in 1 .. MaxKeys |-> IF x = k THEN a
                                          ELSE IF x = c THEN b ELSE keys[x]]
      BY <2>2, <2>3 DEF IInv, TypeOK
    <3> HIDE DEF a, b
    <3> QED
      BY <3>1, <3>2, <3>3, <3>4, <2>3 DEF IInv, TypeOK
  <2>6. Len(open) \in 1 .. Len(open) /\ Top = open[Len(open)] /\ Len(open) \in Nat
    BY <2>2, OpenFacts
  <2>7. /\ rest \in Seq([key : 1 .. MaxKeys, keys : 1 .. MaxKeys])
        /\ Len(rest) = Len(open) - 1
        /\ \A n \in 1 .. Len(rest) : rest[n] = open[n] /\ n \in 1 .. Len(open)
    <3>1. open \in Seq([key : 1 .. MaxKeys, keys : 1 .. MaxKeys])
      BY DEF IInv, TypeOK
    <3>. Len(open) - 1 \in 0 .. Len(open)
      BY <2>6
    <3>2. PICK l \in 0 .. Len(open) : l = Len(open) - 1
      OBVIOUS
    <3>3. rest = SubSeq(open, 1, l)
      BY <3>2
    <3>4. /\ SubSeq(open, 1, l) \in Seq([key : 1 .. MaxKeys, keys : 1 .. MaxKeys])
          /\ Len(SubSeq(open, 1, l)) = l
          /\ \A i \in 1 .. l : SubSeq(open, 1, l)[i] = open[i]
      BY <3>1, FrontOfSeq
    <3> HIDE DEF rest
    <3> QED
      BY <3>2, <3>3, <3>4
  <2> HIDE DEF rest
  <2>8. mode' \in {"statement", "inline"} /\ (mode' = "inline" => open' # <<>>)
    BY <2>2 DEF AfterValue
  <2>9. TypeOK'
    BY <2>2, <2>5, <2>7, <2>8 DEF IInv, TypeOK, Modes, Allocated
  <2>10. ArrayTablesReady' /\ ElementsPlain'
         /\ \A x \in Allocated \ {k} : Fresh(x) => Fresh(x)'
    <3>1. \A x \in Allocated \ {k} : \A id \in Ids :
             keys'[x].subkeys[id] \in {keys[x].subkeys[id], NULL}
      BY <2>1, <2>3, <2>4, <2>5
    <3> QED
      BY <3>1, <2>1, <2>2, <2>3, <2>5, LeafChanged
  <2>11. Acyclic'
    <3> SUFFICES ASSUME NEW x \in Allocated, NEW r \in Refs(x)'
                 PROVE  x < r /\ r <= nkeys
      BY <2>2 DEF Acyclic, Allocated
    <3>1. \/ \E id \in Ids : r = keys'[x].subkeys[id]
          \/ \E i \in 0 .. MaxArray - 1 : r = keys[x].arr[i]
      BY <2>3, <2>5 DEF Refs, has_subkey
    <3>2. r # NULL
      BY DEF Refs
    <3>3. ASSUME NEW y \in Allocated,
                 \/ \E id \in Ids : r = has_subkey(y, id)
                 \/ \E i \in 0 .. MaxArray - 1 : r = keys[y].arr[i]
          PROVE  y < r /\ r <= nkeys
      BY <3>2, <3>3 DEF IInv, Acyclic, Refs
    <3>4. CASE x = k
      <4>1. (r \in Int /\ k < r /\ r <= nkeys) \/ (r \in Int /\ c < r /\ r <= nkeys)
        <5>1. \/ \E id \in Ids : r = has_subkey(k, id)
              \/ \E id \in Ids : r = has_subkey(c, id)
              \/ \E i \in 0 .. MaxArray - 1 : r = keys[k].arr[i]
          BY <3>1, <3>4, <2>4, <2>5
        <5>2. (k < r /\ r <= nkeys) \/ (c < r /\ r <= nkeys)
          BY <5>1, <3>3
        <5>3. r \in Int
          BY <5>1, <2>3 DEF has_subkey, KeyType
        <5> QED
          BY <5>2, <5>3
      <4> QED
        BY <4>1, <3>4, <2>1, <2>3
    <3>5. CASE x = c
      BY <3>1, <3>2, <3>3, <3>5, <2>4, <2>5
    <3>6. CASE x \notin {k, c}
      BY <3>1, <3>3, <3>6, <2>3, <2>5 DEF has_subkey
    <3> QED
      BY <3>4, <3>5, <3>6
  <2>12. LeavesFresh'
    <3> SUFFICES ASSUME NEW n \in 1 .. Len(rest) PROVE Fresh(open[n].key)'
      BY <2>2, <2>8 DEF LeavesFresh
    <3>1. PICK x \in Allocated : x = open'[n].key /\ Fresh(x) /\ x # k
      <4>1. n \in 1 .. Len(open) - 1 /\ n \in 1 .. Len(open) /\ open'[n] = open[n]
        BY <2>2, <2>6, <2>7
      <4>2. open[n].key < k
        BY <4>1, <2>1, <2>6 DEF IInv, Nested
      <4>3. open[n].key \in Allocated /\ Fresh(open[n].key)
        BY <4>1, OpenFacts DEF IInv, LeavesFresh
      <4>4. open[n].key # k
        BY <4>2, <4>3, <2>3
      <4> QED
        BY <4>1, <4>3, <4>4
    <3>2. Fresh(x)'
      BY <3>1, <2>10
    <3> QED
      BY <3>1, <3>2 DEF Fresh, UsedIds, has_subkey
  <2>13. Somewhere'
    <3>1. \A x \in {Root, active} : x \in 1 .. MaxKeys /\ keys[x].type # "KEYLEAF"
      BY DEF IInv, Somewhere, TypeOK, Allocated, Root
    <3> QED
      BY <3>1, <2>2, <2>5, <2>8 DEF Somewhere, Walking
  <2>14. Nested'
    <3>1. ASSUME NEW n \in 1 .. Len(rest)
          PROVE  /\ open'[n].key < open'[n].keys /\ open'[n].keys <= nkeys'
                 /\ keys'[open'[n].keys].type # "KEYLEAF"
                 /\ \A m \in 1 .. n - 1 : open'[m].key < open'[n].key
      <4>1. n \in 1 .. Len(open) /\ open'[n] = open[n]
        BY <2>2, <2>7
      <4>2. /\ open[n].key < open[n].keys /\ open[n].keys <= nkeys
            /\ open[n].keys \in 1 .. MaxKeys /\ keys[open[n].keys].type # "KEYLEAF"
        BY <4>1, <2>3, OpenFacts DEF IInv, Nested
      <4>3. \A m \in 1 .. n - 1 : open'[m] = open[m]
        <5>1. \A m \in 1 .. n - 1 : m \in 1 .. Len(rest)
          BY <2>6, <2>7
        <5> QED
          BY <5>1, <2>2, <2>7
      <4>4. \A m \in 1 .. n - 1 : open[m].key < open[n].key
        BY <4>1 DEF IInv, Nested
      <4> QED
        BY <4>1, <4>2, <4>3, <4>4, <2>2, <2>5
    <3> QED
      BY <3>1, <2>2, <2>8 DEF Nested
  <2> QED
    BY <2>9, <2>10, <2>11, <2>12, <2>13, <2>14 DEF IInv
<1> QED
  BY <1>1, <1>2

-----------------------------------------------------------------------------
(* The inductive invariant. *)

LEMMA StepInv == ASSUME IInv, [Next]_vars PROVE IInv'
<1>1. CASE StartKey \/ StartTable \/ ArrayOverflow \/ InlineKey \/ Finish \/ Invalid
  BY <1>1, QuietSteps
<1>2. CASE Segment
  <2> PICK id \in Ids : \/ Overflow(id)
                        \/ \E final \in BOOLEAN : \/ Descend(id, final)
                                                  \/ Redefine(id, final)
                                                  \/ Create(id, final)
    BY <1>2 DEF Segment
  <2>1. CASE Overflow(id) \/ \E final \in BOOLEAN : Redefine(id, final)
    BY <2>1, QuietSteps
  <2>2. CASE \E final \in BOOLEAN : Descend(id, final)
    BY <2>2, DescendStep
  <2>3. CASE \E final \in BOOLEAN : Create(id, final)
    BY <2>3, CreateStep
  <2> QED
    BY <2>1, <2>2, <2>3
<1>3. CASE NewElement
  BY <1>3, NewElementStep
<1>4. CASE SetValue
  BY <1>4, SetValueStep
<1>5. CASE OpenInline
  BY <1>5, OpenInlineStep
<1>6. CASE CloseInline
  BY <1>6, CloseInlineStep
<1>7. CASE UNCHANGED vars
  <2>1. /\ TypeOK' /\ Acyclic' /\ ArrayTablesReady' /\ LeavesFresh'
    BY <1>7 DEF vars, IInv, TypeOK, Acyclic, ArrayTablesReady, LeavesFresh, Fresh,
       Refs, UsedIds, has_subkey, Allocated
  <2>2. ElementsPlain' /\ Somewhere' /\ Nested'
    BY <1>7 DEF vars, IInv, ElementsPlain, Somewhere, Nested, Allocated
  <2> QED
    BY <2>1, <2>2 DEF IInv
<1> QED
  BY <1>1, <1>2, <1>3, <1>4, <1>5, <1>6, <1>7 DEF Next, Halted

LEMMA Inductive == Spec => []IInv
<1>1. Init => IInv
  BY InitInv
<1>2. IInv /\ [Next]_vars => IInv'
  BY StepInv
<1> QED
  BY <1>1, <1>2, PTL DEF Spec

(***************************************************************************)
(* Every field of every key keeps its range and no pointer leaves the      *)
(* heap, whatever the limits of models.h are.                              *)
(***************************************************************************)
THEOREM TypeCorrect == Spec => []TypeOK
<1>1. IInv => TypeOK
  BY DEF IInv
<1> QED
  BY <1>1, Inductive, PTL

(***************************************************************************)
(* A key only ever points to keys that were allocated after it, so that    *)
(* toml_json_dump and toml_free, which recurse along those pointers, end.  *)
(***************************************************************************)
THEOREM PointersForward == Spec => []Acyclic
<1>1. IInv => Acyclic
  BY DEF IInv
<1> QED
  BY <1>1, Inductive, PTL

(***************************************************************************)
(* When add_subkey reaches an array table, value->arr[ idx ] is there to   *)
(* be dereferenced (key.c:44).                                             *)
(***************************************************************************)
THEOREM ArrayTablesSafe == Spec => []ArrayTablesReady
<1>1. IInv => ArrayTablesReady
  BY DEF IInv
<1> QED
  BY <1>1, Inductive, PTL

(***************************************************************************)
(* The key of an inline table is an empty leaf until the inline table is   *)
(* closed, however deep the tables in it are nested.                       *)
(***************************************************************************)
THEOREM InlineKeysFresh == Spec => []LeavesFresh
<1>1. IInv => LeavesFresh
  BY DEF IInv
<1> QED
  BY <1>1, Inductive, PTL

-----------------------------------------------------------------------------
(* Values are never lost. *)

\* Only leaves and array tables have a value, and a key that has one has no
\* subkeys.
Valued ==
    /\ \A k \in Allocated : /\ keys[k].value \in Values => keys[k].type = "KEYLEAF"
                            /\ keys[k].value = "array" => keys[k].type = "ARRAYTABLE"
    /\ ValueOrSubkeys

\* What a step may do to the value of a key that is there already.
Stays(k) == /\ keys'[k].value = keys[k].value
            /\ keys[k].value # "none" => /\ keys'[k].type = keys[k].type
                                         /\ UsedIds(k)' \subseteq UsedIds(k)
Gets(k)  == /\ k = at /\ mode \in {"element", "value"}
            /\ UsedIds(k)' = {} /\ keys'[k].type = keys[k].type
            /\ \/ /\ keys[k].value = "none" /\ keys'[k].value \in Values
                  /\ keys[k].type = "KEYLEAF"
               \/ /\ keys[k].value \in {"none", "array"} /\ keys'[k].value = "array"
                  /\ keys[k].type = "ARRAYTABLE"
Kept     == /\ \A k \in Allocated : k \in Allocated' /\ (Stays(k) \/ Gets(k))
            /\ \A k \in Allocated' \ Allocated : keys'[k].value = "none"

LEMMA KeptValued ==
    ASSUME Valued, Kept
    PROVE  /\ Valued'
           /\ \A k \in Allocated : keys[k].value # "none"
                                     => keys'[k].value = keys[k].value
<1>1. ASSUME NEW k \in Allocated
      PROVE  /\ keys'[k].value \in Values => keys'[k].type = "KEYLEAF"
             /\ keys'[k].value = "array" => keys'[k].type = "ARRAYTABLE"
             /\ keys'[k].value # "none" => UsedIds(k)' = {}
             /\ keys[k].value # "none" => keys'[k].value = keys[k].value
  <2>1. CASE Stays(k)
    BY ValuesAssumption, <2>1 DEF Stays, Valued, ValueOrSubkeys
  <2>2. CASE Gets(k)
    BY ValuesAssumption, <2>2 DEF Gets, Valued
  <2> QED
    BY <2>1, <2>2 DEF Kept
<1>2. \A k \in Allocated' :
         /\ keys'[k].value \in Values => keys'[k].type = "KEYLEAF"
         /\ keys'[k].value = "array" => keys'[k].type = "ARRAYTABLE"
         /\ keys'[k].value # "none" => UsedIds(k)' = {}
  BY ValuesAssumption, <1>1 DEF Kept
<1> QED
  BY <1>1, <1>2 DEF Valued, ValueOrSubkeys

\* Every step keeps the values.
LEMMA StepKeeps == ASSUME IInv, Valued, [Next]_vars PROVE Kept
<1>1. /\ \A k \in Allocated : k \in 1 .. MaxKeys /\ keys[k] \in KeyType
      /\ keys \in [1 .. MaxKeys -> KeyType] /\ nkeys \in Nat /\ Allocated = 1 .. nkeys
  BY Pointers DEF IInv, TypeOK, Allocated
<1>2. CASE UNCHANGED <<keys, nkeys>>
  BY <1>2 DEF Kept, Stays, UsedIds, has_subkey, Allocated
<1>3. ASSUME NEW id \in Ids, NEW final \in BOOLEAN, Descend(id, final)
      PROVE  Kept
  <2>1. PICK s \in Allocated : s = Found(at, id)
    BY <1>3, HolderFacts DEF Descend
  <2>2. /\ nkeys' = nkeys /\ compatible_keys(keys[s].type, NewType(final))
        /\ keys' = IF NewType(final) = "TABLELEAF"
                   THEN [keys EXCEPT ![s].type = "TABLELEAF"] ELSE keys
    BY <1>3, <2>1 DEF Descend
  <2>3. CASE keys' = keys
    BY <2>2, <2>3, <1>2
  <2>4. CASE keys[s].type = "TABLE" /\ keys' = [keys EXCEPT ![s].type = "TABLELEAF"]
    <3>1. keys[s].value = "none"
      BY <2>4, <1>1 DEF Valued, KeyType
    <3>2. ASSUME NEW k \in Allocated
          PROVE  /\ keys'[k].value = keys[k].value /\ keys'[k].subkeys = keys[k].subkeys
                 /\ k # s => keys'[k] = keys[k]
      BY <2>4, <1>1 DEF KeyType
    <3> QED
      BY <3>1, <3>2, <2>2 DEF Kept, Stays, UsedIds, has_subkey, Allocated
  <2> QED
    BY <2>2, <2>3, <2>4 DEF compatible_keys
<1>4. ASSUME NEW id \in Ids, NEW final \in BOOLEAN, Create(id, final)
      PROVE  Kept
  <2>1. PICK h \in Allocated :
           h = Holder(at, id) /\ keys[h].type \notin {"ARRAYTABLE", "KEYLEAF"}
    BY <1>4, HolderFacts DEF Create
  <2>2. PICK fresh \in 1 .. MaxKeys : fresh = new /\ Allocated' = Allocated \cup {fresh}
    BY <1>4, <1>1 DEF Create, CanAlloc, new, Allocated
  <2>3. /\ keys' = [keys EXCEPT ![h].subkeys[id] = fresh, ![fresh] = new_key(NewType(final))]
        /\ fresh \notin Allocated /\ NewType(final) \in Types
    BY <1>4, <1>1, <2>1, <2>2 DEF Create, new, NewType, Types, Walking
  <2>4. keys[h].value = "none"
    BY <2>1, <1>1 DEF Valued, KeyType
  <2>5. ASSUME NEW k \in Allocated
        PROVE  keys'[k].value = keys[k].value /\ (k # h => keys'[k] = keys[k])
    BY <2>3, <1>1 DEF KeyType
  <2>6. keys'[fresh].value = "none"
    BY <2>3, <1>1, NewKeyType
  <2> QED
    BY <2>2, <2>4, <2>5, <2>6 DEF Kept, Stays, UsedIds, has_subkey
<1>5. CASE NewElement
  <2>1. PICK table \in Allocated : table = at /\ keys[table].type = "ARRAYTABLE"
                                /\ mode = "element"
    BY <1>5 DEF NewElement, IInv, Somewhere, TypeOK, Allocated, NULL
  <2>2. PICK fresh \in 1 .. MaxKeys : fresh = new /\ Allocated' = Allocated \cup {fresh}
    BY <1>5, <1>1 DEF NewElement, CanAlloc, new, Allocated
  <2>3. /\ fresh \notin Allocated
        /\ keys' = [keys EXCEPT ![table].value = "array",
                                ![table].idx = keys[table].idx + 1,
                                ![table].arr[keys[table].idx + 1] = fresh,
                                ![fresh] = new_key("KEY")]
    BY <1>5, <1>1, <2>1, <2>2 DEF NewElement, new
  <2>4. ASSUME NEW k \in Allocated
        PROVE  /\ k # table => keys'[k] = keys[k]
               /\ keys'[k].subkeys = keys[k].subkeys /\ keys'[k].type = keys[k].type
    BY <2>3, <1>1 DEF KeyType
  <2>5. keys'[table].value = "array" /\ keys'[fresh].value = "none"
    BY <2>3, <1>1, NewKeyType DEF Types, KeyType
  <2>6. UsedIds(table) = {} /\ keys[table].value \in {"none", "array"}
    BY <2>1, <1>1 DEF IInv, ArrayTablesReady, Valued, KeyType
  <2>7. \A k \in Allocated : UsedIds(k)' = UsedIds(k)
    BY <2>4 DEF UsedIds, has_subkey
  <2>8. \A k \in Allocated \ {table} : Stays(k)
    BY <2>4, <2>7 DEF Stays
  <2>9. Gets(table)
    BY <2>1, <2>4, <2>5, <2>6, <2>7 DEF Gets
  <2> QED
    BY <2>2, <2>5, <2>8, <2>9 DEF Kept
<1>6. CASE SetValue
  <2>1. PICK l \in Allocated : l = at /\ mode = "value" /\ Fresh(l)
    BY <1>6 DEF SetValue, IInv, Somewhere, LeavesFresh, TypeOK, Allocated, NULL
  <2>2. nkeys' = nkeys
    BY <1>6 DEF SetValue
  <2> PICK v \in Values : keys' = [keys EXCEPT ![l].value = v]
    BY <1>6, <2>1 DEF SetValue
  <2>3. ASSUME NEW k \in Allocated
        PROVE  /\ k # l => keys'[k] = keys[k]
               /\ keys'[k].subkeys = keys[k].subkeys /\ keys'[k].type = keys[k].type
    BY <2>2, <1>1 DEF KeyType
  <2>4. keys'[l].value = v
    BY <2>2, <1>1 DEF KeyType
  <2>5. \A k \in Allocated : UsedIds(k)' = UsedIds(k)
    BY <2>3 DEF UsedIds, has_subkey
  <2> QED
    BY <2>1, <2>2, <2>3, <2>4, <2>5 DEF Kept, Stays, Gets, Fresh, Allocated
<1>7. CASE OpenInline
  <2>1. PICK fresh \in 1 .. MaxKeys : fresh = new /\ Allocated' = Allocated \cup {fresh}
    BY <1>7, <1>1 DEF OpenInline, CanAlloc, new, Allocated
  <2>2. keys' = [keys EXCEPT ![fresh] = new_key("TABLE")] /\ fresh \notin Allocated
    BY <1>7, <1>1, <2>1 DEF OpenInline, new
  <2>3. \A k \in Allocated : keys'[k] = keys[k]
    BY <2>2, <1>1
  <2>4. keys'[fresh].value = "none"
    BY <2>2, <1>1, NewKeyType DEF Types
  <2> QED
    BY <2>1, <2>3, <2>4 DEF Kept, Stays, UsedIds, has_subkey
<1>8. CASE CloseInline
  <2>1. CASE keys' = keys
    BY <2>1, <1>2, <1>8 DEF CloseInline
  <2>2. CASE keys' # keys
    <3>1. PICK l \in Allocated, c \in Allocated : l = Top.key /\ c = Top.keys /\ l # c
      BY <1>8, <1>1, OpenFacts DEF CloseInline
    <3>2. keys[l].value = "none" /\ nkeys' = nkeys
      BY <1>8, <3>1, OpenFacts DEF CloseInline, IInv, LeavesFresh, Fresh
    <3>3. keys' = [keys EXCEPT ![l].subkeys = Merged, ![l].type = "KEYLEAF",
                               ![c].subkeys = NoSubkeys]
      BY <1>8, <2>2, <3>1 DEF CloseInline
    <3>4. ASSUME NEW k \in Allocated
          PROVE  /\ keys'[k].value = keys[k].value
                 /\ k # l => keys'[k].type = keys[k].type
                 /\ k \notin {l, c} => keys'[k] = keys[k]
      BY <3>1, <3>3, <1>1 DEF KeyType
    <3>5. keys'[c].subkeys = NoSubkeys
      BY <3>1, <3>3, <1>1 DEF KeyType
    <3>6. UsedIds(c)' = {}
      BY <3>5 DEF UsedIds, has_subkey, NoSubkeys
    <3>7. \A k \in Allocated \ {l} : UsedIds(k)' \subseteq UsedIds(k)
      BY <3>4, <3>6 DEF UsedIds, has_subkey
    <3> QED
      BY <3>2, <3>4, <3>7 DEF Kept, Stays, Allocated
  <2> QED
    BY <2>1, <2>2
<1>9. UNCHANGED <<keys, nkeys>> \/ (\E id \in Ids, final \in BOOLEAN :
                                       Descend(id, final) \/ Create(id, final))
         \/ NewElement \/ SetValue \/ OpenInline \/ CloseInline
  BY DEF Next, Segment, StartKey, StartTable, Overflow, Redefine, ArrayOverflow,
     InlineKey, Finish, Invalid, Halted, vars
<1> QED
  BY <1>2, <1>3, <1>4, <1>5, <1>6, <1>7, <1>8, <1>9

LEMMA ValuedInductive == Spec => [](IInv /\ Valued)
<1>1. Init => IInv /\ Valued
  <2>1. Init => \A k \in Allocated : keys[k].value = "none"
    BY NewKeyType DEF Init, Allocated, Types
  <2> QED
    BY ValuesAssumption, <2>1, InitInv DEF Valued, ValueOrSubkeys
<1>2. IInv /\ Valued /\ [Next]_vars => IInv' /\ Valued'
  BY StepInv, StepKeeps, KeptValued
<1> QED
  BY <1>1, <1>2, PTL DEF Spec

(***************************************************************************)
(* No key has both a value and subkeys, of which toml_json_dump would      *)
(* print only the value.                                                   *)
(***************************************************************************)
THEOREM NothingHidden == Spec => []ValueOrSubkeys
<1>1. Valued => ValueOrSubkeys
  BY DEF Valued
<1> QED
  BY <1>1, ValuedInductive, PTL

-----------------------------------------------------------------------------
(***************************************************************************)
(* The keys form a tree, and no map outgrows its limit: what the steps do  *)
(* to the pointers, on top of the invariant above.                         *)
(***************************************************************************)
Cell(k, i) == keys[k].arr[i]
Indices    == 0 .. MaxArray - 1

\* No two pointers lead to the same key, and none to the container of an open
\* inline table.
Unshared ==
    /\ \A j, k \in Allocated : \A a, b \in Ids :
          has_subkey(j, a) = has_subkey(k, b) => has_subkey(j, a) = NULL \/ (j = k /\ a = b)
    /\ \A j, k \in Allocated : \A a, b \in Indices :
          Cell(j, a) = Cell(k, b) => Cell(j, a) = NULL \/ (j = k /\ a = b)
    /\ \A j, k \in Allocated : \A a \in Ids, b \in Indices :
          has_subkey(j, a) = Cell(k, b) => has_subkey(j, a) = NULL
    /\ \A n \in 1 .. Len(open) : \A k \in Allocated :
          /\ \A a \in Ids : has_subkey(k, a) # open[n].keys
          /\ \A b \in Indices : Cell(k, b) # open[n].keys

\* Every map is within its limit.
Bounded == \A k \in Allocated : /\ IsFiniteSet(UsedIds(k))
                                /\ Cardinality(UsedIds(k)) <= MaxSubkeys

ShapeInv == Unshared /\ Bounded

-----------------------------------------------------------------------------

LEMMA InitShape == Init => ShapeInv
<1> SUFFICES ASSUME Init PROVE ShapeInv
  OBVIOUS
<1>1. /\ Allocated = {1} /\ 1 \in 1 .. MaxKeys /\ open = <<>>
      /\ keys[1] = new_key("TABLE")
  BY DEF Init, Allocated
<1>2. /\ \A id \in Ids : has_subkey(1, id) = NULL
      /\ \A i \in Indices : Cell(1, i) = NULL
  BY <1>1, NewKeyType DEF has_subkey, Cell, Indices, Types
<1>3. Unshared
  BY <1>1, <1>2 DEF Unshared
<1>4. UsedIds(1) = {}
  BY <1>2 DEF UsedIds
<1>5. Bounded
  BY <1>1, <1>4, FS_EmptySet DEF Bounded
<1> QED
  BY <1>3, <1>5 DEF ShapeInv

-----------------------------------------------------------------------------
(* Pointers that stay where they are, but for one that leads to a new key. *)

\* x is where the pointer was, or nowhere, or the new key.
Settled(before, after, fresh) == after \in {before, NULL, fresh}

LEMMA StillUnshared ==
    ASSUME IInv, Unshared, NEW fresh \in Nat \ Allocated, fresh # NULL,
           Allocated' \subseteq Allocated \cup {fresh},
           \A id \in Ids : fresh \in Allocated' => has_subkey(fresh, id)' = NULL,
           \A i \in Indices : fresh \in Allocated' => Cell(fresh, i)' = NULL,
           \A k \in Allocated : \A id \in Ids :
              Settled(has_subkey(k, id), has_subkey(k, id)', fresh),
           \A k \in Allocated : \A i \in Indices :
              Settled(Cell(k, i), Cell(k, i)', fresh),
           \A j, k \in Allocated : \A a, b \in Ids :
              has_subkey(j, a)' = fresh /\ has_subkey(k, b)' = fresh => j = k /\ a = b,
           \A j, k \in Allocated : \A a, b \in Indices :
              Cell(j, a)' = fresh /\ Cell(k, b)' = fresh => j = k /\ a = b,
           \A j, k \in Allocated : \A a \in Ids, b \in Indices :
              ~(has_subkey(j, a)' = fresh /\ Cell(k, b)' = fresh),
           \A n \in 1 .. Len(open') :
              \/ n \in 1 .. Len(open) /\ open'[n].keys = open[n].keys
              \/ /\ open'[n].keys = fresh
                 /\ \A k \in Allocated : /\ \A a \in Ids : has_subkey(k, a)' # fresh
                                         /\ \A b \in Indices : Cell(k, b)' # fresh
    PROVE  Unshared'
<1>1. ASSUME NEW k \in Allocated
      PROVE  /\ \A id \in Ids : has_subkey(k, id) # fresh
             /\ \A i \in Indices : Cell(k, i) # fresh
  BY Pointers DEF IInv, Cell, Indices
<1>2. /\ \A n \in 1 .. Len(open) : open[n].keys # fresh /\ open[n].keys # NULL
      /\ NULL \notin Allocated
  BY OpenFacts DEF Allocated, NULL
<1>3. ASSUME NEW j \in Allocated', NEW k \in Allocated', NEW a \in Ids, NEW b \in Ids,
             has_subkey(j, a)' = has_subkey(k, b)'
      PROVE  has_subkey(j, a)' = NULL \/ (j = k /\ a = b)
  <2>1. CASE j = fresh \/ k = fresh
    BY <1>3, <2>1
  <2>2. CASE j \in Allocated /\ k \in Allocated
    BY <1>1, <1>3, <2>2 DEF Unshared, Settled
  <2> QED
    BY <2>1, <2>2
<1>4. ASSUME NEW j \in Allocated', NEW k \in Allocated', NEW a \in Indices, NEW b \in Indices,
             Cell(j, a)' = Cell(k, b)'
      PROVE  Cell(j, a)' = NULL \/ (j = k /\ a = b)
  <2>1. CASE j = fresh \/ k = fresh
    BY <1>4, <2>1
  <2>2. CASE j \in Allocated /\ k \in Allocated
    BY <1>1, <1>4, <2>2 DEF Unshared, Settled
  <2> QED
    BY <2>1, <2>2
<1>5. ASSUME NEW j \in Allocated', NEW k \in Allocated', NEW a \in Ids, NEW b \in Indices,
             has_subkey(j, a)' = Cell(k, b)'
      PROVE  has_subkey(j, a)' = NULL
  <2>1. CASE j = fresh \/ k = fresh
    BY <1>5, <2>1
  <2>2. CASE j \in Allocated /\ k \in Allocated
    BY <1>1, <1>5, <2>2 DEF Unshared, Settled
  <2> QED
    BY <2>1, <2>2
<1>6. ASSUME NEW n \in 1 .. Len(open'), NEW k \in Allocated'
      PROVE  /\ \A a \in Ids : has_subkey(k, a)' # open'[n].keys
             /\ \A b \in Indices : Cell(k, b)' # open'[n].keys
  <2>1. CASE k = fresh
    BY <1>2, <2>1
  <2>2. CASE k \in Allocated /\ n \in 1 .. Len(open) /\ open'[n].keys = open[n].keys
    BY <1>2, <2>2 DEF Unshared, Settled
  <2>3. CASE k \in Allocated /\ open'[n].keys = fresh
    BY <1>2, <2>3
  <2> QED
    BY <2>1, <2>2, <2>3
<1> QED
  BY <1>3, <1>4, <1>5, <1>6 DEF Unshared, Indices

\* Maps that are what some map was, or empty.
LEMMA StillBounded ==
    ASSUME Bounded,
           \A k \in Allocated' : UsedIds(k)' = {} \/ \E j \in Allocated : UsedIds(k)' = UsedIds(j)
    PROVE  Bounded'
<1>1. IsFiniteSet({}) /\ Cardinality({}) <= MaxSubkeys
  BY FS_EmptySet
<1> SUFFICES ASSUME NEW k \in Allocated'
             PROVE  IsFiniteSet(UsedIds(k)') /\ Cardinality(UsedIds(k)') <= MaxSubkeys
  BY DEF Bounded
<1> QED
  BY <1>1 DEF Bounded

\* Steps that leave the pointers and the open inline tables alone.
LEMMA SamePointers ==
    ASSUME IInv, ShapeInv, nkeys' = nkeys, open' = open,
           \A k \in Allocated : /\ keys'[k].subkeys = keys[k].subkeys
                                /\ keys'[k].arr = keys[k].arr
    PROVE  ShapeInv'
<1>1. /\ Allocated' = Allocated
      /\ \A k \in Allocated : /\ \A id \in Ids : has_subkey(k, id)' = has_subkey(k, id)
                              /\ \A i \in Indices : Cell(k, i)' = Cell(k, i)
  BY DEF Allocated, has_subkey, Cell, Indices
<1>2. Unshared'
  BY <1>1 DEF ShapeInv, Unshared, Indices
<1>3. \A k \in Allocated : UsedIds(k)' = UsedIds(k)
  BY <1>1 DEF UsedIds
<1>4. Bounded'
  BY <1>1, <1>3 DEF ShapeInv, Bounded
<1> QED
  BY <1>2, <1>4 DEF ShapeInv

LEMMA QuietShape ==
    ASSUME IInv, ShapeInv,
           \/ StartKey \/ StartTable \/ ArrayOverflow \/ InlineKey \/ SetValue
           \/ Finish \/ Invalid \/ UNCHANGED vars
           \/ \E id \in Ids : \/ Overflow(id)
                             \/ \E final \in BOOLEAN : Redefine(id, final) \/ Descend(id, final)
    PROVE  ShapeInv'
<1>1. /\ keys \in [1 .. MaxKeys -> KeyType] /\ Allocated \subseteq 1 .. MaxKeys
  BY DEF IInv, TypeOK, Allocated
<1>2. CASE UNCHANGED <<keys, nkeys, open>>
  BY <1>2, SamePointers
<1>3. CASE SetValue
  <2>1. PICK v \in Values : keys' = [keys EXCEPT ![at].value = v]
    BY <1>3 DEF SetValue
  <2>2. \A k \in Allocated : /\ keys'[k].subkeys = keys[k].subkeys
                             /\ keys'[k].arr = keys[k].arr
    BY <2>1, <1>1 DEF KeyType
  <2> QED
    BY <2>2, <1>3, SamePointers DEF SetValue
<1>4. ASSUME NEW id \in Ids, NEW final \in BOOLEAN, Descend(id, final)
      PROVE  ShapeInv'
  <2>1. PICK s \in 1 .. MaxKeys : s = Found(at, id)
    BY <1>1, <1>4, HolderFacts DEF Descend
  <2>2. keys' = keys \/ keys' = [keys EXCEPT ![s].type = "TABLELEAF"]
    BY <1>4, <2>1 DEF Descend
  <2>3. \A k \in Allocated : /\ keys'[k].subkeys = keys[k].subkeys
                             /\ keys'[k].arr = keys[k].arr
    <3>1. CASE keys' = [keys EXCEPT ![s].type = "TABLELEAF"]
      BY <3>1, <1>1 DEF KeyType
    <3> QED
      BY <3>1, <2>2
  <2> QED
    BY <2>3, <1>4, SamePointers DEF Descend
<1> QED
  BY <1>2, <1>3, <1>4 DEF StartKey, StartTable, ArrayOverflow, InlineKey, Finish, Invalid,
     Overflow, Redefine, vars

\* A map gets a key it has room for.
LEMMA CreateShape ==
    ASSUME IInv, ShapeInv, NEW id \in Ids, NEW final \in BOOLEAN, Create(id, final)
    PROVE  ShapeInv'
<1>1. /\ mode \in Walking /\ CanAlloc /\ nkeys' = new /\ open' = open
      /\ has_subkey(Holder(at, id), id) = NULL /\ ~Full(Holder(at, id))
  BY DEF Create, Found, NoRoom
<1>2. PICK h \in Allocated : h = Holder(at, id)
  BY <1>1, HolderFacts
<1>3. PICK fresh \in Nat : fresh = new
  BY DEF IInv, TypeOK, new
<1>4. /\ fresh \in 1 .. MaxKeys /\ h \in 1 .. MaxKeys /\ h # fresh /\ fresh \notin Allocated
      /\ Allocated' = Allocated \cup {fresh} /\ Allocated \subseteq 1 .. MaxKeys
      /\ fresh # NULL
  BY <1>1, <1>2, <1>3 DEF IInv, TypeOK, Allocated, new, CanAlloc, NULL
<1>5. NewType(final) \in Types
  BY <1>1 DEF NewType, Types, Walking
<1>6. /\ keys'[fresh] = new_key(NewType(final))
      /\ keys'[h].subkeys = [keys[h].subkeys EXCEPT ![id] = fresh]
      /\ keys'[h].arr = keys[h].arr
      /\ \A k \in Allocated \ {h} : keys'[k] = keys[k]
  <2>1. keys' = [keys EXCEPT ![h].subkeys[id] = fresh, ![fresh] = new_key(NewType(final))]
    BY <1>2, <1>3 DEF Create
  <2>2. keys \in [1 .. MaxKeys -> KeyType]
    BY DEF IInv, TypeOK
  <2> QED
    BY <2>1, <2>2, <1>4 DEF KeyType
<1>7. /\ has_subkey(h, id)' = fresh
      /\ \A k \in Allocated, a \in Ids :
            k # h \/ a # id => has_subkey(k, a)' = has_subkey(k, a)
      /\ \A k \in Allocated, i \in Indices : Cell(k, i)' = Cell(k, i)
      /\ \A a \in Ids : has_subkey(fresh, a)' = NULL
      /\ \A i \in Indices : Cell(fresh, i)' = NULL
  <2>1. keys[h].subkeys \in [Ids -> 0 .. MaxKeys]
    BY <1>2, <1>4 DEF IInv, TypeOK, KeyType
  <2> QED
    BY <2>1, <1>5, <1>6, NewKeyType DEF has_subkey, Cell, Indices
<1>8. \A k \in Allocated : /\ \A a \in Ids : has_subkey(k, a) # fresh
                           /\ \A i \in Indices : Cell(k, i) # fresh
  BY <1>4, Pointers DEF IInv, Cell, Indices
<1>9. Unshared'
  BY <1>1, <1>2, <1>4, <1>7, <1>8, StillUnshared DEF ShapeInv, Settled
<1>10. Bounded'
  <2>1. /\ UsedIds(h)' = UsedIds(h) \cup {id} /\ id \notin UsedIds(h)
        /\ UsedIds(fresh)' = {}
        /\ \A k \in Allocated \ {h} : UsedIds(k)' = UsedIds(k)
    BY <1>1, <1>2, <1>4, <1>7 DEF UsedIds, NULL
  <2>2. IsFiniteSet(UsedIds(h)) /\ Cardinality(UsedIds(h)) < MaxSubkeys
    <3>1. IsFiniteSet(UsedIds(h))
      BY <1>2 DEF ShapeInv, Bounded
    <3> QED
      BY <3>1, <1>1, <1>2, FS_CardinalityType DEF Full
  <2>3. /\ IsFiniteSet(UsedIds(h) \cup {id})
        /\ Cardinality(UsedIds(h) \cup {id}) <= MaxSubkeys
    <3>1. Cardinality(UsedIds(h)) \in Nat
      BY <2>2, FS_CardinalityType
    <3>2. /\ IsFiniteSet(UsedIds(h) \cup {id})
          /\ Cardinality(UsedIds(h) \cup {id}) = Cardinality(UsedIds(h)) + 1
      BY <2>1, <2>2, FS_AddElement
    <3> QED
      BY <3>1, <3>2, <2>2
  <2> QED
    BY <2>1, <2>3, <1>4, FS_EmptySet DEF ShapeInv, Bounded
<1> QED
  BY <1>9, <1>10 DEF ShapeInv

\* An array table gets a table.
LEMMA NewElementShape == ASSUME IInv, ShapeInv, NewElement PROVE ShapeInv'
<1>1. mode = "element" /\ CanAlloc /\ nkeys' = new /\ open' = open
  BY DEF NewElement
<1>2. PICK h \in Allocated : h = at /\ keys[h].type = "ARRAYTABLE"
  BY <1>1 DEF IInv, Somewhere, TypeOK, Allocated, NULL
<1>3. PICK fresh \in Nat : fresh = new
  BY DEF IInv, TypeOK, new
<1>4. /\ fresh \in 1 .. MaxKeys /\ h \in 1 .. MaxKeys /\ h # fresh /\ fresh \notin Allocated
      /\ Allocated' = Allocated \cup {fresh} /\ Allocated \subseteq 1 .. MaxKeys
      /\ fresh # NULL
  BY <1>1, <1>2, <1>3 DEF IInv, TypeOK, Allocated, new, CanAlloc, NULL
<1>5. PICK i \in Indices : i = keys[h].idx + 1
  BY <1>2, Pointers DEF IInv, KeyType, NewElement, Indices
<1>6. /\ keys'[fresh] = new_key("KEY")
      /\ keys'[h].subkeys = keys[h].subkeys
      /\ keys'[h].arr = [keys[h].arr EXCEPT ![i] = fresh]
      /\ \A k \in Allocated \ {h} : keys'[k] = keys[k]
  <2>1. keys' = [keys EXCEPT ![h].value = "array", ![h].idx = i,
                             ![h].arr[i] = fresh, ![fresh] = new_key("KEY")]
    BY <1>2, <1>3, <1>5 DEF NewElement
  <2>2. keys \in [1 .. MaxKeys -> KeyType]
    BY DEF IInv, TypeOK
  <2> QED
    BY <2>1, <2>2, <1>4 DEF KeyType
<1>7. /\ Cell(h, i)' = fresh
      /\ \A k \in Allocated, b \in Indices :
            k # h \/ b # i => Cell(k, b)' = Cell(k, b)
      /\ \A k \in Allocated, a \in Ids : has_subkey(k, a)' = has_subkey(k, a)
      /\ \A a \in Ids : has_subkey(fresh, a)' = NULL
      /\ \A b \in Indices : Cell(fresh, b)' = NULL
  <2>1. keys[h].arr \in [Indices -> 0 .. MaxKeys]
    BY <1>2, <1>4 DEF IInv, TypeOK, KeyType, Indices
  <2>2. /\ keys'[h].arr = [keys[h].arr EXCEPT ![i] = fresh]
        /\ \A k \in Allocated : /\ k # h => keys'[k] = keys[k]
                                /\ keys'[k].subkeys = keys[k].subkeys
        /\ keys'[fresh] = new_key("KEY")
    BY <1>4, <1>6
  <2>3. /\ Cell(h, i)' = fresh
        /\ \A k \in Allocated, b \in Indices :
              k # h \/ b # i => Cell(k, b)' = Cell(k, b)
    BY <2>1, <2>2 DEF Cell
  <2>4. /\ \A k \in Allocated, a \in Ids : has_subkey(k, a)' = has_subkey(k, a)
        /\ \A a \in Ids : has_subkey(fresh, a)' = NULL
        /\ \A b \in Indices : Cell(fresh, b)' = NULL
    BY <2>2, NewKeyType DEF has_subkey, Cell, Indices, Types
  <2> QED
    BY <2>3, <2>4
<1>8. \A k \in Allocated : /\ \A a \in Ids : has_subkey(k, a) # fresh
                           /\ \A b \in Indices : Cell(k, b) # fresh
  BY <1>4, Pointers DEF IInv, Cell, Indices
<1>9. Unshared'
  BY <1>1, <1>2, <1>4, <1>7, <1>8, StillUnshared DEF ShapeInv, Settled
<1>10. Bounded'
  <2>1. UsedIds(fresh)' = {} /\ \A k \in Allocated : UsedIds(k)' = UsedIds(k)
    BY <1>7 DEF UsedIds
  <2> QED
    BY <2>1, <1>4, StillBounded DEF ShapeInv
<1> QED
  BY <1>9, <1>10 DEF ShapeInv

\* The container of an inline table is new, and nothing points to it.
LEMMA OpenInlineShape == ASSUME IInv, ShapeInv, OpenInline PROVE ShapeInv'
<1>1. PICK fresh \in Nat : fresh = new
  BY DEF IInv, TypeOK, new
<1>2. /\ CanAlloc /\ nkeys' = fresh
      /\ open' = Append(open, [key |-> at, keys |-> fresh])
      /\ keys' = [keys EXCEPT ![fresh] = new_key("TABLE")]
  BY <1>1 DEF OpenInline
<1>3. /\ fresh \in 1 .. MaxKeys /\ fresh \notin Allocated /\ fresh # NULL
      /\ Allocated' = Allocated \cup {fresh} /\ Allocated \subseteq 1 .. MaxKeys
  BY <1>1, <1>2 DEF IInv, TypeOK, Allocated, new, CanAlloc, NULL
<1>4. /\ keys'[fresh] = new_key("TABLE")
      /\ \A k \in Allocated : keys'[k] = keys[k]
  BY <1>2, <1>3 DEF IInv, TypeOK
<1>5. /\ \A k \in Allocated, a \in Ids : has_subkey(k, a)' = has_subkey(k, a)
      /\ \A k \in Allocated, b \in Indices : Cell(k, b)' = Cell(k, b)
      /\ \A a \in Ids : has_subkey(fresh, a)' = NULL
      /\ \A b \in Indices : Cell(fresh, b)' = NULL
  BY <1>4, NewKeyType DEF has_subkey, Cell, Indices, Types
<1>6. \A k \in Allocated : /\ \A a \in Ids : has_subkey(k, a) # fresh
                           /\ \A b \in Indices : Cell(k, b) # fresh
  BY <1>3, Pointers DEF IInv, Cell, Indices
<1>7. \A n \in 1 .. Len(open') : \/ n \in 1 .. Len(open) /\ open'[n].keys = open[n].keys
                                 \/ open'[n].keys = fresh
  <2>1. open \in Seq([key : 1 .. MaxKeys, keys : 1 .. MaxKeys])
    BY DEF IInv, TypeOK
  <2> QED
    BY <2>1, <1>2
<1>8. /\ \A k \in Allocated, a \in Ids : has_subkey(k, a)' # fresh
      /\ \A k \in Allocated, b \in Indices : Cell(k, b)' # fresh
  BY <1>5, <1>6
<1>9. /\ \A k \in Allocated : \A a \in Ids :
            Settled(has_subkey(k, a), has_subkey(k, a)', fresh)
      /\ \A k \in Allocated : \A b \in Indices : Settled(Cell(k, b), Cell(k, b)', fresh)
  BY <1>5 DEF Settled
<1>10. Unshared'
  BY <1>3, <1>5, <1>7, <1>8, <1>9, StillUnshared DEF ShapeInv
<1>11. Bounded'
  <2>1. UsedIds(fresh)' = {} /\ \A k \in Allocated : UsedIds(k)' = UsedIds(k)
    BY <1>5 DEF UsedIds
  <2> QED
    BY <2>1, <1>3, StillBounded DEF ShapeInv
<1> QED
  BY <1>10, <1>11 DEF ShapeInv

\* The pointers of a container move to its key, which has had none.
LEMMA CloseInlineShape == ASSUME IInv, ShapeInv, CloseInline PROVE ShapeInv'
<1>1. CASE Clash \/ TooMany
  BY <1>1, SamePointers DEF CloseInline
<1>2. CASE ~(Clash \/ TooMany)
  <2>1. Len(open) \in 1 .. Len(open) /\ Len(open) \in Nat /\ Top = open[Len(open)]
    BY OpenFacts DEF CloseInline
  <2>2. PICK k \in Allocated, c \in Allocated :
           k = Top.key /\ c = Top.keys /\ k # c /\ k \in 1 .. MaxKeys /\ c \in 1 .. MaxKeys
    BY <2>1, OpenFacts DEF IInv, TypeOK, Allocated
  <2>3. \A a \in Ids : has_subkey(k, a) = NULL
    BY <2>1, <2>2 DEF IInv, LeavesFresh, Fresh, UsedIds
  <2>4. /\ nkeys' = nkeys /\ open' = SubSeq(open, 1, Len(open) - 1)
        /\ keys' = [keys EXCEPT ![k].subkeys = Merged, ![k].type = "KEYLEAF",
                                ![c].subkeys = NoSubkeys]
    BY <1>2, <2>2 DEF CloseInline
  <2>5. /\ keys \in [1 .. MaxKeys -> KeyType]
        /\ Allocated' = Allocated /\ Allocated \subseteq 1 .. MaxKeys
    BY <2>4 DEF IInv, TypeOK, Allocated
  <2>6. /\ keys'[k].subkeys = Merged /\ keys'[c].subkeys = NoSubkeys
        /\ \A x \in Allocated \ {k, c} : keys'[x].subkeys = keys[x].subkeys
        /\ \A x \in Allocated : keys'[x].arr = keys[x].arr
    <3> DEFINE p == [keys[k] EXCEPT !.subkeys = Merged, !.type = "KEYLEAF"]
               q == [keys[c] EXCEPT !.subkeys = NoSubkeys]
    <3>1. p.subkeys = Merged /\ p.arr = keys[k].arr
      BY <2>2, <2>5 DEF KeyType
    <3>2. q.subkeys = NoSubkeys /\ q.arr = keys[c].arr
      BY <2>2, <2>5 DEF KeyType
    <3>3. keys' = [x \in 1 .. MaxKeys |-> IF x = k THEN p ELSE IF x = c THEN q ELSE keys[x]]
      BY <2>2, <2>4, <2>5
    <3> HIDE DEF p, q
    <3> QED
      BY <3>1, <3>2, <3>3, <2>2, <2>5
  <2>7. /\ \A a \in Ids : has_subkey(k, a)' = has_subkey(c, a) /\ has_subkey(c, a)' = NULL
        /\ \A x \in Allocated \ {k, c} : \A a \in Ids : has_subkey(x, a)' = has_subkey(x, a)
        /\ \A x \in Allocated : \A b \in Indices : Cell(x, b)' = Cell(x, b)
    <3>1. Merged = [a \in Ids |-> has_subkey(c, a)]
      BY <2>2, <2>3 DEF Merged
    <3> QED
      BY <3>1, <2>6 DEF has_subkey, Cell, NoSubkeys
  <2>8. \A n \in 1 .. Len(open') : n \in 1 .. Len(open) /\ open'[n] = open[n]
    <3>1. open \in Seq([key : 1 .. MaxKeys, keys : 1 .. MaxKeys])
      BY DEF IInv, TypeOK
    <3>2. PICK l \in 0 .. Len(open) : l = Len(open) - 1
      <4>1. PICK n \in Nat : n = Len(open) /\ n >= 1
        BY <2>1
      <4>2. n - 1 \in 0 .. n
        BY <4>1
      <4> QED
        BY <4>1, <4>2, Zenon
    <3>3. open' = SubSeq(open, 1, l)
      BY <2>4, <3>2
    <3> QED
      BY <3>1, <3>2, <3>3, FrontOfSeq
  <2>9. Unshared'
    <3> DEFINE from(x) == IF x = k THEN c ELSE x
    <3>1. \A x \in Allocated : \A a \in Ids :
             \/ has_subkey(x, a)' = NULL
             \/ x # c /\ has_subkey(x, a)' = has_subkey(from(x), a)
      BY <2>7
    <3>2. \A x \in Allocated : from(x) \in Allocated
      BY <2>2
    <3>3. \A x, y \in Allocated \ {c} : from(x) = from(y) => x = y
      OBVIOUS
    <3>4. NULL \notin {open[n].keys : n \in 1 .. Len(open)}
      BY OpenFacts DEF Allocated, NULL
    <3> HIDE DEF from
    <3>5. \A j, x \in Allocated : \A a, b \in Ids :
             has_subkey(j, a)' = has_subkey(x, b)'
               => has_subkey(j, a)' = NULL \/ (j = x /\ a = b)
      BY <3>1, <3>2, <3>3 DEF ShapeInv, Unshared
    <3>6. \A j, x \in Allocated : \A a \in Ids, b \in Indices :
             has_subkey(j, a)' = Cell(x, b)' => has_subkey(j, a)' = NULL
      BY <3>1, <3>2, <2>7 DEF ShapeInv, Unshared
    <3>7. \A n \in 1 .. Len(open') : \A x \in Allocated :
             /\ \A a \in Ids : has_subkey(x, a)' # open'[n].keys
             /\ \A b \in Indices : Cell(x, b)' # open'[n].keys
      BY <3>1, <3>2, <3>4, <2>7, <2>8 DEF ShapeInv, Unshared
    <3>8. \A j, x \in Allocated : \A a, b \in Indices :
             Cell(j, a)' = Cell(x, b)' => Cell(j, a)' = NULL \/ (j = x /\ a = b)
      BY <2>7 DEF ShapeInv, Unshared
    <3> QED
      BY <3>5, <3>6, <3>7, <3>8, <2>5 DEF Unshared, Indices
  <2>10. Bounded'
    <3>1. /\ UsedIds(k)' = UsedIds(c) /\ UsedIds(c)' = {}
          /\ \A x \in Allocated \ {k, c} : UsedIds(x)' = UsedIds(x)
      BY <2>7 DEF UsedIds
    <3> QED
      BY <3>1, <2>2, <2>5, StillBounded DEF ShapeInv
  <2> QED
    BY <2>9, <2>10 DEF ShapeInv
<1> QED
  BY <1>1, <1>2

-----------------------------------------------------------------------------
(* The inductive invariant, and what follows from it. *)

LEMMA StepShape == ASSUME IInv, ShapeInv, [Next]_vars PROVE ShapeInv'
<1>1. CASE \/ StartKey \/ StartTable \/ ArrayOverflow \/ InlineKey \/ SetValue
           \/ Finish \/ Invalid \/ UNCHANGED vars
  BY <1>1, QuietShape
<1>2. CASE Segment
  <2> PICK id \in Ids : \/ Overflow(id)
                        \/ \E final \in BOOLEAN : \/ Descend(id, final)
                                                  \/ Redefine(id, final)
                                                  \/ Create(id, final)
    BY <1>2 DEF Segment
  <2>1. CASE Overflow(id) \/ \E final \in BOOLEAN : Redefine(id, final) \/ Descend(id, final)
    BY <2>1, QuietShape
  <2>2. CASE \E final \in BOOLEAN : Create(id, final)
    BY <2>2, CreateShape
  <2> QED
    BY <2>1, <2>2
<1>3. CASE NewElement
  BY <1>3, NewElementShape
<1>4. CASE OpenInline
  BY <1>4, OpenInlineShape
<1>5. CASE CloseInline
  BY <1>5, CloseInlineShape
<1> QED
  BY <1>1, <1>2, <1>3, <1>4, <1>5 DEF Next, Halted

LEMMA ShapeInductive == Spec => [](IInv /\ ShapeInv)
<1>1. Init => IInv /\ ShapeInv
  BY InitInv, InitShape
<1>2. (IInv /\ ShapeInv) /\ [Next]_vars => (IInv /\ ShapeInv)'
  BY StepInv, StepShape
<1> QED
  BY <1>1, <1>2, PTL DEF Spec

\* A set in which all elements are equal has at most one.
LEMMA AtMostOne ==
    ASSUME NEW S, \A x, y \in S : x = y
    PROVE  IsFiniteSet(S) /\ Cardinality(S) \in {0, 1} /\ (Cardinality(S) = 1 => S # {})
<1>1. CASE S = {}
  BY <1>1, FS_EmptySet
<1>2. CASE S # {}
  <2>1. PICK x : S = {x}
    BY <1>2
  <2> QED
    BY <2>1, FS_Singleton
<1> QED
  BY <1>1, <1>2

LEMMA OneParentHolds == ASSUME IInv, ShapeInv PROVE OneParent
<1>1. ASSUME NEW r \in Allocated \ {Root}
      PROVE  Cardinality(Slots(r)) + Cardinality(Cells(r)) <= 1
  <2>1. r # NULL
    BY DEF Allocated, NULL
  <2>2. \A s, t \in Slots(r) : s = t
    BY <2>1 DEF Slots, ShapeInv, Unshared
  <2>3. \A s, t \in Cells(r) : s = t
    BY <2>1 DEF Cells, ShapeInv, Unshared, Cell, Indices
  <2>4. Slots(r) = {} \/ Cells(r) = {}
    BY <2>1 DEF Slots, Cells, ShapeInv, Unshared, Cell, Indices
  <2>5. /\ Cardinality(Slots(r)) \in {0, 1} /\ (Cardinality(Slots(r)) = 1 => Slots(r) # {})
        /\ Cardinality(Cells(r)) \in {0, 1} /\ (Cardinality(Cells(r)) = 1 => Cells(r) # {})
    BY <2>2, <2>3, AtMostOne
  <2> QED
    BY <2>4, <2>5
<1>2. ASSUME NEW n \in 1 .. Len(open)
      PROVE  Slots(open[n].keys) = {} /\ Cells(open[n].keys) = {}
  BY DEF Slots, Cells, ShapeInv, Unshared, Cell, Indices
<1> QED
  BY <1>1, <1>2 DEF OneParent

(***************************************************************************)
(* No sequence of statements makes two pointers lead to one key, although  *)
(* the pairs of an inline table are in two containers while it is closed   *)
(* (value.c:70): every key is printed once and could be freed once.        *)
(***************************************************************************)
THEOREM TreeStaysTree == Spec => []TreeShaped
<1>1. IInv /\ ShapeInv => TreeShaped
  BY OneParentHolds DEF IInv, TreeShaped
<1> QED
  BY <1>1, ShapeInductive, PTL

LEMMA MergesInside == ASSUME IInv, ShapeInv PROVE InlineMerges
<1>1. \A k \in Allocated : Cardinality(UsedIds(k)) <= MaxSubkeys
  BY DEF ShapeInv, Bounded
<1>2. ASSUME mode = "inline" PROVE ~Clash /\ ~TooMany
  <2>1. Len(open) \in 1 .. Len(open) /\ Top = open[Len(open)]
    BY <1>2, OpenFacts
  <2>2. PICK c \in Allocated : c = Top.keys
    BY <2>1, OpenFacts
  <2>3. UsedIds(Top.key) = {}
    BY <2>1 DEF IInv, LeavesFresh, Fresh
  <2>4. /\ IsFiniteSet(UsedIds(c)) /\ Cardinality(UsedIds(c)) <= MaxSubkeys
        /\ UsedIds(Top.key) \cup UsedIds(Top.keys) = UsedIds(c)
    BY <2>2, <2>3 DEF ShapeInv, Bounded
  <2>5. ~TooMany
    <3>1. Cardinality(UsedIds(c)) \in Nat
      BY <2>4, FS_CardinalityType
    <3>2. ~(Cardinality(UsedIds(c)) > MaxSubkeys)
      BY <2>4, <3>1
    <3> QED
      BY <2>4, <3>2, Zenon DEF TooMany
  <2> QED
    BY <2>3, <2>5 DEF Clash
<1> QED
  BY <1>1, <1>2 DEF InlineMerges

(***************************************************************************)
(* The error paths behind the add_subkey that moves the pairs of an inline *)
(* table to its key (parse_keys.c:373, parse_values.c:674) are never       *)
(* taken, whatever the limits are, and no map outgrows its own.            *)
(***************************************************************************)
THEOREM MergesNeverFail == Spec => []InlineMerges
<1>1. IInv /\ ShapeInv => InlineMerges
  BY MergesInside
<1> QED
  BY <1>1, ShapeInductive, PTL

-----------------------------------------------------------------------------
(***************************************************************************)
(* The tree of keys implements the rules about paths.                      *)
(***************************************************************************)

-----------------------------------------------------------------------------
(***************************************************************************)
(* Trees of nodes, whatever the heap: near says which nodes are right      *)
(* below a key, and which nodes there are follows from it.                 *)
(***************************************************************************)
Steps   == Ids \cup Indices
Kinds   == {"super", "table", "array", "element", "dotted", "value"}
NodeSet == [path : Seq(Steps), key : 1 .. MaxKeys, kind : Kinds]

\* One step down from each key, to a later one.
Downward(near) ==
    /\ near \in [1 .. MaxKeys -> SUBSET NodeSet]
    /\ \A k \in 1 .. MaxKeys : \A d \in near[k] :
          k < d.key /\ \E s \in Steps : d.path = <<s>>

RootNode      == Node(<<>>, Root, "table")
Beneath(m, d) == Node(m.path \o d.path, d.key, d.kind)

\* N has the root, and a node other than that if and only if it is below one.
Planted(near, N) ==
    /\ N \subseteq NodeSet /\ RootNode \in N
    /\ \A m \in N : \A d \in near[m.key] : Beneath(m, d) \in N
    /\ \A n \in N : n = RootNode \/ \E m \in N : \E d \in near[m.key] : n = Beneath(m, d)

\* The nodes below a key, and how Nodes finds them.
Under(near, below, k) ==
    near[k] \cup UNION {{Beneath(m, n) : n \in below[m.key]} : m \in near[k]}

Finds(near, below) == below = [k \in 1 .. MaxKeys |-> Under(near, below, k)]

LEMMA BelowExists ==
    ASSUME NEW near, Downward(near)
    PROVE  \E below : Finds(near, below)
<1> DEFINE Right(b, j) == /\ b = [k \in 1 .. MaxKeys |-> b[k]]
                          /\ \A k \in 1 .. MaxKeys :
                                k > MaxKeys - j => b[k] = Under(near, b, k)
           S == {j \in 0 .. MaxKeys : \E b : Right(b, j)}
           T == S \cup {j \in Nat : j > MaxKeys}
<1>1. 0 \in T
  <2>1. Right([k \in 1 .. MaxKeys |-> {}], 0)
    OBVIOUS
  <2> HIDE DEF Right
  <2> QED
    BY <2>1
<1>2. ASSUME NEW j \in Nat, j \in T PROVE j + 1 \in T
  <2>1. CASE j >= MaxKeys
    BY <2>1
  <2>2. CASE j < MaxKeys
    <3>1. PICK b : Right(b, j)
      <4> HIDE DEF Right
      <4> QED
        BY <1>2, <2>2
    <3>2. PICK l \in 1 .. MaxKeys : l = MaxKeys - j
      BY <2>2
    <3>3. PICK c : c = [k \in 1 .. MaxKeys |-> IF k = l THEN Under(near, b, l) ELSE b[k]]
      OBVIOUS
    <3>4. ASSUME NEW k \in 1 .. MaxKeys, k >= l PROVE Under(near, c, k) = Under(near, b, k)
      <4>1. \A m \in near[k] : m.key \in 1 .. MaxKeys /\ m.key # l
        BY <3>4 DEF Downward, NodeSet
      <4>2. \A m \in near[k] : c[m.key] = b[m.key]
        BY <3>3, <4>1
      <4> QED
        BY <4>2 DEF Under
    <3>5. ASSUME NEW k \in 1 .. MaxKeys, k > MaxKeys - (j + 1)
          PROVE  c[k] = Under(near, c, k)
      <4>1. CASE k = l
        BY <3>3, <3>4, <4>1
      <4>2. CASE k # l
        <5>1. k > MaxKeys - j /\ k >= l
          BY <2>2, <3>2, <3>5, <4>2
        <5>2. c[k] = b[k] /\ b[k] = Under(near, b, k)
          BY <3>1, <3>3, <4>2, <5>1
        <5> QED
          BY <3>4, <5>1, <5>2
      <4> QED
        BY <4>1, <4>2
    <3>6. Right(c, j + 1)
      BY <3>3, <3>5
    <3> HIDE DEF Right
    <3> QED
      BY <2>2, <3>6
  <2> QED
    BY <2>1, <2>2
<1>3. MaxKeys \in S
  <2>1. Nat \subseteq T
    <3> HIDE DEF T
    <3> QED
      BY <1>1, <1>2, NatInducts
  <2> QED
    BY <2>1
<1>4. PICK b : Right(b, MaxKeys)
  <2> HIDE DEF Right
  <2> QED
    BY <1>3
<1>5. \A k \in 1 .. MaxKeys : b[k] = Under(near, b, k)
  BY <1>4
<1>6. b = [k \in 1 .. MaxKeys |-> Under(near, b, k)]
  BY <1>4, <1>5
<1> QED
  BY <1>6 DEF Finds

\* Paths grow by one step at a time, in a way that can be undone.
LEMMA PathsGrow ==
    ASSUME NEW p \in Seq(Steps), NEW q \in Seq(Steps), NEW s \in Steps, NEW r \in Steps
    PROVE  /\ p \o <<s>> = Append(p, s) /\ p \o <<s>> \in Seq(Steps)
           /\ <<s>> \in Seq(Steps)
           /\ Len(p \o <<s>>) = Len(p) + 1 /\ Len(p) \in Nat
           /\ p \o <<s>> = q \o <<r>> => p = q /\ s = r
           /\ p \o <<s>> # <<>>
           /\ <<>> \o p = p
           /\ (p \o q) \o <<s>> = p \o (q \o <<s>>)
           /\ p \o q \in Seq(Steps)
<1>1. p \o <<s>> = Append(p, s) /\ p \o <<s>> \in Seq(Steps) /\ <<s>> \in Seq(Steps)
      /\ Len(p \o <<s>>) = Len(p) + 1 /\ Len(p) \in Nat /\ p \o <<s>> # <<>>
  OBVIOUS
<1>2. ASSUME p \o <<s>> = q \o <<r>> PROVE p = q /\ s = r
  BY <1>1, <1>2, AppendIsConcat, AppendInjective
<1>3. <<>> \o p = p /\ p \o q \in Seq(Steps)
  OBVIOUS
<1>4. (p \o q) \o <<s>> = p \o (q \o <<s>>)
  OBVIOUS
<1> QED
  BY <1>1, <1>2, <1>3, <1>4

\* A node below another one.
LEMMA BeneathFacts ==
    ASSUME NEW m \in NodeSet, NEW d \in NodeSet
    PROVE  /\ Beneath(m, d) \in NodeSet
           /\ Beneath(m, d).path = m.path \o d.path
           /\ Beneath(m, d).key = d.key /\ Beneath(m, d).kind = d.kind
<1>1. m.path \o d.path \in Seq(Steps)
  BY DEF NodeSet
<1> QED
  BY <1>1 DEF Beneath, Node, NodeSet

LEMMA RootNodeFacts ==
    /\ RootNode \in NodeSet /\ RootNode.path = <<>> /\ RootNode.key = 1
    /\ RootNode.kind = "table"
    /\ \A d \in NodeSet : Beneath(RootNode, d) = d
<1>1. RootNode \in NodeSet /\ RootNode.path = <<>> /\ RootNode.key = 1
      /\ RootNode.kind = "table"
  BY DEF RootNode, Node, NodeSet, Kinds, Root
<1>2. ASSUME NEW d \in NodeSet PROVE Beneath(RootNode, d) = d
  <2>1. <<>> \o d.path = d.path
    BY DEF NodeSet
  <2> QED
    BY <1>1, <2>1 DEF Beneath, Node, NodeSet
<1> QED
  BY <1>1, <1>2

LEMMA BeneathTwice ==
    ASSUME NEW m \in NodeSet, NEW n \in NodeSet, NEW d \in NodeSet
    PROVE  Beneath(Beneath(m, n), d) = Beneath(m, Beneath(n, d))
<1>1. (m.path \o n.path) \o d.path = m.path \o (n.path \o d.path)
  <2>1. PICK p \in Seq(Steps), q \in Seq(Steps), r \in Seq(Steps) :
            p = m.path /\ q = n.path /\ r = d.path
    BY DEF NodeSet
  <2>2. (p \o q) \o r = p \o (q \o r)
    BY ConcatAssociative
  <2> QED
    BY <2>1, <2>2
<1>2. /\ Beneath(m, n).path = m.path \o n.path /\ Beneath(n, d).path = n.path \o d.path
      /\ Beneath(n, d).key = d.key /\ Beneath(n, d).kind = d.kind
  BY BeneathFacts
<1> QED
  BY <1>1, <1>2 DEF Beneath

LEMMA BelowPlanted ==
    ASSUME NEW near, Downward(near), NEW below, Finds(near, below)
    PROVE  Planted(near, {RootNode} \cup below[Root])
<1> DEFINE Closes(k) == \A n \in below[k] : \A d \in near[n.key] : Beneath(n, d) \in below[k]
           Rests(k)  == \A n \in below[k] : \/ n \in near[k]
                                            \/ \E m \in below[k] : \E d \in near[m.key] :
                                                  n = Beneath(m, d)
           S == {k \in 1 .. MaxKeys : below[k] \subseteq NodeSet /\ Closes(k) /\ Rests(k)}
<1>1. ASSUME NEW k \in 1 .. MaxKeys
      PROVE  \A n : n \in below[k] <=> \/ n \in near[k]
                                       \/ \E m \in near[k] : \E l \in below[m.key] :
                                             n = Beneath(m, l)
  <2>1. below[k] = Under(near, below, k)
    BY DEF Finds
  <2> HIDE DEF S
  <2>2. ASSUME NEW n, n \in Under(near, below, k), n \notin near[k]
        PROVE  \E m \in near[k] : \E l \in below[m.key] : n = Beneath(m, l)
    BY <2>2, Zenon DEF Under
  <2>3. ASSUME NEW m \in near[k], NEW l \in below[m.key]
        PROVE  Beneath(m, l) \in Under(near, below, k)
    BY DEF Under
  <2>4. near[k] \subseteq Under(near, below, k)
    BY DEF Under
  <2> QED
    BY <2>1, <2>2, <2>3, <2>4
<1>2. ASSUME NEW k \in 1 .. MaxKeys, NEW m \in near[k]
      PROVE  m \in NodeSet /\ m.key \in k + 1 .. MaxKeys
  BY DEF Downward, NodeSet
<1>3. ASSUME NEW k \in 1 .. MaxKeys, \A j \in k + 1 .. MaxKeys : j \in S PROVE k \in S
  <2> HIDE DEF S
  <2>1. ASSUME NEW m \in near[k]
        PROVE  /\ m \in NodeSet /\ m.key \in 1 .. MaxKeys
               /\ below[m.key] \subseteq NodeSet /\ Closes(m.key) /\ Rests(m.key)
    BY <1>2, <1>3 DEF S
  <2>2. below[k] \subseteq NodeSet
    <3>1. ASSUME NEW m \in near[k], NEW n \in below[m.key] PROVE Beneath(m, n) \in NodeSet
      BY <2>1, BeneathFacts
    <3> QED
      BY <1>1, <2>1, <3>1
  <2>3. Closes(k)
    <3> SUFFICES ASSUME NEW n \in below[k], NEW d \in near[n.key]
                 PROVE  Beneath(n, d) \in below[k]
      OBVIOUS
    <3>1. CASE n \in near[k]
      <4>1. d \in below[n.key]
        BY <1>1, <2>1, <3>1
      <4> QED
        BY <1>1, <3>1, <4>1
    <3>2. CASE \E m \in near[k] : \E l \in below[m.key] : n = Beneath(m, l)
      <4>1. PICK m, l : m \in near[k] /\ l \in below[m.key] /\ n = Beneath(m, l)
        BY <3>2
      <4>2. m \in NodeSet /\ l \in NodeSet /\ n.key = l.key
        BY <2>1, <4>1, BeneathFacts
      <4>3. d \in NodeSet /\ Beneath(l, d) \in below[m.key]
        BY <1>2, <2>1, <4>1, <4>2 DEF NodeSet
      <4>4. Beneath(n, d) = Beneath(m, Beneath(l, d))
        BY <4>1, <4>2, <4>3, BeneathTwice
      <4> QED
        BY <1>1, <4>1, <4>3, <4>4
    <3> QED
      BY <1>1, <3>1, <3>2
  <2>4. Rests(k)
    <3> SUFFICES ASSUME NEW n \in below[k], n \notin near[k]
                 PROVE  \E m \in below[k] : \E d \in near[m.key] : n = Beneath(m, d)
      OBVIOUS
    <3>1. PICK m, l : m \in near[k] /\ l \in below[m.key] /\ n = Beneath(m, l)
      BY <1>1
    <3>2. m \in NodeSet /\ l \in NodeSet /\ m \in below[k]
      BY <1>1, <2>1, <3>1
    <3>3. CASE l \in near[m.key]
      BY <3>1, <3>2, <3>3
    <3>4. CASE \E j \in below[m.key] : \E d \in near[j.key] : l = Beneath(j, d)
      <4>1. PICK j, d : j \in below[m.key] /\ d \in near[j.key] /\ l = Beneath(j, d)
        BY <3>4
      <4>2. j \in NodeSet /\ d \in NodeSet
        BY <1>2, <2>1, <3>1, <4>1 DEF NodeSet
      <4>3. Beneath(m, j) \in below[k] /\ Beneath(m, j).key = j.key
        BY <1>1, <3>1, <3>2, <4>1, <4>2, BeneathFacts
      <4>4. n = Beneath(Beneath(m, j), d)
        BY <3>1, <3>2, <4>1, <4>2, BeneathTwice
      <4> QED
        BY <4>1, <4>3, <4>4
    <3> QED
      BY <2>1, <3>1, <3>3, <3>4
  <2> QED
    BY <2>2, <2>3, <2>4 DEF S
<1>4. 1 .. MaxKeys \subseteq S
  <2> HIDE DEF S
  <2> QED
    BY <1>3, DownInducts
<1>5. Root \in 1 .. MaxKeys /\ Root = 1
  BY DEF Root
<1>6. below[Root] \subseteq NodeSet /\ Closes(Root) /\ Rests(Root)
  BY <1>4, <1>5
<1>7. near[Root] \subseteq below[Root] /\ near[Root] \subseteq NodeSet
  BY <1>1, <1>2, <1>5
<1> DEFINE N == {RootNode} \cup below[Root]
<1>8. N \subseteq NodeSet /\ RootNode \in N
  BY <1>6, RootNodeFacts
<1>9. ASSUME NEW m \in N, NEW d \in near[m.key] PROVE Beneath(m, d) \in N
  BY <1>5, <1>6, <1>7, RootNodeFacts
<1>10. ASSUME NEW n \in N, n # RootNode
       PROVE  \E m \in N : \E d \in near[m.key] : n = Beneath(m, d)
  <2>1. CASE n \in near[Root]
    <3>1. n = Beneath(RootNode, n) /\ n \in near[RootNode.key] /\ RootNode \in N
      BY <1>5, <1>7, <2>1, RootNodeFacts
    <3> QED
      BY <3>1
  <2> QED
    BY <1>6, <1>10, <2>1
<1> QED
  BY <1>8, <1>9, <1>10 DEF Planted

\* The nodes are determined by what is right below each of them.
LEMMA OneTree ==
    ASSUME NEW near, Downward(near), NEW A, Planted(near, A), NEW B, Planted(near, B)
    PROVE  A = B
<1>1. ASSUME NEW C, NEW D, Planted(near, C), Planted(near, D) PROVE C \subseteq D
  <2> DEFINE T == C \ D
  <2> SUFFICES ASSUME T # {} PROVE FALSE
    OBVIOUS
  <2>1. PICK n \in T : \A m \in T : n.key <= m.key
    <3> DEFINE rank == [m \in T |-> m.key]
    <3>1. rank \in [T -> Nat]
      BY <1>1 DEF Planted, NodeSet
    <3> HIDE DEF T
    <3>2. PICK n \in T : \A m \in T : rank[n] <= rank[m]
      <4> HIDE DEF rank
      <4> QED
        BY <3>1, LeastRank
    <3> QED
      BY <3>2
  <2>2. n \in C /\ n \notin D /\ n # RootNode
    BY <1>1 DEF Planted
  <2>3. PICK m, d : m \in C /\ d \in near[m.key] /\ n = Beneath(m, d)
    BY <1>1, <2>2 DEF Planted
  <2>4. m \in NodeSet /\ d \in NodeSet /\ m.key < d.key
    BY <1>1, <2>3 DEF Planted, Downward, NodeSet
  <2>5. n.key = d.key
    BY <2>3, <2>4, BeneathFacts
  <2>6. m \in D
    <3>1. n.key \in Nat /\ m.key \in Nat
      BY <2>4, <2>5 DEF NodeSet
    <3>2. ~(n.key <= m.key)
      BY <2>4, <2>5, <3>1
    <3> QED
      BY <2>1, <2>3, <3>2
  <2> QED
    BY <1>1, <2>2, <2>3, <2>6 DEF Planted
<1> QED
  BY <1>1

\* How the nodes change when what is right below them does.
LEMMA SameTree ==
    ASSUME NEW near, NEW after, Downward(near), Downward(after),
           NEW A, Planted(near, A), NEW B, Planted(after, B),
           \A n \in A : after[n.key] = near[n.key]
    PROVE  B = A
<1>1. Planted(after, A)
  BY DEF Planted
<1> QED
  BY <1>1, OneTree

\* A node gets one more below it.
LEMMA GrownTree ==
    ASSUME NEW near, NEW after, Downward(near), Downward(after),
           NEW A, Planted(near, A), NEW B, Planted(after, B),
           NEW m \in A, NEW d \in NodeSet,
           \A n \in A : n # m => n.key # m.key /\ after[n.key] = near[n.key],
           after[m.key] = near[m.key] \cup {d}, after[d.key] = {}
    PROVE  B = A \cup {Beneath(m, d)}
<1> DEFINE e == Beneath(m, d)
           C == A \cup {e}
<1>1. A \subseteq NodeSet /\ RootNode \in A
  BY DEF Planted
<1>2. e \in NodeSet /\ e.key = d.key
  BY <1>1, BeneathFacts
<1> HIDE DEF e
<1>3. ASSUME NEW n \in C, NEW x \in after[n.key] PROVE Beneath(n, x) \in C
  <2>1. n # e
    BY <1>2, <1>3
  <2>2. CASE x \in near[n.key]
    BY <2>1, <2>2 DEF Planted
  <2>3. CASE x \notin near[n.key]
    <3>1. n = m /\ x = d
      BY <2>1, <2>3
    <3> QED
      BY <3>1 DEF e
  <2> QED
    BY <2>2, <2>3
<1>4. ASSUME NEW n \in C, n # RootNode
      PROVE  \E l \in C : \E x \in after[l.key] : n = Beneath(l, x)
  <2>1. CASE n = e
    BY <2>1 DEF e
  <2>2. CASE n # e
    <3>1. PICK l, x : l \in A /\ x \in near[l.key] /\ n = Beneath(l, x)
      BY <1>4, <2>2 DEF Planted
    <3>2. x \in after[l.key]
      BY <3>1
    <3> QED
      BY <3>1, <3>2
  <2> QED
    BY <2>1, <2>2
<1>5. Planted(after, C)
  BY <1>1, <1>2, <1>3, <1>4 DEF Planted
<1> QED
  BY <1>5, OneTree DEF e

\* A key gets another kind.
Retyped(s, n) == IF n.key = s THEN Node(n.path, n.key, "table") ELSE n

LEMMA RetypedFacts ==
    ASSUME NEW s, NEW n \in NodeSet
    PROVE  /\ Retyped(s, n) \in NodeSet
           /\ Retyped(s, n).path = n.path /\ Retyped(s, n).key = n.key
           /\ Retyped(s, n).kind = IF n.key = s THEN "table" ELSE n.kind
           /\ \A m \in NodeSet : Beneath(Retyped(s, m), Retyped(s, n)) = Retyped(s, Beneath(m, n))
<1>1. /\ Retyped(s, n) \in NodeSet
      /\ Retyped(s, n).path = n.path /\ Retyped(s, n).key = n.key
      /\ Retyped(s, n).kind = IF n.key = s THEN "table" ELSE n.kind
  BY DEF Retyped, NodeSet, Node, Kinds
<1>2. ASSUME NEW m \in NodeSet
      PROVE  Beneath(Retyped(s, m), Retyped(s, n)) = Retyped(s, Beneath(m, n))
  BY DEF Retyped, Beneath, Node
<1> QED
  BY <1>1, <1>2

RetypedBelow(near, after, A, s) ==
    \A n \in A : \A e : e \in after[n.key] <=> \E d \in near[n.key] : e = Retyped(s, d)

LEMMA RetypedTree ==
    ASSUME NEW near, NEW after, Downward(near), Downward(after),
           NEW A, Planted(near, A), NEW B, Planted(after, B),
           NEW s, s # 1, RetypedBelow(near, after, A, s)
    PROVE  \A b : b \in B <=> \E a \in A : b = Retyped(s, a)
<1> USE DEF RetypedBelow
<1> DEFINE C == {Retyped(s, a) : a \in A}
<1>1. A \subseteq NodeSet /\ RootNode \in A
  BY DEF Planted
<1>2. C \subseteq NodeSet
  BY <1>1, RetypedFacts
<1>3. RootNode \in C
  <2>1. Retyped(s, RootNode) = RootNode
    BY RootNodeFacts DEF Retyped
  <2> QED
    BY <1>1, <2>1
<1>4. \A a \in A : \A d \in near[a.key] : d \in NodeSet
  BY <1>1 DEF Downward, NodeSet
<1>5. ASSUME NEW n \in C, NEW x \in after[n.key] PROVE Beneath(n, x) \in C
  <2>1. PICK a \in A : n = Retyped(s, a)
    OBVIOUS
  <2>2. n.key = a.key /\ a \in NodeSet
    BY <1>1, <2>1, RetypedFacts
  <2>3. PICK d \in near[a.key] : x = Retyped(s, d)
    BY <1>5, <2>2
  <2>4. Beneath(n, x) = Retyped(s, Beneath(a, d))
    BY <1>4, <2>1, <2>2, <2>3, RetypedFacts
  <2>5. Beneath(a, d) \in A
    BY DEF Planted
  <2> QED
    BY <2>4, <2>5
<1>6. ASSUME NEW n \in C, n # RootNode
      PROVE  \E l \in C : \E x \in after[l.key] : n = Beneath(l, x)
  <2>1. PICK a \in A : n = Retyped(s, a)
    OBVIOUS
  <2>2. a # RootNode
    BY <1>6, <2>1, RootNodeFacts DEF Retyped
  <2>3. PICK l, d : l \in A /\ d \in near[l.key] /\ a = Beneath(l, d)
    BY <2>2 DEF Planted
  <2>4. l \in NodeSet /\ d \in NodeSet
    BY <1>1, <1>4, <2>3
  <2>5. n = Beneath(Retyped(s, l), Retyped(s, d))
    BY <2>1, <2>3, <2>4, RetypedFacts
  <2>6. Retyped(s, l) \in C /\ Retyped(s, l).key = l.key
    BY <2>3, <2>4, RetypedFacts
  <2>7. Retyped(s, d) \in after[l.key]
    BY <2>3
  <2> QED
    BY <2>5, <2>6, <2>7
<1>7. Planted(after, C)
  <2> HIDE DEF C
  <2> QED
    BY <1>2, <1>3, <1>5, <1>6 DEF Planted
<1>8. B = C
  <2> HIDE DEF C
  <2> QED
    BY <1>7, OneTree
<1> QED
  BY <1>8

-----------------------------------------------------------------------------
(* The nodes of the heap. *)

\* What Nodes needs to be a tree, besides the invariants of the other modules:
\* only array tables have elements, keys that are not allocated lead nowhere,
\* and every open inline table has a container of its own.
Filled    == \A k \in Allocated : keys[k].idx >= 0 => keys[k].type = "ARRAYTABLE"
Unused    == \A k \in 1 .. MaxKeys : k > nkeys => UsedIds(k) = {} /\ keys[k].idx = -1
Contained == /\ \A n \in 1 .. Len(open) : keys[open[n].keys].type = "TABLE"
             /\ \A m, n \in 1 .. Len(open) : open[m].keys = open[n].keys => m = n
             /\ keys[Root].type = "TABLE"
Between   == mode = "inline" => at = NULL

HeapInv == IInv /\ ShapeInv /\ Filled /\ Unused /\ Contained /\ Between

NearTo == [k \in 1 .. MaxKeys |-> Near(k)]

\* The nodes right below k.
LEMMA NearIs ==
    ASSUME NEW k, NEW d
    PROVE  d \in Near(k) <=>
              \E c \in {k} \cup Containers(k) :
                 \/ \E id \in UsedIds(c) :
                       d = Node(<<id>>, has_subkey(c, id), KindOf(has_subkey(c, id)))
                 \/ \E i \in 0 .. keys[c].idx : d = Node(<<i>>, Cell(c, i), "element")
<1>1. ASSUME NEW c
      PROVE  d \in Children(c) <=>
                \/ \E id \in UsedIds(c) :
                      d = Node(<<id>>, has_subkey(c, id), KindOf(has_subkey(c, id)))
                \/ \E i \in 0 .. keys[c].idx : d = Node(<<i>>, Cell(c, i), "element")
  BY DEF Children, Cell
<1>2. d \in Near(k) <=> \E c \in {k} \cup Containers(k) : d \in Children(c)
  BY DEF Near
<1> QED
  BY <1>1, <1>2

\* Containers are keys of their own, younger than the key they belong to.
LEMMA ContainerFacts ==
    ASSUME HeapInv, NEW k
    PROVE  /\ \A c \in Containers(k) :
                 /\ c \in Allocated /\ k \in Allocated /\ k < c
                 /\ keys[c].type = "TABLE" /\ keys[k].type = "KEYLEAF"
                 /\ UsedIds(k) = {} /\ keys[k].idx < 0
                 /\ \E n \in 1 .. Len(open) : open[n].key = k /\ open[n].keys = c
           /\ \A b, c \in Containers(k) : b = c
<1>1. ASSUME NEW c \in Containers(k)
      PROVE  /\ c \in Allocated /\ k \in Allocated /\ k < c
             /\ keys[c].type = "TABLE" /\ keys[k].type = "KEYLEAF"
             /\ UsedIds(k) = {} /\ keys[k].idx < 0
             /\ \E n \in 1 .. Len(open) : open[n].key = k /\ open[n].keys = c
  <2>1. PICK n \in 1 .. Len(open) : open[n].key = k /\ open[n].keys = c
    BY DEF Containers
  <2>2. c \in Allocated /\ k \in Allocated /\ k < c /\ keys[k].type = "KEYLEAF"
    BY <2>1, OpenFacts DEF HeapInv
  <2>3. keys[c].type = "TABLE" /\ UsedIds(k) = {}
    BY <2>1 DEF HeapInv, Contained, IInv, LeavesFresh, Fresh
  <2>4. keys[k].idx \in Int
    BY <2>2, Pointers DEF HeapInv, IInv, KeyType
  <2> QED
    BY <2>1, <2>2, <2>3, <2>4 DEF HeapInv, Filled
<1>2. ASSUME NEW b \in Containers(k), NEW c \in Containers(k) PROVE b = c
  <2>1. PICK m \in 1 .. Len(open) : open[m].key = k /\ open[m].keys = b
    BY DEF Containers
  <2>2. PICK n \in 1 .. Len(open) : open[n].key = k /\ open[n].keys = c
    BY DEF Containers
  <2>3. ~(m < n) /\ ~(n < m)
    BY <2>1, <2>2, OpenFacts DEF HeapInv, IInv, Nested, Allocated
  <2> QED
    BY <2>1, <2>2, <2>3
<1> QED
  BY <1>1, <1>2

\* The pointer that makes d a node right below k: one of a map, or an element
\* of an array table.
BySlot(c, d) == \E id \in Ids :
    /\ id \in UsedIds(c) /\ has_subkey(c, id) # NULL
    /\ d = Node(<<id>>, has_subkey(c, id), KindOf(has_subkey(c, id)))
ByCell(c, d) == \E i \in Indices :
    /\ i <= keys[c].idx /\ Cell(c, i) # NULL
    /\ keys[c].type = "ARRAYTABLE" /\ UsedIds(c) = {}
    /\ d = Node(<<i>>, Cell(c, i), "element")

LEMMA NearPointer ==
    ASSUME HeapInv, NEW k \in 1 .. MaxKeys, NEW d \in Near(k)
    PROVE  \E c \in {k} \cup Containers(k) :
              /\ c \in Allocated /\ k <= c
              /\ d.key \in Allocated /\ c < d.key
              /\ BySlot(c, d) \/ ByCell(c, d)
<1>1. PICK c \in {k} \cup Containers(k) :
               \/ \E id \in UsedIds(c) :
                     d = Node(<<id>>, has_subkey(c, id), KindOf(has_subkey(c, id)))
               \/ \E i \in 0 .. keys[c].idx : d = Node(<<i>>, Cell(c, i), "element")
  BY NearIs
<1>2. k \in Nat /\ nkeys \in Nat /\ Allocated = 1 .. nkeys /\ nkeys <= MaxKeys
  BY DEF HeapInv, IInv, TypeOK, Allocated
<1>3. c \in Allocated /\ k <= c
  <2>1. CASE c \in Containers(k)
    BY <1>2, <2>1, ContainerFacts
  <2>2. ASSUME c = k PROVE ~(k > nkeys)
    <3> SUFFICES ASSUME k > nkeys PROVE FALSE
      OBVIOUS
    <3>1. UsedIds(c) = {} /\ keys[c].idx = -1
      BY <2>2 DEF HeapInv, Unused
    <3>2. 0 .. keys[c].idx = {}
      BY <3>1
    <3> QED
      BY <1>1, <3>1, <3>2
  <2> QED
    BY <1>2, <2>1, <2>2
<1>4. CASE \E id \in UsedIds(c) :
                d = Node(<<id>>, has_subkey(c, id), KindOf(has_subkey(c, id)))
  <2>1. PICK id \in UsedIds(c) :
              d = Node(<<id>>, has_subkey(c, id), KindOf(has_subkey(c, id)))
    BY <1>4
  <2>2. id \in Ids /\ has_subkey(c, id) # NULL
    BY DEF UsedIds
  <2>3. has_subkey(c, id) \in Allocated /\ c < has_subkey(c, id)
    BY <1>3, <2>2, Pointers DEF HeapInv, IInv
  <2>4. d.key = has_subkey(c, id)
    BY <2>1 DEF Node
  <2>5. BySlot(c, d)
    BY <2>1, <2>2 DEF BySlot
  <2> QED
    BY <1>3, <2>3, <2>4, <2>5
<1>5. CASE \E i \in 0 .. keys[c].idx : d = Node(<<i>>, Cell(c, i), "element")
  <2>1. PICK i \in 0 .. keys[c].idx : d = Node(<<i>>, Cell(c, i), "element")
    BY <1>5
  <2>2. keys[c].idx \in -1 .. MaxArray - 1
    BY <1>3, Pointers DEF HeapInv, IInv, KeyType
  <2>3. i \in Indices /\ keys[c].idx >= 0 /\ i <= keys[c].idx
    BY <2>2 DEF Indices
  <2>4. keys[c].type = "ARRAYTABLE" /\ UsedIds(c) = {} /\ Cell(c, i) # NULL
    BY <1>3, <2>3 DEF HeapInv, Filled, IInv, ArrayTablesReady, Cell
  <2>5. Cell(c, i) \in Allocated /\ c < Cell(c, i)
    BY <1>3, <2>3, <2>4, Pointers DEF HeapInv, IInv, Cell, Indices
  <2>6. d.key = Cell(c, i)
    BY <2>1 DEF Node
  <2>7. ByCell(c, d)
    BY <2>1, <2>3, <2>4 DEF ByCell
  <2> QED
    BY <1>3, <2>5, <2>6, <2>7
<1> QED
  BY <1>1, <1>4, <1>5

LEMMA KindType == ASSUME HeapInv, NEW k \in Allocated PROVE KindOf(k) \in Kinds
<1>1. keys[k] \in KeyType
  BY Pointers DEF HeapInv, IInv
<1> QED
  BY <1>1 DEF KindOf, Kinds, KeyType, Types

LEMMA NearDownward == ASSUME HeapInv PROVE Downward(NearTo)
<1>1. ASSUME NEW k \in 1 .. MaxKeys, NEW d \in Near(k)
      PROVE  d \in NodeSet /\ k < d.key /\ \E s \in Steps : d.path = <<s>>
  <2>1. PICK c \in {k} \cup Containers(k) :
              /\ c \in Allocated /\ k <= c
              /\ d.key \in Allocated /\ c < d.key
              /\ BySlot(c, d) \/ ByCell(c, d)
    BY NearPointer
  <2>2. nkeys \in Nat /\ Allocated = 1 .. nkeys /\ nkeys <= MaxKeys
    BY DEF HeapInv, IInv, TypeOK, Allocated
  <2>3. PICK s, r, kind : d = Node(<<s>>, r, kind) /\ r = d.key /\ s \in Steps /\ kind \in Kinds
    <3>1. CASE BySlot(c, d)
      <4>1. PICK id \in Ids :
                  d = Node(<<id>>, has_subkey(c, id), KindOf(has_subkey(c, id)))
        BY <3>1 DEF BySlot
      <4>2. d.key = has_subkey(c, id)
        BY <4>1 DEF Node
      <4>3. KindOf(d.key) \in Kinds
        BY <2>1, KindType
      <4> QED
        BY <4>1, <4>2, <4>3 DEF Steps
    <3>2. CASE ByCell(c, d)
      <4>1. PICK i \in Indices : d = Node(<<i>>, Cell(c, i), "element")
        BY <3>2 DEF ByCell
      <4>2. d.key = Cell(c, i)
        BY <4>1 DEF Node
      <4> QED
        BY <4>1, <4>2 DEF Steps, Kinds
    <3> QED
      BY <2>1, <3>1, <3>2
  <2>4. <<s>> \in Seq(Steps)
    BY <2>3
  <2>5. d.key \in 1 .. MaxKeys /\ k < d.key
    BY <2>1, <2>2
  <2>6. d.path = <<s>>
    BY <2>3 DEF Node
  <2> QED
    BY <2>3, <2>4, <2>5, <2>6 DEF Node, NodeSet
<1> QED
  BY <1>1 DEF Downward, NearTo

\* A step leads to one node only, and a key is right below one key only.
LEMMA NearUnique ==
    ASSUME HeapInv, NEW k \in 1 .. MaxKeys, NEW d \in Near(k), NEW e \in Near(k),
           d.path = e.path
    PROVE  d = e
<1>1. PICK b \in {k} \cup Containers(k) : BySlot(b, d) \/ ByCell(b, d)
  BY NearPointer
<1>2. PICK c \in {k} \cup Containers(k) : BySlot(c, e) \/ ByCell(c, e)
  BY NearPointer
<1>3. k \notin {b, c} \/ Containers(k) = {}
  <2>1. ASSUME NEW a \in Containers(k) PROVE k \notin {b, c}
    <3>1. UsedIds(k) = {} /\ keys[k].idx < 0 /\ keys[k].type = "KEYLEAF"
      BY <2>1, ContainerFacts
    <3> QED
      BY <1>1, <1>2, <3>1 DEF BySlot, ByCell
  <2> QED
    BY <2>1
<1>4. b = c
  BY <1>3, ContainerFacts
<1>5. CASE BySlot(b, d) /\ BySlot(b, e)
  BY <1>5 DEF BySlot, Node
<1>6. CASE ByCell(b, d) /\ ByCell(b, e)
  BY <1>6 DEF ByCell, Node
<1>7. ~(BySlot(b, d) /\ ByCell(b, e)) /\ ~(BySlot(b, e) /\ ByCell(b, d))
  BY DEF BySlot, ByCell
<1> QED
  BY <1>1, <1>2, <1>4, <1>5, <1>6, <1>7

Loose(k) == k \in Allocated /\ \A n \in 1 .. Len(open) : open[n].keys # k

LEMMA NearParent ==
    ASSUME HeapInv, NEW j, Loose(j), NEW k, Loose(k),
           NEW d \in Near(j), NEW e \in Near(k), d.key = e.key
    PROVE  j = k /\ d = e
<1>1. j \in 1 .. MaxKeys /\ k \in 1 .. MaxKeys
  BY DEF Loose, HeapInv, IInv, TypeOK, Allocated
<1>2. PICK b \in {j} \cup Containers(j) : b \in Allocated /\ (BySlot(b, d) \/ ByCell(b, d))
  BY <1>1, NearPointer
<1>3. PICK c \in {k} \cup Containers(k) : c \in Allocated /\ (BySlot(c, e) \/ ByCell(c, e))
  BY <1>1, NearPointer
<1>4. b = c /\ d = e
  <2>1. CASE BySlot(b, d) /\ BySlot(c, e)
    BY <1>2, <1>3, <2>1 DEF BySlot, Node, HeapInv, ShapeInv, Unshared
  <2>2. CASE ByCell(b, d) /\ ByCell(c, e)
    BY <1>2, <1>3, <2>2 DEF ByCell, Node, HeapInv, ShapeInv, Unshared
  <2>3. ~(BySlot(b, d) /\ ByCell(c, e)) /\ ~(BySlot(c, e) /\ ByCell(b, d))
    BY <1>2, <1>3 DEF BySlot, ByCell, Node, HeapInv, ShapeInv, Unshared
  <2> QED
    BY <1>2, <1>3, <2>1, <2>2, <2>3
<1>5. ASSUME NEW l, Loose(l) PROVE l \notin Containers(j) \cup Containers(k)
  BY <1>5 DEF Loose, Containers
<1>6. j = k
  <2>1. CASE b = j \/ c = k
    BY <1>4, <1>5, <2>1
  <2>2. CASE b \in Containers(j) /\ c \in Containers(k)
    BY <1>4, <2>2 DEF Containers, HeapInv, Contained
  <2> QED
    BY <2>1, <2>2
<1> QED
  BY <1>4, <1>6

LEMMA NodesPlanted == ASSUME HeapInv PROVE Planted(NearTo, Nodes)
<1> DEFINE below == CHOOSE below : below = [k \in 1 .. MaxKeys |->
                        Near(k) \cup UNION {{Node(m.path \o n.path, n.key, n.kind) :
                                                n \in below[m.key]} : m \in Near(k)}]
<1>1. Nodes = {RootNode} \cup below[Root]
  BY DEF Nodes, RootNode
<1>2. PICK b : Finds(NearTo, b)
  BY NearDownward, BelowExists
<1>3. ASSUME NEW f
      PROVE  [k \in 1 .. MaxKeys |-> Under(NearTo, f, k)] = [k \in 1 .. MaxKeys |->
                 Near(k) \cup UNION {{Node(m.path \o n.path, n.key, n.kind) :
                                        n \in f[m.key]} : m \in Near(k)}]
  BY DEF Under, NearTo, Beneath
<1>4. Finds(NearTo, below)
  <2>1. b = [k \in 1 .. MaxKeys |->
                Near(k) \cup UNION {{Node(m.path \o n.path, n.key, n.kind) :
                                       n \in b[m.key]} : m \in Near(k)}]
    BY <1>2, <1>3 DEF Finds
  <2>2. below = [k \in 1 .. MaxKeys |->
                Near(k) \cup UNION {{Node(m.path \o n.path, n.key, n.kind) :
                                       n \in below[m.key]} : m \in Near(k)}]
    BY <2>1
  <2> HIDE DEF below
  <2> QED
    BY <1>3, <2>2 DEF Finds
<1> HIDE DEF below
<1> QED
  BY <1>1, <1>4, NearDownward, BelowPlanted

\* How the variables of TomlRules follow from the nodes.
Charted ==
    /\ Downward(NearTo) /\ Planted(NearTo, Nodes)
    /\ \A n \in Nodes : Loose(n.key)
    /\ \A m, n \in Nodes : m.path = n.path => m = n
    /\ \A m, n \in Nodes : m.key = n.key => m = n
    /\ Kind = [p \in {n.path : n \in Nodes} |-> Kind[p]]
    /\ \A n \in Nodes : Kind[n.path] = n.kind
    /\ \A n \in Nodes : \A k : OwnerOf(k) = n.key => PathOf(k) = n.path

\* How a node n hangs below another one, m, by a step s.
Hangs(n, m, d, s) ==
    /\ n = Beneath(m, d) /\ n.key = d.key /\ d.path = <<s>>
    /\ m.key \in 1 .. MaxKeys /\ n.key \in 1 .. MaxKeys /\ m.key < n.key
    /\ m.path \in Seq(Steps) /\ n.path = m.path \o <<s>> /\ n.path # <<>>

LEMMA HeapCharted == HeapInv => Charted
<1> SUFFICES ASSUME HeapInv PROVE Charted
  OBVIOUS
<1>1. Planted(NearTo, Nodes) /\ Downward(NearTo)
  BY NodesPlanted, NearDownward
<1>2. ASSUME NEW m \in Nodes, NEW d \in NearTo[m.key]
      PROVE  /\ m \in NodeSet /\ m.key \in 1 .. MaxKeys /\ d \in NodeSet
             /\ NearTo[m.key] = Near(m.key)
             /\ m.key < d.key /\ d.path # <<>>
             /\ \E s \in Steps : d.path = <<s>>
             /\ Beneath(m, d).path = m.path \o d.path
             /\ Beneath(m, d).key = d.key /\ Beneath(m, d).kind = d.kind
             /\ Beneath(m, d).path # <<>>
  <2>1. m \in NodeSet /\ m.key \in 1 .. MaxKeys
    BY <1>1 DEF Planted, NodeSet
  <2>2. d \in NodeSet /\ m.key < d.key /\ \E s \in Steps : d.path = <<s>>
    BY <1>1, <2>1 DEF Downward
  <2>3. PICK s \in Steps : d.path = <<s>>
    BY <2>2
  <2>4. PICK p \in Seq(Steps) : p = m.path
    BY <2>1 DEF NodeSet
  <2>5. p \o <<s>> # <<>> /\ <<s>> # <<>>
    BY PathsGrow
  <2> QED
    BY <2>1, <2>2, <2>3, <2>4, <2>5, BeneathFacts DEF NearTo
<1>3. ASSUME NEW n \in Nodes, n # RootNode
      PROVE  \E m \in Nodes : \E d \in Near(m.key) : \E s \in Steps : Hangs(n, m, d, s)
  <2>1. PICK m, d : m \in Nodes /\ d \in NearTo[m.key] /\ n = Beneath(m, d)
    BY <1>1, <1>3 DEF Planted
  <2> HIDE DEF Beneath
  <2>2. PICK s \in Steps : d.path = <<s>>
    BY <1>2, <2>1
  <2>3. /\ d \in Near(m.key) /\ m.key \in 1 .. MaxKeys /\ d.key \in 1 .. MaxKeys
        /\ m.path \in Seq(Steps) /\ m.key < d.key
    BY <1>2, <2>1 DEF NodeSet
  <2>4. n.path = m.path \o d.path /\ n.key = d.key /\ n.path # <<>>
    BY <1>2, <2>1
  <2>5. Hangs(n, m, d, s)
    BY <2>1, <2>2, <2>3, <2>4 DEF Hangs
  <2> QED
    BY <2>1, <2>3, <2>5
<1>4. ASSUME NEW n \in Nodes PROVE Loose(n.key)
  <2>1. CASE n = RootNode
    <3>1. Root \in Allocated /\ \A l \in 1 .. Len(open) : open[l].keys # Root
      <4>1. Root \in Allocated
        BY DEF HeapInv, IInv, TypeOK, Allocated, Root
      <4>2. IInv
        BY DEF HeapInv
      <4>3. ASSUME NEW l \in 1 .. Len(open) PROVE open[l].keys # Root
        BY <4>2, OpenFacts DEF Root
      <4> QED
        BY <4>1, <4>3
    <3> QED
      BY <2>1, <3>1, RootNodeFacts DEF Loose, Root
  <2>2. CASE n # RootNode
    <3>1. PICK m, d : /\ m \in Nodes /\ d \in Near(m.key)
                      /\ m.key \in 1 .. MaxKeys /\ n.key = d.key
      BY <1>3, <2>2 DEF Hangs
    <3>2. PICK c \in Allocated : d.key \in Allocated /\ (BySlot(c, d) \/ ByCell(c, d))
      BY <3>1, NearPointer
    <3>3. \A l \in 1 .. Len(open) : open[l].keys # d.key
      BY <3>2 DEF BySlot, ByCell, Node, HeapInv, ShapeInv, Unshared
    <3> QED
      BY <3>1, <3>2, <3>3 DEF Loose
  <2> QED
    BY <2>1, <2>2
<1>5. ASSUME NEW T \in SUBSET Nodes, T # {}
      PROVE  \E n \in T : \A m \in T : n.key <= m.key
  <2> DEFINE rank == [m \in T |-> m.key]
  <2>1. rank \in [T -> Nat]
    BY <1>1 DEF Planted, NodeSet
  <2>2. PICK n \in T : \A m \in T : rank[n] <= rank[m]
    <3> HIDE DEF rank
    <3> QED
      BY <1>5, <2>1, LeastRank
  <2> QED
    BY <2>2
<1>6. RootNode.path = <<>> /\ RootNode.key = 1
  BY RootNodeFacts
<1>7. ASSUME NEW m \in Nodes, NEW n \in Nodes, m.path = n.path PROVE m = n
  <2> DEFINE T == {l \in Nodes : \E j \in Nodes : l.path = j.path /\ l # j}
  <2> SUFFICES ASSUME T # {} PROVE FALSE
    BY <1>7
  <2>1. PICK l \in T : \A j \in T : l.key <= j.key
    BY <1>5
  <2>2. PICK j \in Nodes : l.path = j.path /\ l # j
    OBVIOUS
  <2>3. l \in Nodes /\ l # RootNode /\ j # RootNode
    BY <1>3, <1>6, <2>2 DEF Hangs
  <2>4. PICK a, d, s : a \in Nodes /\ d \in Near(a.key) /\ s \in Steps /\ Hangs(l, a, d, s)
    BY <1>3, <2>3
  <2>5. PICK b, e, r : b \in Nodes /\ e \in Near(b.key) /\ r \in Steps /\ Hangs(j, b, e, r)
    BY <1>3, <2>3
  <2>6. a.path = b.path /\ s = r
    <3>1. PICK p \in Seq(Steps), q \in Seq(Steps), x \in Steps, y \in Steps :
                  p = a.path /\ q = b.path /\ x = s /\ y = r
      BY <2>4, <2>5 DEF Hangs
    <3>2. p \o <<x>> = q \o <<y>>
      BY <2>2, <2>4, <2>5, <3>1 DEF Hangs
    <3>3. p = q /\ x = y
      BY <3>2, PathsGrow
    <3> QED
      BY <3>1, <3>3
  <2>7. a \notin T
    BY <2>1, <2>4 DEF Hangs
  <2>8. a = b
    BY <2>4, <2>5, <2>6, <2>7
  <2>9. d = e
    <3>1. d.path = e.path /\ d \in Near(a.key) /\ e \in Near(a.key) /\ a.key \in 1 .. MaxKeys
      BY <2>4, <2>5, <2>6, <2>8 DEF Hangs
    <3> QED
      BY <3>1, NearUnique
  <2> QED
    BY <2>2, <2>4, <2>5, <2>8, <2>9 DEF Hangs
<1>8. ASSUME NEW m \in Nodes, NEW n \in Nodes, m.key = n.key PROVE m = n
  <2> DEFINE T == {l \in Nodes : \E j \in Nodes : l.key = j.key /\ l # j}
  <2> SUFFICES ASSUME T # {} PROVE FALSE
    BY <1>8
  <2>1. PICK l \in T : \A j \in T : l.key <= j.key
    BY <1>5
  <2>2. PICK j \in Nodes : l.key = j.key /\ l # j
    OBVIOUS
  <2>3. ASSUME NEW i \in Nodes, i # RootNode PROVE i.key # 1
    <3>1. PICK a \in Nodes : a.key \in 1 .. MaxKeys /\ i.key \in 1 .. MaxKeys /\ a.key < i.key
      BY <1>3, <2>3 DEF Hangs
    <3> QED
      BY <3>1
  <2>4. l \in Nodes /\ l # RootNode /\ j # RootNode
    BY <1>6, <2>2, <2>3
  <2>5. PICK a, d, s : a \in Nodes /\ d \in Near(a.key) /\ s \in Steps /\ Hangs(l, a, d, s)
    BY <1>3, <2>4
  <2>6. PICK b, e, r : b \in Nodes /\ e \in Near(b.key) /\ r \in Steps /\ Hangs(j, b, e, r)
    BY <1>3, <2>2, <2>4
  <2>7. Loose(a.key) /\ Loose(b.key) /\ d.key = e.key
    BY <1>4, <2>2, <2>5, <2>6 DEF Hangs
  <2>8. a.key = b.key /\ d = e
    BY <2>5, <2>6, <2>7, NearParent
  <2>9. a \notin T
    BY <2>1, <2>5 DEF Hangs
  <2>10. a = b
    BY <2>5, <2>6, <2>8, <2>9
  <2> QED
    BY <2>2, <2>5, <2>6, <2>8, <2>10 DEF Hangs
<1>9. \A n \in Nodes : Kind[n.path] = n.kind
  <2>1. Kind = [p \in {n.path : n \in Nodes} |-> (CHOOSE n \in Nodes : n.path = p).kind]
    BY DEF Kind
  <2>2. ASSUME NEW n \in Nodes PROVE (CHOOSE m \in Nodes : m.path = n.path) = n
    BY <1>7
  <2> QED
    BY <2>1, <2>2
<1>10. Kind = [p \in {n.path : n \in Nodes} |-> Kind[p]]
  BY DEF Kind
<1>11. ASSUME NEW n \in Nodes, NEW k, OwnerOf(k) = n.key PROVE PathOf(k) = n.path
  <2>1. (CHOOSE m \in Nodes : m.key = OwnerOf(k)) = n
    BY <1>8, <1>11
  <2> QED
    BY <2>1 DEF PathOf
<1> QED
  BY <1>1, <1>4, <1>7, <1>8, <1>9, <1>10, <1>11 DEF Charted

-----------------------------------------------------------------------------
(* What the steps do to the heap, as far as the nodes depend on it. *)

SameKey(k) == /\ keys'[k].type = keys[k].type /\ keys'[k].idx = keys[k].idx
              /\ \A id \in Ids : has_subkey(k, id)' = has_subkey(k, id)
              /\ \A i \in Indices : Cell(k, i)' = Cell(k, i)

Blank(k) == /\ keys'[k].idx = -1
            /\ \A id \in Ids : has_subkey(k, id)' = NULL

\* Nothing.
Still == /\ nkeys' = nkeys /\ open' = open
         /\ \A k \in 1 .. MaxKeys : SameKey(k)

\* The type of s, a subkey of h, which is a TABLE.
Retypes(h, id, s) ==
    /\ nkeys' = nkeys /\ open' = open
    /\ h \in Allocated /\ id \in Ids
    /\ s \in Allocated /\ s = has_subkey(h, id) /\ s # NULL
    /\ keys[s].type = "TABLE" /\ keys'[s].type = "TABLELEAF"
    /\ \A k \in 1 .. MaxKeys :
          /\ k # s => keys'[k].type = keys[k].type
          /\ keys'[k].idx = keys[k].idx
          /\ \A a \in Ids : has_subkey(k, a)' = has_subkey(k, a)
          /\ \A i \in Indices : Cell(k, i)' = Cell(k, i)

\* A new key.
Makes(fresh, type) ==
    /\ nkeys' = fresh /\ fresh = nkeys + 1 /\ fresh \in 1 .. MaxKeys /\ fresh \notin Allocated
    /\ Blank(fresh) /\ keys'[fresh].type = type

\* A new key in the map of h.
AddsKey(h, id, fresh, type) ==
    /\ Makes(fresh, type) /\ open' = open
    /\ h \in Allocated /\ id \in Ids
    /\ keys[h].type \notin {"ARRAYTABLE", "KEYLEAF"}
    /\ has_subkey(h, id) = NULL /\ has_subkey(h, id)' = fresh
    /\ \A k \in 1 .. MaxKeys : k # fresh =>
          /\ keys'[k].type = keys[k].type /\ keys'[k].idx = keys[k].idx
          /\ \A a \in Ids : k # h \/ a # id => has_subkey(k, a)' = has_subkey(k, a)
          /\ \A i \in Indices : Cell(k, i)' = Cell(k, i)

\* A new table in the array table h.
AddsCell(h, i, fresh) ==
    /\ Makes(fresh, "KEY") /\ open' = open
    /\ h \in Allocated /\ keys[h].type = "ARRAYTABLE"
    /\ i \in Indices /\ i = keys[h].idx + 1 /\ keys'[h].idx = i
    /\ Cell(h, i)' = fresh
    /\ \A k \in 1 .. MaxKeys : k # fresh =>
          /\ keys'[k].type = keys[k].type /\ (k # h => keys'[k].idx = keys[k].idx)
          /\ \A a \in Ids : has_subkey(k, a)' = has_subkey(k, a)
          /\ \A j \in Indices : k # h \/ j # i => Cell(k, j)' = Cell(k, j)

\* A new container, for the key k.
Opens(k, fresh) ==
    /\ Makes(fresh, "TABLE") /\ open' = Append(open, [key |-> k, keys |-> fresh])
    /\ k \in Allocated /\ keys[k].type = "KEYLEAF" /\ UsedIds(k) = {}
    /\ \A j \in 1 .. MaxKeys : j # fresh => SameKey(j)

\* The map of the container c becomes that of its key k.
Closes(k, c) ==
    /\ nkeys' = nkeys /\ open' = SubSeq(open, 1, Len(open) - 1)
    /\ Len(open) \in 1 .. Len(open)
    /\ k = open[Len(open)].key /\ c = open[Len(open)].keys /\ k # c
    /\ k \in Allocated /\ c \in Allocated
    /\ \A a \in Ids : has_subkey(k, a)' = has_subkey(c, a) /\ has_subkey(c, a)' = NULL
    /\ \A j \in 1 .. MaxKeys :
          /\ keys'[j].type = keys[j].type /\ keys'[j].idx = keys[j].idx
          /\ \A a \in Ids : j \notin {k, c} => has_subkey(j, a)' = has_subkey(j, a)
          /\ \A i \in Indices : Cell(j, i)' = Cell(j, i)

\* The number of the key that is made next.
LEMMA FreshKey ==
    ASSUME IInv, CanAlloc
    PROVE  /\ new \in Nat /\ new \in 1 .. MaxKeys /\ new \notin Allocated
           /\ new = nkeys + 1 /\ new # NULL
           /\ Allocated \subseteq 1 .. MaxKeys
  BY DEF IInv, TypeOK, Allocated, new, CanAlloc, NULL

LEMMA QuietEffect ==
    ASSUME IInv, \/ UNCHANGED <<keys, nkeys, open>> \/ SetValue
    PROVE  Still
<1>1. CASE UNCHANGED <<keys, nkeys, open>>
  BY <1>1 DEF Still, SameKey, has_subkey, Cell
<1>2. CASE SetValue
  <2>1. PICK v \in Values : keys' = [keys EXCEPT ![at].value = v]
    BY <1>2 DEF SetValue
  <2>2. \A k \in 1 .. MaxKeys : /\ keys'[k].subkeys = keys[k].subkeys
                                /\ keys'[k].arr = keys[k].arr
                                /\ keys'[k].idx = keys[k].idx
                                /\ keys'[k].type = keys[k].type
    <3>1. keys \in [1 .. MaxKeys -> KeyType]
      BY DEF IInv, TypeOK
    <3> QED
      BY <2>1, <3>1 DEF KeyType
  <2> QED
    BY <2>2, <1>2 DEF SetValue, Still, SameKey, has_subkey, Cell
<1> QED
  BY <1>1, <1>2

LEMMA DescendEffect ==
    ASSUME IInv, NEW id \in Ids, NEW final \in BOOLEAN, Descend(id, final)
    PROVE  \/ NewType(final) # "TABLELEAF" /\ Still
           \/ /\ NewType(final) = "TABLELEAF"
              /\ \E h, s \in Allocated : /\ h = Holder(at, id) /\ s = Found(at, id)
                                         /\ Retypes(h, id, s)
<1>1. CASE NewType(final) # "TABLELEAF"
  BY <1>1, QuietEffect DEF Descend
<1>2. CASE NewType(final) = "TABLELEAF"
  <2>1. PICK s \in Allocated, h \in Allocated :
                s = Found(at, id) /\ h = Holder(at, id) /\ s # NULL /\ s = has_subkey(h, id)
    BY HolderFacts DEF Descend, Found
  <2>2. s \in 1 .. MaxKeys /\ keys[s].type = "TABLE"
    BY <1>2, <2>1 DEF Descend, compatible_keys, IInv, TypeOK, Allocated
  <2>3. keys' = [keys EXCEPT ![s].type = "TABLELEAF"] /\ nkeys' = nkeys /\ open' = open
    BY <1>2, <2>1 DEF Descend
  <2>4. /\ keys'[s].type = "TABLELEAF"
        /\ \A k \in 1 .. MaxKeys : /\ keys'[k].subkeys = keys[k].subkeys
                                   /\ keys'[k].arr = keys[k].arr
                                   /\ keys'[k].idx = keys[k].idx
                                   /\ k # s => keys'[k].type = keys[k].type
    <3>1. keys \in [1 .. MaxKeys -> KeyType]
      BY DEF IInv, TypeOK
    <3> QED
      BY <2>2, <2>3, <3>1 DEF KeyType
  <2> QED
    BY <1>2, <2>1, <2>2, <2>3, <2>4 DEF Retypes, has_subkey, Cell
<1> QED
  BY <1>1, <1>2

LEMMA CreateEffect ==
    ASSUME IInv, NEW id \in Ids, NEW final \in BOOLEAN, Create(id, final)
    PROVE  \E h \in Allocated, fresh \in Nat, type \in Types :
              /\ h = Holder(at, id) /\ fresh = new /\ type = NewType(final)
              /\ AddsKey(h, id, fresh, type)
<1>1. /\ mode \in Walking /\ CanAlloc /\ nkeys' = new /\ open' = open
      /\ has_subkey(Holder(at, id), id) = NULL
  BY DEF Create, Found
<1>2. PICK h \in Allocated : h = Holder(at, id) /\ keys[h].type \notin {"ARRAYTABLE", "KEYLEAF"}
  BY <1>1, HolderFacts
<1>3. PICK fresh \in Nat : fresh = new
  BY <1>1, FreshKey
<1>4. /\ fresh \in 1 .. MaxKeys /\ h \in 1 .. MaxKeys /\ h # fresh /\ fresh \notin Allocated
      /\ fresh = nkeys + 1
  BY <1>1, <1>2, <1>3, FreshKey
<1>5. PICK type \in Types : type = NewType(final)
  BY <1>1 DEF NewType, Types, Walking
<1>6. /\ keys'[fresh] = new_key(type)
      /\ keys'[h].subkeys = [keys[h].subkeys EXCEPT ![id] = fresh]
      /\ keys'[h].arr = keys[h].arr /\ keys'[h].type = keys[h].type
      /\ keys'[h].idx = keys[h].idx
      /\ \A k \in 1 .. MaxKeys : k \notin {h, fresh} => keys'[k] = keys[k]
  <2>1. keys' = [keys EXCEPT ![h].subkeys[id] = fresh, ![fresh] = new_key(type)]
    BY <1>2, <1>3, <1>5 DEF Create
  <2>2. keys \in [1 .. MaxKeys -> KeyType]
    BY DEF IInv, TypeOK
  <2> QED
    BY <2>1, <2>2, <1>4 DEF KeyType
<1>7. keys[h].subkeys \in [Ids -> 0 .. MaxKeys]
  BY <1>2, <1>4 DEF IInv, TypeOK, KeyType
<1>8. Makes(fresh, type)
  BY <1>1, <1>3, <1>4, <1>6, NewKeyType DEF Makes, Blank, has_subkey
<1>9. AddsKey(h, id, fresh, type)
  BY <1>1, <1>2, <1>4, <1>6, <1>7, <1>8 DEF AddsKey, has_subkey, Cell
<1> QED
  BY <1>2, <1>3, <1>5, <1>9

LEMMA NewElementEffect ==
    ASSUME IInv, NewElement
    PROVE  \E h \in Allocated, i \in Indices, fresh \in Nat :
              h = at /\ fresh = new /\ AddsCell(h, i, fresh)
<1>1. mode = "element" /\ CanAlloc /\ nkeys' = new /\ open' = open
  BY DEF NewElement
<1>2. PICK h \in Allocated : h = at /\ keys[h].type = "ARRAYTABLE"
  BY <1>1 DEF IInv, Somewhere, TypeOK, Allocated, NULL
<1>3. PICK fresh \in Nat : fresh = new
  BY <1>1, FreshKey
<1>4. /\ fresh \in 1 .. MaxKeys /\ h \in 1 .. MaxKeys /\ h # fresh /\ fresh \notin Allocated
      /\ fresh = nkeys + 1
  BY <1>1, <1>2, <1>3, FreshKey
<1>5. PICK i \in Indices : i = keys[h].idx + 1
  BY <1>2, Pointers DEF IInv, KeyType, NewElement, Indices
<1>6. /\ keys'[fresh] = new_key("KEY")
      /\ keys'[h].subkeys = keys[h].subkeys /\ keys'[h].type = keys[h].type
      /\ keys'[h].idx = i
      /\ keys'[h].arr = [keys[h].arr EXCEPT ![i] = fresh]
      /\ \A k \in 1 .. MaxKeys : k \notin {h, fresh} => keys'[k] = keys[k]
  <2>1. keys' = [keys EXCEPT ![h].value = "array", ![h].idx = i,
                             ![h].arr[i] = fresh, ![fresh] = new_key("KEY")]
    BY <1>2, <1>3, <1>5 DEF NewElement
  <2>2. keys \in [1 .. MaxKeys -> KeyType]
    BY DEF IInv, TypeOK
  <2> QED
    BY <2>1, <2>2, <1>4 DEF KeyType
<1>7. keys[h].arr \in [Indices -> 0 .. MaxKeys]
  BY <1>2, <1>4 DEF IInv, TypeOK, KeyType, Indices
<1>8. Makes(fresh, "KEY")
  BY <1>1, <1>3, <1>4, <1>6, NewKeyType DEF Makes, Blank, has_subkey, Types
<1>9. AddsCell(h, i, fresh)
  BY <1>1, <1>2, <1>4, <1>5, <1>6, <1>7, <1>8 DEF AddsCell, has_subkey, Cell
<1> QED
  BY <1>2, <1>3, <1>9

LEMMA OpenInlineEffect ==
    ASSUME IInv, OpenInline
    PROVE  \E k \in Allocated, fresh \in Nat : k = at /\ fresh = new /\ Opens(k, fresh)
<1>1. PICK fresh \in Nat : fresh = new
  BY FreshKey DEF OpenInline
<1>2. /\ CanAlloc /\ nkeys' = fresh
      /\ open' = Append(open, [key |-> at, keys |-> fresh])
      /\ keys' = [keys EXCEPT ![fresh] = new_key("TABLE")]
  BY <1>1 DEF OpenInline
<1>3. fresh \in 1 .. MaxKeys /\ fresh \notin Allocated /\ fresh = nkeys + 1
  BY <1>1, <1>2, FreshKey
<1>4. /\ keys'[fresh] = new_key("TABLE")
      /\ \A k \in 1 .. MaxKeys : k # fresh => keys'[k] = keys[k]
  BY <1>2, <1>3 DEF IInv, TypeOK
<1>5. PICK k \in Allocated : k = at /\ keys[k].type = "KEYLEAF" /\ UsedIds(k) = {}
  BY DEF OpenInline, IInv, TypeOK, Somewhere, LeavesFresh, Fresh, Allocated, NULL
<1>6. Makes(fresh, "TABLE")
  BY <1>2, <1>3, <1>4, NewKeyType DEF Makes, Blank, has_subkey, Types
<1>7. \A j \in 1 .. MaxKeys : j # fresh => SameKey(j)
  BY <1>4 DEF SameKey, has_subkey, Cell
<1>8. Opens(k, fresh)
  BY <1>2, <1>5, <1>6, <1>7 DEF Opens
<1> QED
  BY <1>1, <1>5, <1>8

LEMMA CloseInlineEffect ==
    ASSUME IInv, ShapeInv, CloseInline
    PROVE  /\ mode' = AfterValue(open')
           /\ \E k, c \in Allocated : k = Top.key /\ c = Top.keys /\ Closes(k, c)
<1>1. Len(open) \in 1 .. Len(open) /\ Len(open) \in Nat /\ Top = open[Len(open)]
  BY OpenFacts DEF CloseInline
<1>2. PICK k \in Allocated, c \in Allocated :
         k = Top.key /\ c = Top.keys /\ k # c /\ k \in 1 .. MaxKeys /\ c \in 1 .. MaxKeys
  BY <1>1, OpenFacts DEF IInv, TypeOK, Allocated
<1>3. \A a \in Ids : has_subkey(k, a) = NULL
  BY <1>1, <1>2 DEF IInv, LeavesFresh, Fresh, UsedIds
<1>4. ~Clash /\ ~TooMany
  BY MergesInside DEF InlineMerges, CloseInline
<1>5. /\ nkeys' = nkeys /\ open' = SubSeq(open, 1, Len(open) - 1)
      /\ mode' = AfterValue(open')
      /\ keys' = [keys EXCEPT ![k].subkeys = Merged, ![k].type = "KEYLEAF",
                              ![c].subkeys = NoSubkeys]
  BY <1>4, <1>2 DEF CloseInline
<1>6. keys[k].type = "KEYLEAF"
  BY <1>1, <1>2, OpenFacts
<1>7. /\ keys'[k].subkeys = Merged /\ keys'[c].subkeys = NoSubkeys
      /\ \A x \in 1 .. MaxKeys : /\ x \notin {k, c} => keys'[x].subkeys = keys[x].subkeys
                                 /\ keys'[x].arr = keys[x].arr
                                 /\ keys'[x].idx = keys[x].idx
                                 /\ keys'[x].type = keys[x].type
  <2> DEFINE p == [keys[k] EXCEPT !.subkeys = Merged, !.type = "KEYLEAF"]
             q == [keys[c] EXCEPT !.subkeys = NoSubkeys]
  <2>1. keys \in [1 .. MaxKeys -> KeyType]
    BY DEF IInv, TypeOK
  <2>2. p.subkeys = Merged /\ p.arr = keys[k].arr /\ p.idx = keys[k].idx
        /\ p.type = keys[k].type
    BY <1>2, <1>6, <2>1 DEF KeyType
  <2>3. q.subkeys = NoSubkeys /\ q.arr = keys[c].arr /\ q.idx = keys[c].idx
        /\ q.type = keys[c].type
    BY <1>2, <2>1 DEF KeyType
  <2>4. keys' = [x \in 1 .. MaxKeys |-> IF x = k THEN p ELSE IF x = c THEN q ELSE keys[x]]
    BY <1>2, <1>5, <2>1
  <2> HIDE DEF p, q
  <2> QED
    BY <2>2, <2>3, <2>4, <1>2
<1>8. Merged = [a \in Ids |-> has_subkey(c, a)]
  BY <1>2, <1>3 DEF Merged
<1>9. \A a \in Ids : has_subkey(k, a)' = has_subkey(c, a) /\ has_subkey(c, a)' = NULL
  BY <1>7, <1>8 DEF has_subkey, NoSubkeys
<1>10. \A j \in 1 .. MaxKeys :
          /\ \A a \in Ids : j \notin {k, c} => has_subkey(j, a)' = has_subkey(j, a)
          /\ \A i \in Indices : Cell(j, i)' = Cell(j, i)
  BY <1>7 DEF has_subkey, Cell
<1>11. Closes(k, c)
  BY <1>1, <1>2, <1>5, <1>7, <1>9, <1>10 DEF Closes
<1> QED
  BY <1>2, <1>5, <1>11

\* What a step leaves of the sets that Filled, Unused and Contained speak of.
LEMMA AllocatedIs ==
    ASSUME IInv
    PROVE  /\ nkeys \in Nat /\ nkeys <= MaxKeys
           /\ Allocated \subseteq 1 .. MaxKeys
           /\ \A k \in 1 .. MaxKeys : k \in Allocated <=> k <= nkeys
           /\ \A k \in Allocated' : k \in 1 .. nkeys'
  BY DEF IInv, TypeOK, Allocated

LEMMA StillKeeps == ASSUME HeapInv, Still PROVE Filled' /\ Unused' /\ Contained'
<1>1. Allocated' = Allocated /\ Allocated \subseteq 1 .. MaxKeys /\ Root \in 1 .. MaxKeys
      /\ nkeys' = nkeys /\ open' = open
  BY AllocatedIs DEF Still, HeapInv, Allocated, Root
<1>2. \A k \in 1 .. MaxKeys : /\ keys'[k].type = keys[k].type /\ keys'[k].idx = keys[k].idx
                              /\ UsedIds(k)' = UsedIds(k)
  BY DEF Still, SameKey, UsedIds
<1>3. Filled'
  BY <1>1, <1>2 DEF HeapInv, Filled
<1>4. Unused'
  BY <1>1, <1>2 DEF HeapInv, Unused
<1>5. \A n \in 1 .. Len(open) : open[n].keys \in 1 .. MaxKeys
  BY <1>1, OpenFacts DEF HeapInv
<1>6. Contained'
  BY <1>1, <1>2, <1>5 DEF HeapInv, Contained
<1> QED
  BY <1>3, <1>4, <1>6

LEMMA RetypesKeeps ==
    ASSUME HeapInv, NEW h, NEW id, NEW s, Retypes(h, id, s)
    PROVE  Filled' /\ Unused' /\ Contained'
<1>1. Allocated' = Allocated /\ Allocated \subseteq 1 .. MaxKeys /\ Root \in 1 .. MaxKeys
      /\ Root = 1 /\ nkeys' = nkeys /\ open' = open
  BY AllocatedIs DEF Retypes, HeapInv, Allocated, Root
<1>2. \A k \in 1 .. MaxKeys : /\ k # s => keys'[k].type = keys[k].type
                              /\ keys'[k].idx = keys[k].idx
                              /\ UsedIds(k)' = UsedIds(k)
  BY DEF Retypes, UsedIds
<1>3. s \in Allocated /\ keys[s].type = "TABLE" /\ s # Root
  <2>1. h \in Allocated /\ id \in Ids /\ s = has_subkey(h, id) /\ s # NULL
    BY DEF Retypes
  <2>2. h < s /\ h \in Nat /\ h >= 1 /\ s \in Nat
    BY <2>1, Pointers DEF HeapInv, IInv, Allocated
  <2> QED
    BY <1>1, <2>2 DEF Retypes
<1>4. Filled'
  <2>1. ASSUME NEW k \in Allocated, keys[k].idx >= 0 PROVE k # s
    BY <1>3, <2>1 DEF HeapInv, Filled
  <2> QED
    BY <1>1, <1>2, <2>1 DEF HeapInv, Filled
<1>5. Unused'
  BY <1>1, <1>2 DEF HeapInv, Unused
<1>6. \A n \in 1 .. Len(open) : open[n].keys \in 1 .. MaxKeys /\ open[n].keys # s
  <2>1. \A n \in 1 .. Len(open) : open[n].keys # s
    BY DEF Retypes, HeapInv, ShapeInv, Unshared
  <2> QED
    BY <1>1, <2>1, OpenFacts DEF HeapInv
<1>7. Contained'
  BY <1>1, <1>2, <1>3, <1>6 DEF HeapInv, Contained
<1> QED
  BY <1>4, <1>5, <1>7

\* Steps that make a key.
LEMMA MakesKeeps ==
    ASSUME HeapInv, NEW fresh \in Nat, NEW type \in Types, Makes(fresh, type),
           \A k \in 1 .. MaxKeys : k # fresh => keys'[k].type = keys[k].type,
           \A k \in Allocated : keys'[k].idx >= 0 => keys[k].type = "ARRAYTABLE",
           \A k \in 1 .. MaxKeys : k > nkeys /\ k # fresh =>
              keys'[k].idx = keys[k].idx /\ UsedIds(k)' = UsedIds(k)
    PROVE  /\ Filled' /\ Unused'
           /\ \A n \in 1 .. Len(open) : keys'[open[n].keys].type = "TABLE"
           /\ keys'[Root].type = "TABLE"
<1>1. /\ Allocated' = Allocated \cup {fresh} /\ Allocated \subseteq 1 .. MaxKeys
      /\ Root \in Allocated /\ fresh \notin Allocated /\ fresh \in 1 .. MaxKeys
      /\ nkeys' = fresh /\ fresh = nkeys + 1 /\ nkeys \in Nat
      /\ Allocated = 1 .. nkeys
  BY DEF Makes, Allocated, HeapInv, IInv, TypeOK, Root
<1>2. keys'[fresh].idx = -1 /\ \A id \in Ids : has_subkey(fresh, id)' = NULL
  BY DEF Makes, Blank
<1>3. Filled'
  <2>1. ~(keys'[fresh].idx >= 0)
    BY <1>2
  <2>2. ASSUME NEW k \in Allocated, keys'[k].idx >= 0 PROVE keys'[k].type = "ARRAYTABLE"
    <3>1. k \in 1 .. MaxKeys /\ k # fresh
      BY <1>1
    <3> QED
      BY <2>2, <3>1
  <2> QED
    BY <1>1, <2>1, <2>2 DEF Filled
<1>4. Unused'
  <2> SUFFICES ASSUME NEW k \in 1 .. MaxKeys, k > nkeys'
               PROVE  UsedIds(k)' = {} /\ keys'[k].idx = -1
    BY DEF Unused
  <2>1. k > nkeys /\ k # fresh
    BY <1>1
  <2> QED
    BY <2>1 DEF HeapInv, Unused
<1>5. \A n \in 1 .. Len(open) : open[n].keys \in Allocated
  BY OpenFacts DEF HeapInv
<1> QED
  BY <1>1, <1>3, <1>4, <1>5 DEF HeapInv, Contained

LEMMA AddsKeyKeeps ==
    ASSUME HeapInv, NEW h, NEW id, NEW fresh \in Nat, NEW type \in Types,
           AddsKey(h, id, fresh, type)
    PROVE  Filled' /\ Unused' /\ Contained'
<1>1. /\ Makes(fresh, type) /\ open' = open /\ h \in Allocated
      /\ \A k \in 1 .. MaxKeys : k # fresh =>
            /\ keys'[k].type = keys[k].type /\ keys'[k].idx = keys[k].idx
            /\ k # h => UsedIds(k)' = UsedIds(k)
  BY DEF AddsKey, UsedIds
<1>2. /\ Allocated \subseteq 1 .. MaxKeys /\ fresh \notin Allocated
      /\ \A k \in Allocated : ~(k > nkeys)
  BY <1>1 DEF Makes, Allocated, HeapInv, IInv, TypeOK
<1>3. \A k \in Allocated : keys'[k].idx >= 0 => keys[k].type = "ARRAYTABLE"
  BY <1>1, <1>2 DEF HeapInv, Filled
<1>4. /\ Filled' /\ Unused'
      /\ \A n \in 1 .. Len(open) : keys'[open[n].keys].type = "TABLE"
      /\ keys'[Root].type = "TABLE"
  BY <1>1, <1>2, <1>3, MakesKeeps
<1> QED
  BY <1>1, <1>4 DEF HeapInv, Contained

LEMMA AddsCellKeeps ==
    ASSUME HeapInv, NEW h, NEW i, NEW fresh \in Nat, AddsCell(h, i, fresh)
    PROVE  Filled' /\ Unused' /\ Contained'
<1>1. /\ Makes(fresh, "KEY") /\ open' = open /\ h \in Allocated
      /\ keys[h].type = "ARRAYTABLE"
      /\ \A k \in 1 .. MaxKeys : k # fresh =>
            /\ keys'[k].type = keys[k].type /\ (k # h => keys'[k].idx = keys[k].idx)
            /\ UsedIds(k)' = UsedIds(k)
  BY DEF AddsCell, UsedIds
<1>2. /\ Allocated \subseteq 1 .. MaxKeys /\ fresh \notin Allocated
      /\ \A k \in Allocated : ~(k > nkeys)
  BY <1>1 DEF Makes, Allocated, HeapInv, IInv, TypeOK
<1>3. \A k \in Allocated : keys'[k].idx >= 0 => keys[k].type = "ARRAYTABLE"
  BY <1>1, <1>2 DEF HeapInv, Filled
<1>4. /\ Filled' /\ Unused'
      /\ \A n \in 1 .. Len(open) : keys'[open[n].keys].type = "TABLE"
      /\ keys'[Root].type = "TABLE"
  BY <1>1, <1>2, <1>3, MakesKeeps DEF Types
<1> QED
  BY <1>1, <1>4 DEF HeapInv, Contained

LEMMA OpensKeeps ==
    ASSUME HeapInv, NEW k, NEW fresh \in Nat, Opens(k, fresh)
    PROVE  Filled' /\ Unused' /\ Contained'
<1>1. /\ Makes(fresh, "TABLE") /\ k \in Allocated
      /\ \A j \in 1 .. MaxKeys : j # fresh =>
            /\ keys'[j].type = keys[j].type /\ keys'[j].idx = keys[j].idx
            /\ UsedIds(j)' = UsedIds(j)
  BY DEF Opens, SameKey, UsedIds
<1>2. /\ Allocated \subseteq 1 .. MaxKeys /\ fresh \notin Allocated
      /\ \A j \in Allocated : ~(j > nkeys)
  BY <1>1 DEF Makes, Allocated, HeapInv, IInv, TypeOK
<1>3. \A j \in Allocated : keys'[j].idx >= 0 => keys[j].type = "ARRAYTABLE"
  BY <1>1, <1>2 DEF HeapInv, Filled
<1>4. /\ Filled' /\ Unused'
      /\ \A n \in 1 .. Len(open) : keys'[open[n].keys].type = "TABLE"
      /\ keys'[Root].type = "TABLE"
  BY <1>1, <1>2, <1>3, MakesKeeps DEF Types
<1>5. /\ Len(open) \in Nat /\ Len(open') = Len(open) + 1
      /\ open'[Len(open) + 1].keys = fresh
      /\ \A n \in 1 .. Len(open) : open'[n] = open[n]
  <2>1. open \in Seq([key : 1 .. MaxKeys, keys : 1 .. MaxKeys])
    BY DEF HeapInv, IInv, TypeOK
  <2>2. open' = Append(open, [key |-> k, keys |-> fresh])
    BY DEF Opens
  <2> QED
    BY <2>1, <2>2
<1>6. \A n \in 1 .. Len(open) : open[n].keys \in Allocated /\ open[n].keys # fresh
  BY <1>2, OpenFacts DEF HeapInv
<1>7. keys'[fresh].type = "TABLE"
  BY <1>1 DEF Makes
<1>8. PICK l \in Nat : l = Len(open)
  BY <1>5
<1>9. \A n \in 1 .. Len(open') : n \in 1 .. l \/ n = l + 1
  BY <1>5, <1>8
<1>10. Contained'
  <2>1. \A n \in 1 .. Len(open') : keys'[open'[n].keys].type = "TABLE"
    BY <1>4, <1>5, <1>7, <1>8, <1>9
  <2>2. \A m, n \in 1 .. Len(open') : open'[m].keys = open'[n].keys => m = n
    BY <1>5, <1>6, <1>8, <1>9 DEF HeapInv, Contained
  <2> QED
    BY <1>4, <2>1, <2>2 DEF Contained
<1> QED
  BY <1>4, <1>10

\* The open inline tables but the innermost one.
LEMMA ClosesOpen ==
    ASSUME IInv, NEW k, NEW c, Closes(k, c)
    PROVE  /\ Len(open) \in Nat /\ Len(open) >= 1 /\ Len(open') = Len(open) - 1
           /\ \A n \in 1 .. Len(open') : n \in 1 .. Len(open) /\ open'[n] = open[n]
           /\ \A n \in 1 .. Len(open) : n = Len(open) \/ n \in 1 .. Len(open')
<1>1. open \in Seq([key : 1 .. MaxKeys, keys : 1 .. MaxKeys])
  BY DEF IInv, TypeOK
<1>2. PICK l \in Nat : l = Len(open) /\ l >= 1
  BY <1>1 DEF Closes
<1>3. PICK j \in 0 .. Len(open) : j = l - 1
  BY <1>2
<1>4. open' = SubSeq(open, 1, j)
  BY <1>2, <1>3 DEF Closes
<1>5. Len(open') = j /\ \A n \in 1 .. j : open'[n] = open[n]
  BY <1>1, <1>4, FrontOfSeq
<1> QED
  BY <1>2, <1>3, <1>5

LEMMA ClosesKeeps ==
    ASSUME HeapInv, NEW k, NEW c, Closes(k, c)
    PROVE  Filled' /\ Unused' /\ Contained'
<1>1. Allocated' = Allocated /\ Allocated \subseteq 1 .. MaxKeys /\ Root \in 1 .. MaxKeys
      /\ nkeys' = nkeys /\ k \in Allocated /\ c \in Allocated
      /\ \A j \in Allocated : ~(j > nkeys)
  BY AllocatedIs DEF Closes, HeapInv, Allocated, Root
<1>2. \A j \in 1 .. MaxKeys : /\ keys'[j].type = keys[j].type /\ keys'[j].idx = keys[j].idx
                              /\ j \notin {k, c} => UsedIds(j)' = UsedIds(j)
  BY DEF Closes, UsedIds
<1>3. Filled'
  BY <1>1, <1>2 DEF HeapInv, Filled
<1>4. Unused'
  BY <1>1, <1>2 DEF HeapInv, Unused
<1>5. \A n \in 1 .. Len(open') : n \in 1 .. Len(open) /\ open'[n] = open[n]
  BY ClosesOpen DEF HeapInv
<1>6. \A n \in 1 .. Len(open) : open[n].keys \in 1 .. MaxKeys
  BY <1>1, OpenFacts DEF HeapInv
<1>7. Contained'
  BY SMTT(30), <1>1, <1>2, <1>5, <1>6 DEF HeapInv, Contained
<1> QED
  BY <1>3, <1>4, <1>7

LEMMA InitHeap == Init => HeapInv
<1> SUFFICES ASSUME Init PROVE HeapInv
  OBVIOUS
<1>1. \A k \in 1 .. MaxKeys : keys[k] = new_key("TABLE")
  BY DEF Init
<1>2. \A k \in 1 .. MaxKeys : keys[k].type = "TABLE" /\ keys[k].idx = -1 /\ UsedIds(k) = {}
  BY <1>1, NewKeyType DEF Types, UsedIds, has_subkey
<1>3. Allocated \subseteq 1 .. MaxKeys /\ Root \in 1 .. MaxKeys /\ open = <<>>
      /\ mode = "statement"
  BY DEF Init, Allocated, Root
<1>4. Filled /\ Unused /\ Contained /\ Between
  BY <1>2, <1>3 DEF Filled, Unused, Contained, Between
<1> QED
  BY <1>4, InitInv, InitShape DEF HeapInv

LEMMA HeapStep == ASSUME HeapInv, [Next]_vars PROVE HeapInv'
<1>1. IInv' /\ ShapeInv'
  BY StepInv, StepShape DEF HeapInv
<1>2. CASE \/ StartKey \/ StartTable \/ ArrayOverflow \/ InlineKey \/ SetValue
           \/ Finish \/ Invalid \/ UNCHANGED vars
           \/ \E id \in Ids : Overflow(id) \/ \E final \in BOOLEAN : Redefine(id, final)
  <2>1. SetValue \/ UNCHANGED <<keys, nkeys, open>>
    BY <1>2 DEF StartKey, StartTable, ArrayOverflow, InlineKey, Finish, Invalid, Overflow,
       Redefine, vars
  <2>2. Still
    BY <2>1, QuietEffect DEF HeapInv
  <2>3. Between'
    BY <1>2 DEF HeapInv, Between, StartKey, StartTable, ArrayOverflow, InlineKey, Finish,
       Invalid, Overflow, Redefine, vars, SetValue
  <2> QED
    BY <1>1, <2>2, <2>3, StillKeeps DEF HeapInv
<1>3. ASSUME NEW id \in Ids, NEW final \in BOOLEAN, Descend(id, final) PROVE HeapInv'
  <2>1. \/ Still
        \/ \E h, s \in Allocated : Retypes(h, id, s)
    BY <1>3, DescendEffect DEF HeapInv
  <2>2. mode' # "inline"
    BY <1>3 DEF Descend, Arrive, Walking
  <2>3. Filled' /\ Unused' /\ Contained'
    BY <2>1, StillKeeps, RetypesKeeps
  <2> QED
    BY <1>1, <2>2, <2>3 DEF HeapInv, Between
<1>4. ASSUME NEW id \in Ids, NEW final \in BOOLEAN, Create(id, final) PROVE HeapInv'
  <2>1. PICK h \in Allocated, fresh \in Nat, type \in Types : AddsKey(h, id, fresh, type)
    BY <1>4, CreateEffect DEF HeapInv
  <2>2. mode' # "inline"
    BY <1>4 DEF Create, Arrive, Walking
  <2> QED
    BY <1>1, <2>1, <2>2, AddsKeyKeeps DEF HeapInv, Between
<1>5. CASE NewElement
  <2>1. PICK h \in Allocated, i \in Indices, fresh \in Nat : AddsCell(h, i, fresh)
    BY <1>5, NewElementEffect DEF HeapInv
  <2>2. mode' # "inline"
    BY <1>5 DEF NewElement
  <2> QED
    BY <1>1, <2>1, <2>2, AddsCellKeeps DEF HeapInv, Between
<1>6. CASE OpenInline
  <2>1. PICK k \in Allocated, fresh \in Nat : Opens(k, fresh)
    BY <1>6, OpenInlineEffect DEF HeapInv
  <2>2. at' = NULL
    BY <1>6 DEF OpenInline
  <2> QED
    BY <1>1, <2>1, <2>2, OpensKeeps DEF HeapInv, Between
<1>7. CASE CloseInline
  <2>1. PICK k \in Allocated, c \in Allocated : Closes(k, c)
    BY <1>7, CloseInlineEffect DEF HeapInv
  <2>2. at' = NULL
    BY <1>7 DEF CloseInline, HeapInv, Between
  <2> QED
    BY <1>1, <2>1, <2>2, ClosesKeeps DEF HeapInv, Between
<1> QED
  BY <1>2, <1>3, <1>4, <1>5, <1>6, <1>7 DEF Next, Segment, Halted

LEMMA HeapInductive == Spec => [](HeapInv /\ Charted)
<1>1. Init => HeapInv
  BY InitHeap
<1>2. HeapInv /\ [Next]_vars => HeapInv'
  BY HeapStep
<1>3. HeapInv => Charted
  BY HeapCharted
<1> QED
  BY <1>1, <1>2, <1>3, PTL DEF Spec

-----------------------------------------------------------------------------
(* What the steps do to the nodes. *)

\* The two states of a step that keeps the invariant.
Kept2 == HeapInv /\ Charted /\ HeapInv' /\ Charted'

\* The nodes right below k, before and after a step.
ASlot(c, d) == \E id \in UsedIds(c) :
                  d = Node(<<id>>, has_subkey(c, id), KindOf(has_subkey(c, id)))
ACell(c, d) == \E i \in 0 .. keys[c].idx : d = Node(<<i>>, Cell(c, i), "element")

LEMMA NearBoth ==
    ASSUME NEW k, NEW d
    PROVE  /\ d \in Near(k)  <=> \E c \in {k} \cup Containers(k) : d \in Children(c)
           /\ d \in Near(k)' <=> \E c \in {k} \cup Containers(k)' : d \in Children(c)'
  BY DEF Near

LEMMA ChildrenBoth ==
    ASSUME NEW c, NEW d
    PROVE  /\ d \in Children(c)  <=> ASlot(c, d) \/ ACell(c, d)
           /\ d \in Children(c)' <=> ASlot(c, d)' \/ ACell(c, d)'
  BY DEF Children, ASlot, ACell, Cell

\* A key whose pointers stay, to keys whose types stay.
LEMMA SameChildren ==
    ASSUME HeapInv, NEW c \in 1 .. MaxKeys, keys'[c].idx = keys[c].idx,
           \A a \in Ids : has_subkey(c, a)' = has_subkey(c, a),
           \A i \in Indices : Cell(c, i)' = Cell(c, i),
           \A r \in Allocated : \A a \in Ids :
              r = has_subkey(c, a) => keys'[r].type = keys[r].type
    PROVE  Children(c)' = Children(c)
<1>1. UsedIds(c)' = UsedIds(c) /\ UsedIds(c) \subseteq Ids
  BY DEF UsedIds
<1>2. ASSUME NEW a \in UsedIds(c), NEW r, r = has_subkey(c, a)
      PROVE  KindOf(r)' = KindOf(r)
  <2>1. a \in Ids /\ has_subkey(c, a) # NULL
    BY DEF UsedIds
  <2>2. c \in Allocated
    BY <1>2, AllocatedIs DEF HeapInv, Unused
  <2>3. r \in Allocated
    BY <1>2, <2>1, <2>2, Pointers DEF HeapInv, IInv
  <2> QED
    BY <1>2, <2>1, <2>3 DEF KindOf
<1>3. 0 .. keys[c].idx \subseteq Indices
  <2>1. keys[c].idx \in -1 .. MaxArray - 1
    BY DEF HeapInv, IInv, TypeOK, KeyType
  <2> QED
    BY <2>1 DEF Indices
<1>4. ASSUME NEW a \in UsedIds(c), NEW d
      PROVE  d = Node(<<a>>, has_subkey(c, a), KindOf(has_subkey(c, a)))
                <=> (d = Node(<<a>>, has_subkey(c, a), KindOf(has_subkey(c, a))))'
  <2>1. PICK r : r = has_subkey(c, a)
    OBVIOUS
  <2>2. has_subkey(c, a)' = r
    BY <1>1, <2>1
  <2>3. KindOf(r)' = KindOf(r)
    BY <1>2, <2>1
  <2>4. KindOf(has_subkey(c, a)) = KindOf(r)
    BY <2>1
  <2>5. KindOf(has_subkey(c, a))' = KindOf(r)'
    BY <2>2 DEF KindOf
  <2> QED
    BY <2>1, <2>2, <2>3, <2>4, <2>5
<1>5. ASSUME NEW d PROVE d \in Children(c)' <=> d \in Children(c)
  <2>1. ASlot(c, d)' <=> ASlot(c, d)
    BY <1>1, <1>4 DEF ASlot
  <2>2. ACell(c, d)' <=> ACell(c, d)
    BY <1>3 DEF ACell
  <2> QED
    BY <2>1, <2>2, ChildrenBoth
<1> QED
  BY <1>5

\* A key without pointers.
LEMMA NoChildren ==
    ASSUME NEW c, Blank(c)
    PROVE  Children(c)' = {}
<1>1. UsedIds(c)' = {} /\ 0 .. keys'[c].idx = {}
  BY DEF Blank, UsedIds
<1>2. ASSUME NEW d PROVE d \notin Children(c)'
  BY <1>1, ChildrenBoth DEF ASlot, ACell
<1> QED
  BY <1>2

LEMMA StillNodes == ASSUME Kept2, Still PROVE Nodes' = Nodes
<1>1. ASSUME NEW c \in 1 .. MaxKeys PROVE Children(c)' = Children(c)
  BY AllocatedIs, SameChildren DEF Still, SameKey, Kept2, HeapInv
<1>2. ASSUME NEW k \in 1 .. MaxKeys PROVE Near(k)' = Near(k)
  <2>1. Containers(k)' = Containers(k)
    BY DEF Still, Containers
  <2>2. \A c \in {k} \cup Containers(k) : c \in 1 .. MaxKeys
    BY ContainerFacts, AllocatedIs DEF Kept2, HeapInv
  <2>3. ASSUME NEW d PROVE d \in Near(k)' <=> d \in Near(k)
    BY <1>1, <2>1, <2>2, NearBoth
  <2> QED
    BY <2>3
<1>3. NearTo' = NearTo
  BY <1>2 DEF NearTo
<1> QED
  BY <1>3, OneTree DEF Kept2, Charted

\* The key that h belongs to, if h is the container of an open inline table.
LEMMA OwnerFacts ==
    ASSUME HeapInv, NEW h, NEW k, Loose(k)
    PROVE  h \in {k} \cup Containers(k) <=> OwnerOf(h) = k
<1>1. ASSUME h = k PROVE OwnerOf(h) = k
  BY <1>1 DEF Loose, OwnerOf
<1>2. ASSUME h \in Containers(k) PROVE OwnerOf(h) = k
  <2>1. PICK n \in 1 .. Len(open) : open[n].key = k /\ open[n].keys = h
    BY <1>2 DEF Containers
  <2>2. \A m \in 1 .. Len(open) : open[m].keys = h => m = n
    BY <2>1 DEF HeapInv, Contained
  <2>3. (CHOOSE m \in 1 .. Len(open) : open[m].keys = h) = n
    BY <2>1, <2>2
  <2> QED
    BY <2>1, <2>3 DEF OwnerOf
<1>3. ASSUME OwnerOf(h) = k, h # k PROVE h \in Containers(k)
  <2>1. \E n \in 1 .. Len(open) : open[n].keys = h
    BY <1>3 DEF OwnerOf
  <2>2. PICK n \in 1 .. Len(open) : open[n].keys = h
                                    /\ n = CHOOSE m \in 1 .. Len(open) : open[m].keys = h
    BY <2>1
  <2>3. open[n].key = k
    BY <1>3, <2>1, <2>2 DEF OwnerOf
  <2> QED
    BY <2>2, <2>3 DEF Containers
<1> QED
  BY <1>1, <1>2, <1>3

LEMMA RetypesNodes ==
    ASSUME Kept2, NEW h, NEW id, NEW s, Retypes(h, id, s)
    PROVE  \A b : b \in Nodes' <=> \E a \in Nodes : b = Retyped(s, a)
<1>1. /\ h \in Allocated /\ id \in Ids /\ s \in Allocated /\ s = has_subkey(h, id) /\ s # NULL
      /\ keys'[s].type = "TABLELEAF" /\ open' = open
      /\ \A k \in 1 .. MaxKeys :
            /\ k # s => keys'[k].type = keys[k].type
            /\ keys'[k].idx = keys[k].idx
            /\ \A a \in Ids : has_subkey(k, a)' = has_subkey(k, a)
            /\ \A i \in Indices : Cell(k, i)' = Cell(k, i)
  BY DEF Retypes
<1>2. Allocated \subseteq 1 .. MaxKeys /\ Allocated = 1 .. nkeys /\ nkeys \in Nat
  BY DEF Kept2, HeapInv, IInv, TypeOK, Allocated
<1>3. s # 1
  <2>1. h < s /\ h \in Nat /\ h >= 1
    BY <1>1, <1>2, Pointers DEF Kept2, HeapInv, IInv
  <2> QED
    BY <2>1
<1>4. ASSUME NEW c \in 1 .. MaxKeys, NEW e
      PROVE  e \in Children(c)' <=> \E d \in Children(c) : e = Retyped(s, d)
  <2>1. UsedIds(c)' = UsedIds(c) /\ UsedIds(c) \subseteq Ids
    BY <1>1 DEF UsedIds
  <2>2. ASSUME NEW a \in UsedIds(c)
        PROVE  (e = Node(<<a>>, has_subkey(c, a), KindOf(has_subkey(c, a))))'
                  <=> e = Retyped(s, Node(<<a>>, has_subkey(c, a), KindOf(has_subkey(c, a))))
    <3>1. a \in Ids /\ has_subkey(c, a) # NULL
      BY DEF UsedIds
    <3>2. c \in Allocated
      BY <1>2, <2>2, AllocatedIs DEF Kept2, HeapInv, Unused
    <3>3. PICK r \in Allocated : r = has_subkey(c, a)
      BY <3>1, <3>2, Pointers DEF Kept2, HeapInv, IInv
    <3>4. r \in 1 .. MaxKeys /\ has_subkey(c, a)' = r
      BY <1>1, <1>2, <3>1, <3>3
    <3>5. KindOf(r)' = IF r = s THEN "table" ELSE KindOf(r)
      <4>1. CASE r = s
        BY <1>1, <4>1 DEF KindOf
      <4>2. CASE r # s
        <5>1. keys'[r].type = keys[r].type
          BY <1>1, <3>4, <4>2
        <5>2. KindOf(r)' = KindOf(r)
          BY <5>1 DEF KindOf
        <5> QED
          BY <4>2, <5>2
      <4> QED
        BY <4>1, <4>2
    <3>6. KindOf(has_subkey(c, a)) = KindOf(r)
      BY <3>3
    <3>7. KindOf(has_subkey(c, a))' = KindOf(r)'
      BY <3>4 DEF KindOf
    <3> QED
      BY <3>3, <3>4, <3>5, <3>6, <3>7 DEF Node, Retyped
  <2>3. ASSUME NEW i \in 0 .. keys[c].idx
        PROVE  (e = Node(<<i>>, Cell(c, i), "element"))'
                  <=> e = Retyped(s, Node(<<i>>, Cell(c, i), "element"))
    <3>1. keys[c].idx \in -1 .. MaxArray - 1
      BY DEF Kept2, HeapInv, IInv, TypeOK, KeyType
    <3>2. i \in Indices
      BY <3>1 DEF Indices
    <3>3. c \in Allocated
      BY <1>2, <3>1, AllocatedIs DEF Kept2, HeapInv, Unused
    <3>4. Cell(c, i) # s
      BY <1>1, <3>2, <3>3 DEF Kept2, HeapInv, ShapeInv, Unshared
    <3>5. Cell(c, i)' = Cell(c, i)
      BY <1>1, <3>2
    <3> QED
      BY <3>4, <3>5 DEF Node, Retyped
  <2>4. ASlot(c, e)' <=> \E d : ASlot(c, d) /\ e = Retyped(s, d)
    BY <2>1, <2>2 DEF ASlot
  <2>5. ACell(c, e)' <=> \E d : ACell(c, d) /\ e = Retyped(s, d)
    BY <1>1, <2>3 DEF ACell
  <2> QED
    BY <2>4, <2>5, ChildrenBoth
<1>5. ASSUME NEW k \in 1 .. MaxKeys, NEW e
      PROVE  e \in Near(k)' <=> \E d \in Near(k) : e = Retyped(s, d)
  <2>1. Containers(k)' = Containers(k)
    BY <1>1 DEF Containers
  <2>2. \A c \in {k} \cup Containers(k) : c \in 1 .. MaxKeys
    BY <1>2, ContainerFacts DEF Kept2
  <2>3. e \in Near(k)' <=> \E c \in {k} \cup Containers(k) : e \in Children(c)'
    BY <2>1, NearBoth
  <2>4. \A d : d \in Near(k) <=> \E c \in {k} \cup Containers(k) : d \in Children(c)
    BY NearBoth
  <2> QED
    BY <1>4, <2>2, <2>3, <2>4
<1>6. \A k \in 1 .. MaxKeys : \A e : e \in NearTo'[k] <=> \E d \in NearTo[k] : e = Retyped(s, d)
  BY <1>5 DEF NearTo
<1>7. \A n \in Nodes : n.key \in 1 .. MaxKeys
  BY DEF Kept2, Charted, Planted, NodeSet
<1>8. \A n \in Nodes : \A e : e \in NearTo'[n.key] <=> \E d \in NearTo[n.key] : e = Retyped(s, d)
  BY <1>6, <1>7
<1>9. PICK near, after, A, B : near = NearTo /\ after = NearTo' /\ A = Nodes /\ B = Nodes'
  OBVIOUS
<1>10. Downward(near) /\ Planted(near, A)
  BY <1>9 DEF Kept2, Charted
<1>11. Downward(after) /\ Planted(after, B)
  BY <1>9 DEF Kept2, Charted, Downward, Planted
<1>12. RetypedBelow(near, after, A, s)
  BY <1>8, <1>9 DEF RetypedBelow
<1>13. \A b : b \in B <=> \E a \in A : b = Retyped(s, a)
  BY <1>3, <1>10, <1>11, <1>12, RetypedTree
<1> QED
  BY <1>9, <1>13

\* A step that makes the key fresh and a pointer to it, from the key h.
LEMMA NodesGrow ==
    ASSUME Kept2, NEW h \in Allocated, NEW fresh \in 1 .. MaxKeys, NEW d \in NodeSet,
           open' = open, fresh \notin Allocated, Blank(fresh), d.key = fresh,
           \A c \in 1 .. MaxKeys : c \notin {h, fresh} => Children(c)' = Children(c),
           Children(h)' = Children(h) \cup {d},
           NEW m \in Nodes, m.key = OwnerOf(h)
    PROVE  Nodes' = Nodes \cup {Beneath(m, d)}
<1>1. ASSUME NEW n \in Nodes
      PROVE  /\ n.key \in 1 .. MaxKeys /\ n.key \in Allocated /\ Loose(n.key)
             /\ n # m => n.key # m.key
  BY DEF Kept2, Charted, Planted, NodeSet, Loose
<1>2. \A k \in 1 .. MaxKeys : NearTo[k] = Near(k) /\ NearTo'[k] = Near(k)'
  BY DEF NearTo
<1>3. \A k : Containers(k)' = Containers(k)
  BY DEF Containers
<1>4. h \in {m.key} \cup Containers(m.key) /\ \A n \in Nodes : n # m => h \notin {n.key} \cup Containers(n.key)
  BY <1>1, OwnerFacts DEF Kept2
<1>5. ASSUME NEW k \in Allocated, NEW c \in {k} \cup Containers(k)
      PROVE  c \in 1 .. MaxKeys /\ c # fresh
  BY ContainerFacts, AllocatedIs DEF Kept2, HeapInv
<1>6. ASSUME NEW n \in Nodes, n # m PROVE NearTo'[n.key] = NearTo[n.key]
  <2>1. \A c \in {n.key} \cup Containers(n.key) : Children(c)' = Children(c)
    BY <1>1, <1>4, <1>5, <1>6
  <2>2. ASSUME NEW e PROVE e \in Near(n.key)' <=> e \in Near(n.key)
    <3>1. PICK k : k = n.key
      OBVIOUS
    <3>2. e \in Near(k)' <=> e \in Near(k)
      BY <1>3, <2>1, <3>1, NearBoth
    <3> QED
      BY <3>1, <3>2
  <2>3. Near(n.key)' = Near(n.key)
    BY <2>2
  <2> QED
    BY <1>1, <1>2, <2>3
<1>7. NearTo'[m.key] = NearTo[m.key] \cup {d}
  <2>1. PICK k \in 1 .. MaxKeys : k = m.key /\ k \in Allocated
    BY <1>1
  <2>2. \A c \in {k} \cup Containers(k) : c # h => Children(c)' = Children(c)
    BY <1>5, <2>1
  <2>3. ASSUME NEW e PROVE e \in Near(k)' <=> (e \in Near(k) \/ e = d)
    <3>1. e \in Near(k)' <=> \E c \in {k} \cup Containers(k) : e \in Children(c)'
      BY <1>3, NearBoth
    <3>2. e \in Near(k) <=> \E c \in {k} \cup Containers(k) : e \in Children(c)
      BY NearBoth
    <3>3. h \in {k} \cup Containers(k) /\ (e \in Children(h)' <=> (e \in Children(h) \/ e = d))
      BY <1>4, <2>1
    <3> QED
      BY <2>2, <3>1, <3>2, <3>3
  <2>4. Near(k)' = Near(k) \cup {d}
    BY <2>3
  <2> QED
    BY <1>2, <2>1, <2>4
<1>8. NearTo'[d.key] = {}
  <2>1. Containers(fresh)' = {}
    BY <1>3, ContainerFacts DEF Kept2
  <2>2. \A e : e \notin Children(fresh)'
    BY NoChildren
  <2>3. \A e : e \notin Near(fresh)'
    BY <2>1, <2>2, NearBoth
  <2> QED
    BY <1>2, <2>3
<1> QED
  BY <1>1, <1>6, <1>7, <1>8, GrownTree DEF Kept2, Charted

LEMMA AddsKeyNodes ==
    ASSUME Kept2, NEW h, NEW id, NEW fresh, NEW type, AddsKey(h, id, fresh, type),
           NEW kind \in Kinds, KindOf(fresh)' = kind, NEW m \in Nodes, m.key = OwnerOf(h)
    PROVE  Nodes' = Nodes \cup {Beneath(m, Node(<<id>>, fresh, kind))}
<1>1. /\ Makes(fresh, type) /\ open' = open /\ h \in Allocated /\ id \in Ids
      /\ has_subkey(h, id) = NULL /\ has_subkey(h, id)' = fresh
      /\ \A k \in 1 .. MaxKeys : k # fresh =>
            /\ keys'[k].type = keys[k].type /\ keys'[k].idx = keys[k].idx
            /\ \A a \in Ids : k # h \/ a # id => has_subkey(k, a)' = has_subkey(k, a)
            /\ \A i \in Indices : Cell(k, i)' = Cell(k, i)
  BY DEF AddsKey
<1>2. /\ fresh \in 1 .. MaxKeys /\ fresh \notin Allocated /\ Blank(fresh) /\ fresh # NULL
      /\ Allocated \subseteq 1 .. MaxKeys
  BY <1>1 DEF Makes, Kept2, HeapInv, IInv, TypeOK, Allocated, NULL
<1>3. \A r \in Allocated : keys'[r].type = keys[r].type
  BY <1>1, <1>2
<1>4. ASSUME NEW c \in 1 .. MaxKeys, c \notin {h, fresh} PROVE Children(c)' = Children(c)
  BY <1>1, <1>3, <1>4, SameChildren DEF Kept2
<1> DEFINE d == Node(<<id>>, fresh, kind)
<1>5. d \in NodeSet /\ d.key = fresh
  BY <1>1, <1>2 DEF Node, NodeSet, Steps
<1>6. Children(h)' = Children(h) \cup {d}
  <2>1. UsedIds(h)' = UsedIds(h) \cup {id} /\ id \notin UsedIds(h) /\ UsedIds(h) \subseteq Ids
    BY <1>1, <1>2 DEF UsedIds
  <2>2. ASSUME NEW e, NEW a \in UsedIds(h)
        PROVE  (e = Node(<<a>>, has_subkey(h, a), KindOf(has_subkey(h, a))))'
                  <=> e = Node(<<a>>, has_subkey(h, a), KindOf(has_subkey(h, a)))
    <3>1. a \in Ids /\ has_subkey(h, a) # NULL /\ a # id
      BY <2>1 DEF UsedIds
    <3>2. PICK r \in Allocated : r = has_subkey(h, a)
      BY <1>1, <3>1, Pointers DEF Kept2, HeapInv, IInv
    <3>3. has_subkey(h, a)' = r
      BY <1>1, <1>2, <3>1, <3>2
    <3>4. KindOf(r)' = KindOf(r)
      BY <1>3 DEF KindOf
    <3>5. KindOf(has_subkey(h, a)) = KindOf(r)
      BY <3>2
    <3>6. KindOf(has_subkey(h, a))' = KindOf(r)'
      BY <3>3 DEF KindOf
    <3> QED
      BY <3>2, <3>3, <3>4, <3>5, <3>6
  <2>3. ASSUME NEW e
        PROVE  (e = Node(<<id>>, has_subkey(h, id), KindOf(has_subkey(h, id))))' <=> e = d
    <3>1. KindOf(has_subkey(h, id))' = KindOf(fresh)'
      BY <1>1 DEF KindOf
    <3> QED
      BY <1>1, <3>1
  <2>4. ASSUME NEW e PROVE ASlot(h, e)' <=> (ASlot(h, e) \/ e = d)
    <3> HIDE DEF d
    <3> QED
      BY <2>1, <2>2, <2>3 DEF ASlot
  <2>5. ASSUME NEW e PROVE ACell(h, e)' <=> ACell(h, e)
    <3>1. keys'[h].idx = keys[h].idx /\ \A i \in Indices : Cell(h, i)' = Cell(h, i)
      BY <1>1, <1>2
    <3>2. 0 .. keys[h].idx \subseteq Indices
      <4>1. keys[h].idx \in -1 .. MaxArray - 1
        BY <1>1, <1>2 DEF Kept2, HeapInv, IInv, TypeOK, KeyType
      <4> QED
        BY <4>1 DEF Indices
    <3> QED
      BY <3>1, <3>2 DEF ACell
  <2>6. ASSUME NEW e PROVE e \in Children(h)' <=> (e \in Children(h) \/ e = d)
    BY <2>4, <2>5, ChildrenBoth
  <2> HIDE DEF d
  <2> QED
    BY <2>6
<1> HIDE DEF d
<1> QED
  BY <1>1, <1>2, <1>4, <1>5, <1>6, NodesGrow DEF d

LEMMA AddsCellNodes ==
    ASSUME Kept2, NEW h, NEW i, NEW fresh, AddsCell(h, i, fresh),
           NEW m \in Nodes, m.key = OwnerOf(h)
    PROVE  Nodes' = Nodes \cup {Beneath(m, Node(<<i>>, fresh, "element"))}
<1>1. /\ Makes(fresh, "KEY") /\ open' = open /\ h \in Allocated
      /\ keys[h].type = "ARRAYTABLE"
      /\ i \in Indices /\ i = keys[h].idx + 1 /\ keys'[h].idx = i
      /\ Cell(h, i)' = fresh
      /\ \A k \in 1 .. MaxKeys : k # fresh =>
            /\ keys'[k].type = keys[k].type /\ (k # h => keys'[k].idx = keys[k].idx)
            /\ \A a \in Ids : has_subkey(k, a)' = has_subkey(k, a)
            /\ \A j \in Indices : k # h \/ j # i => Cell(k, j)' = Cell(k, j)
  BY DEF AddsCell
<1>2. /\ fresh \in 1 .. MaxKeys /\ fresh \notin Allocated /\ Blank(fresh)
      /\ Allocated \subseteq 1 .. MaxKeys
  BY <1>1 DEF Makes, Kept2, HeapInv, IInv, TypeOK, Allocated
<1>3. \A r \in Allocated : keys'[r].type = keys[r].type
  BY <1>1, <1>2
<1>4. ASSUME NEW c \in 1 .. MaxKeys, c \notin {h, fresh} PROVE Children(c)' = Children(c)
  BY <1>1, <1>3, <1>4, SameChildren DEF Kept2
<1> DEFINE d == Node(<<i>>, fresh, "element")
<1>5. d \in NodeSet /\ d.key = fresh
  BY <1>1, <1>2 DEF Node, NodeSet, Steps, Kinds
<1>6. Children(h)' = Children(h) \cup {d}
  <2>1. UsedIds(h) = {} /\ UsedIds(h)' = {}
    <3>1. UsedIds(h) = {}
      BY <1>1 DEF Kept2, HeapInv, IInv, ArrayTablesReady
    <3> QED
      BY <1>1, <1>2, <3>1 DEF UsedIds
  <2>2. keys[h].idx \in -1 .. MaxArray - 1
    BY <1>1, <1>2 DEF Kept2, HeapInv, IInv, TypeOK, KeyType
  <2>3. /\ \A j \in 0 .. i : j = i \/ j \in 0 .. keys[h].idx
        /\ \A j \in 0 .. keys[h].idx : j \in 0 .. i /\ j # i /\ j \in Indices
        /\ i \in 0 .. i
    BY <1>1, <2>2 DEF Indices
  <2>4. \A j \in 0 .. keys[h].idx : Cell(h, j)' = Cell(h, j)
    BY <1>1, <1>2, <2>3
  <2>5. ASSUME NEW e PROVE ACell(h, e)' <=> (ACell(h, e) \/ e = d)
    BY <1>1, <2>3, <2>4 DEF ACell
  <2>6. ASSUME NEW e PROVE e \in Children(h)' <=> (e \in Children(h) \/ e = d)
    BY <2>1, <2>5, ChildrenBoth DEF ASlot
  <2> HIDE DEF d
  <2> QED
    BY <2>6
<1> HIDE DEF d
<1> QED
  BY <1>1, <1>2, <1>4, <1>5, <1>6, NodesGrow DEF d

\* The container of a new inline table has nothing below it.
LEMMA OpensNodes == ASSUME Kept2, NEW k, NEW fresh, Opens(k, fresh) PROVE Nodes' = Nodes
<1>1. /\ Makes(fresh, "TABLE") /\ open' = Append(open, [key |-> k, keys |-> fresh])
      /\ k \in Allocated
      /\ \A j \in 1 .. MaxKeys : j # fresh => SameKey(j)
  BY DEF Opens
<1>2. /\ fresh \in 1 .. MaxKeys /\ fresh \notin Allocated /\ Blank(fresh)
      /\ Allocated \subseteq 1 .. MaxKeys
  BY <1>1 DEF Makes, Kept2, HeapInv, IInv, TypeOK, Allocated
<1>3. ASSUME NEW c \in Allocated PROVE Children(c)' = Children(c)
  <2>1. \A r \in Allocated : keys'[r].type = keys[r].type
    BY <1>1, <1>2 DEF SameKey
  <2> QED
    BY <1>1, <1>2, <2>1, SameChildren DEF Kept2, SameKey
<1>4. Children(fresh)' = {}
  BY <1>2, NoChildren
<1>5. \A j, c : c \in Containers(j)' <=> (c \in Containers(j) \/ (j = k /\ c = fresh))
  <2>1. open \in Seq([key : 1 .. MaxKeys, keys : 1 .. MaxKeys])
    BY DEF Kept2, HeapInv, IInv, TypeOK
  <2>2. /\ \A n \in 1 .. Len(open) : n \in 1 .. Len(open') /\ open'[n] = open[n]
        /\ Len(open) + 1 \in 1 .. Len(open')
        /\ open'[Len(open) + 1] = [key |-> k, keys |-> fresh]
        /\ \A n \in 1 .. Len(open') : n \in 1 .. Len(open) \/ n = Len(open) + 1
    BY <1>1, <2>1
  <2> QED
    BY <2>2 DEF Containers
<1>6. ASSUME NEW j \in Allocated PROVE Near(j)' = Near(j)
  <2>1. \A c \in {j} \cup Containers(j) : Children(c)' = Children(c)
    BY <1>3, ContainerFacts DEF Kept2
  <2>2. ASSUME NEW e PROVE e \in Near(j)' <=> e \in Near(j)
    <3>1. e \in Near(j)' <=> \E c \in {j} \cup Containers(j)' : e \in Children(c)'
      BY NearBoth
    <3>2. e \in Near(j) <=> \E c \in {j} \cup Containers(j) : e \in Children(c)
      BY NearBoth
    <3> QED
      BY <1>4, <1>5, <2>1, <3>1, <3>2
  <2> QED
    BY <2>2
<1>7. \A j \in Allocated : NearTo'[j] = NearTo[j]
  BY <1>2, <1>6 DEF NearTo
<1>8. \A n \in Nodes : n.key \in Allocated
  BY DEF Kept2, Charted, Loose
<1> QED
  BY <1>7, <1>8, SameTree DEF Kept2, Charted

\* What is below the container is below its key before and after.
LEMMA ClosesNodes == ASSUME Kept2, NEW k, NEW c, Closes(k, c) PROVE Nodes' = Nodes
<1>1. /\ Len(open) \in 1 .. Len(open)
      /\ k = open[Len(open)].key /\ c = open[Len(open)].keys /\ k # c
      /\ k \in Allocated /\ c \in Allocated
      /\ \A a \in Ids : has_subkey(k, a)' = has_subkey(c, a) /\ has_subkey(c, a)' = NULL
      /\ \A j \in 1 .. MaxKeys :
            /\ keys'[j].type = keys[j].type /\ keys'[j].idx = keys[j].idx
            /\ \A a \in Ids : j \notin {k, c} => has_subkey(j, a)' = has_subkey(j, a)
            /\ \A i \in Indices : Cell(j, i)' = Cell(j, i)
  BY DEF Closes
<1>2. Allocated \subseteq 1 .. MaxKeys
  BY AllocatedIs DEF Kept2, HeapInv
<1>3. ASSUME NEW j \in 1 .. MaxKeys, j \notin {k, c} PROVE Children(j)' = Children(j)
  BY <1>1, <1>2, <1>3, SameChildren DEF Kept2
<1>4. c \in Containers(k)
  BY <1>1 DEF Containers
<1>5. keys[c].type = "TABLE" /\ keys[k].type = "KEYLEAF" /\ UsedIds(k) = {} /\ keys[k].idx < 0
  BY <1>4, ContainerFacts DEF Kept2
<1>6. Containers(k) = {c} /\ \A j : c \in Containers(j) => j = k
  <2>1. \A b \in Containers(k) : b = c
    BY <1>4, ContainerFacts DEF Kept2
  <2>2. ASSUME NEW j, c \in Containers(j) PROVE j = k
    <3>1. PICK n \in 1 .. Len(open) : open[n].key = j /\ open[n].keys = c
      BY <2>2 DEF Containers
    <3>2. n = Len(open)
      BY <1>1, <3>1 DEF Kept2, HeapInv, Contained
    <3> QED
      BY <1>1, <3>1, <3>2
  <2> QED
    BY <1>4, <2>1, <2>2
<1>7. /\ \A n \in 1 .. Len(open') : n \in 1 .. Len(open) /\ open'[n] = open[n]
      /\ \A n \in 1 .. Len(open) : n = Len(open) \/ n \in 1 .. Len(open')
      /\ Len(open) \notin 1 .. Len(open')
  BY ClosesOpen DEF Kept2, HeapInv
<1>8. Containers(k)' = {}
  <2> SUFFICES ASSUME NEW n \in 1 .. Len(open'), open'[n].key = k PROVE FALSE
    BY DEF Containers
  <2>1. n \in 1 .. Len(open) /\ open[n].key = k /\ n # Len(open)
    BY <1>7
  <2>2. open[n].keys = c
    BY <1>6, <2>1 DEF Containers
  <2> QED
    BY <1>1, <2>1, <2>2 DEF Kept2, HeapInv, Contained
<1>9. ASSUME NEW j, j # k PROVE Containers(j)' = Containers(j)
  <2>1. \A n \in 1 .. Len(open) : open[n].key = j => n # Len(open)
    BY <1>1, <1>9
  <2> QED
    BY <1>7, <2>1 DEF Containers
<1>10. Children(k) = {} /\ Children(k)' = Children(c)
  <2>0. keys[k].idx \in Int /\ keys[c].idx \in Int /\ keys'[k].idx = keys[k].idx
    <3>1. keys[k] \in KeyType /\ keys[c] \in KeyType
      BY <1>1, Pointers DEF Kept2, HeapInv, IInv
    <3>2. keys[k].idx \in Int /\ keys[c].idx \in Int
      BY <3>1 DEF KeyType
    <3> QED
      BY <1>1, <1>2, <3>2
  <2>1. keys[c].idx < 0
    BY <1>1, <1>5, <2>0 DEF Kept2, HeapInv, Filled
  <2>2. 0 .. keys[k].idx = {} /\ 0 .. keys'[k].idx = {} /\ 0 .. keys[c].idx = {}
    BY <1>5, <2>0, <2>1
  <2>3. UsedIds(k)' = UsedIds(c) /\ UsedIds(c) \subseteq Ids
    BY <1>1 DEF UsedIds
  <2>4. ASSUME NEW e, NEW a \in UsedIds(c)
        PROVE  (e = Node(<<a>>, has_subkey(k, a), KindOf(has_subkey(k, a))))'
                  <=> e = Node(<<a>>, has_subkey(c, a), KindOf(has_subkey(c, a)))
    <3>1. a \in Ids /\ has_subkey(c, a) # NULL
      BY DEF UsedIds
    <3>2. PICK r \in Allocated : r = has_subkey(c, a)
      BY <1>1, <3>1, Pointers DEF Kept2, HeapInv, IInv
    <3>3. has_subkey(k, a)' = r
      BY <1>1, <3>1, <3>2
    <3>4. keys'[r].type = keys[r].type
      BY <1>1, <1>2
    <3>5. KindOf(r)' = KindOf(r)
      BY <3>4 DEF KindOf
    <3>6. KindOf(has_subkey(c, a)) = KindOf(r)
      BY <3>2
    <3>7. KindOf(has_subkey(k, a))' = KindOf(r)'
      BY <3>3 DEF KindOf
    <3> QED
      BY <3>2, <3>3, <3>5, <3>6, <3>7
  <2>5. ASSUME NEW e PROVE ASlot(k, e)' <=> ASlot(c, e)
    BY <2>3, <2>4 DEF ASlot
  <2>6. ASSUME NEW e PROVE ~ACell(k, e) /\ ~ACell(k, e)' /\ ~ACell(c, e)
    BY <2>2 DEF ACell
  <2>7. ASSUME NEW e PROVE e \notin Children(k) /\ (e \in Children(k)' <=> e \in Children(c))
    BY <1>5, <2>5, <2>6, ChildrenBoth DEF ASlot
  <2> QED
    BY <2>7
<1>11. ASSUME NEW j, Loose(j) PROVE Near(j)' = Near(j)
  <2>1. CASE j = k
    <3>1. ASSUME NEW e PROVE e \in Near(k)' <=> e \in Near(k)
      <4>1. e \in Near(k)' <=> e \in Children(k)'
        BY <1>8, NearBoth
      <4>2. e \in Near(k) <=> e \in Children(k) \/ e \in Children(c)
        BY <1>6, NearBoth
      <4> QED
        BY <1>10, <4>1, <4>2
    <3>2. Near(k)' = Near(k)
      BY <3>1
    <3> QED
      BY <2>1, <3>2
  <2>2. CASE j # k
    <3>1. j \in Allocated /\ j # c
      BY <1>1, <1>11 DEF Loose
    <3>2. ASSUME NEW b \in Containers(j) PROVE b \in Allocated /\ b \notin {k, c}
      BY <1>5, <1>6, <2>2, ContainerFacts DEF Kept2
    <3>3. \A b \in {j} \cup Containers(j) : Children(b)' = Children(b)
      BY <1>2, <1>3, <2>2, <3>1, <3>2
    <3>4. Containers(j)' = Containers(j)
      BY <1>9, <2>2
    <3>5. ASSUME NEW e PROVE e \in Near(j)' <=> e \in Near(j)
      BY <3>3, <3>4, NearBoth
    <3> QED
      BY <3>5
  <2> QED
    BY <2>1, <2>2
<1>12. \A n \in Nodes : Loose(n.key) /\ n.key \in Allocated
  BY DEF Kept2, Charted, Loose
<1>13. \A j : Loose(j) => NearTo'[j] = NearTo[j]
  BY <1>2, <1>11 DEF NearTo, Loose
<1> QED
  BY <1>12, <1>13, SameTree DEF Kept2, Charted

-----------------------------------------------------------------------------
(* The variables of TomlRules. *)

LEMMA RulesCardinality == ASSUME NEW S PROVE Rules!Cardinality(S) = Cardinality(S)
  BY DEF Rules!Cardinality, Cardinality, Rules!IsFiniteSet, IsFiniteSet

LEMMA Counted ==
    ASSUME NEW n \in Nat, NEW S, NEW f \in [1 .. n -> S],
           \A x \in S : \E i \in 1 .. n : f[i] = x,
           \A i, j \in 1 .. n : f[i] = f[j] => i = j
    PROVE  Cardinality(S) = n
<1>1. f \in Bijection(1 .. n, S)
  BY DEF Bijection, Injection, Surjection, IsInjective
<1>2. ExistsBijection(1 .. n, S)
  BY <1>1 DEF ExistsBijection
<1> QED
  BY <1>2, FS_CountingElements

\* One step further.
LEMMA OneStep ==
    ASSUME NEW p \in Seq(Steps), NEW q \in Seq(Steps)
    PROVE  Len(q) = Len(p) + 1 /\ Rules!IsPrefix(p, q) <=> \E s \in Steps : q = Append(p, s)
  BY DEF Rules!IsPrefix

LEMMA KindFacts ==
    ASSUME Charted
    PROVE  /\ \A n \in Nodes : n.path \in DOMAIN Kind /\ Kind[n.path] = n.kind
                               /\ n.path \in Seq(Steps) /\ n \in NodeSet
           /\ \A p \in DOMAIN Kind : \E n \in Nodes : n.path = p
<1>1. Kind = [p \in {n.path : n \in Nodes} |-> Kind[p]]
  BY DEF Charted
<1>2. DOMAIN Kind = {n.path : n \in Nodes}
  BY <1>1
<1>3. \A n \in Nodes : n \in NodeSet /\ n.path \in Seq(Steps)
  BY DEF Charted, Planted, NodeSet
<1> QED
  BY <1>2, <1>3 DEF Charted

\* Every node but the root hangs below another one, by a pointer.
PointedTo(n, m, s, d, c) ==
    /\ d \in Near(m.key) /\ c \in {m.key} \cup Containers(m.key)
    /\ n = Beneath(m, d) /\ d.path = <<s>> /\ n.key = d.key /\ n.kind = d.kind
    /\ n.path = Append(m.path, s)
    /\ c \in Allocated /\ d.key \in Allocated
    /\ (BySlot(c, d) \/ ByCell(c, d))

LEMMA NodePointer ==
    ASSUME HeapInv, Charted, NEW n \in Nodes, n # RootNode
    PROVE  \E m \in Nodes, s \in Steps : \E d, c : PointedTo(n, m, s, d, c)
<1>1. PICK m, d : m \in Nodes /\ d \in NearTo[m.key] /\ n = Beneath(m, d)
  BY DEF Charted, Planted
<1>2. m.key \in 1 .. MaxKeys /\ m.path \in Seq(Steps) /\ m \in NodeSet
  BY <1>1 DEF Charted, Planted, NodeSet
<1>3. d \in Near(m.key) /\ d \in NodeSet
  BY <1>1, <1>2 DEF NearTo, Charted, Downward
<1>4. PICK s \in Steps : d.path = <<s>>
  BY <1>1, <1>2 DEF Charted, Downward
<1>5. PICK c \in {m.key} \cup Containers(m.key) :
            c \in Allocated /\ d.key \in Allocated /\ (BySlot(c, d) \/ ByCell(c, d))
  BY <1>2, <1>3, NearPointer
<1>6. n.path = m.path \o <<s>> /\ n.key = d.key /\ n.kind = d.kind
  BY <1>1, <1>2, <1>3, <1>4, BeneathFacts
<1>7. n.path = Append(m.path, s)
  <2>1. PICK p \in Seq(Steps) : p = m.path
    BY <1>2
  <2>2. p \o <<s>> = Append(p, s)
    BY PathsGrow
  <2> QED
    BY <1>6, <2>1, <2>2
<1>8. PointedTo(n, m, s, d, c)
  BY <1>1, <1>3, <1>4, <1>5, <1>6, <1>7 DEF PointedTo
<1> QED
  BY <1>1, <1>8

\* The kind of a node and the type of its key.
LEMMA NodeKind ==
    ASSUME HeapInv, Charted, NEW n \in Nodes
    PROVE  /\ \/ n.kind = KindOf(n.key)
              \/ n.kind = "element" /\ keys[n.key].type = "KEY"
              \/ n.kind = "table" /\ keys[n.key].type = "TABLE"
           /\ n.kind = "array" <=> keys[n.key].type = "ARRAYTABLE"
<1>1. CASE n = RootNode
  BY <1>1, RootNodeFacts DEF HeapInv, Contained, Root
<1>2. CASE n # RootNode
  <2>1. PICK m, s, d, c : m \in Nodes /\ s \in Steps /\ PointedTo(n, m, s, d, c)
    BY <1>2, NodePointer
  <2>2. /\ n.key = d.key /\ n.kind = d.kind
        /\ c \in Allocated /\ d.key \in Allocated
        /\ (BySlot(c, d) \/ ByCell(c, d))
    BY <2>1 DEF PointedTo
  <2>3. CASE BySlot(c, d)
    <3>1. PICK id \in Ids : d = Node(<<id>>, has_subkey(c, id), KindOf(has_subkey(c, id)))
      BY <2>3 DEF BySlot
    <3>2. d.key = has_subkey(c, id) /\ d.kind = KindOf(has_subkey(c, id))
      BY <3>1 DEF Node
    <3>3. n.kind = KindOf(n.key)
      BY <2>2, <3>2
    <3>4. keys[n.key].type \in Types
      BY <2>2, Pointers DEF HeapInv, IInv, KeyType
    <3> QED
      BY <3>3, <3>4 DEF KindOf, Types
  <2>4. CASE ByCell(c, d)
    <3>1. PICK i \in Indices : Cell(c, i) # NULL /\ d = Node(<<i>>, Cell(c, i), "element")
      BY <2>4 DEF ByCell
    <3>2. d.key = Cell(c, i) /\ d.kind = "element"
      BY <3>1 DEF Node
    <3>3. keys[Cell(c, i)].type = "KEY"
      BY <2>2, <3>1 DEF HeapInv, IInv, ElementsPlain, Cell, Indices
    <3> QED
      BY <2>2, <3>2, <3>3
  <2> QED
    BY <2>2, <2>3, <2>4
<1> QED
  BY <1>1, <1>2

\* An array table has as many paths right below it as it has tables.
LEMMA TablesAre ==
    ASSUME HeapInv, Charted, NEW a \in Nodes, keys[a.key].type = "ARRAYTABLE"
    PROVE  /\ keys[a.key].idx + 1 \in Nat
           /\ Rules!Tables(a.path) = keys[a.key].idx + 1
           /\ \A i \in 0 .. keys[a.key].idx : \E n \in Nodes :
                 n.path = Append(a.path, i) /\ n.key = Cell(a.key, i) /\ n.kind = "element"
<1> DEFINE k == a.key
           Q == {q \in DOMAIN Kind : Len(q) = Len(a.path) + 1 /\ Rules!IsPrefix(a.path, q)}
<1>1. k \in Allocated /\ k \in 1 .. MaxKeys /\ a.path \in Seq(Steps) /\ a \in NodeSet
  BY KindFacts DEF Charted, Loose, NodeSet
<1>2. UsedIds(k) = {} /\ Containers(k) = {}
  BY <1>1, ContainerFacts DEF HeapInv, IInv, ArrayTablesReady
<1>3. keys[k].idx \in -1 .. MaxArray - 1
  BY <1>1, Pointers DEF HeapInv, IInv, KeyType
<1>4. ASSUME NEW i \in 0 .. keys[k].idx
      PROVE  /\ i \in Indices /\ i \in Steps
             /\ \E n \in Nodes : n.path = Append(a.path, i) /\ n.key = Cell(k, i) /\ n.kind = "element"
  <2>1. i \in Indices /\ i \in Steps
    BY <1>3 DEF Indices, Steps
  <2>2. PICK d : d = Node(<<i>>, Cell(k, i), "element")
    OBVIOUS
  <2>3. d \in Near(k)
    BY <2>2, NearIs
  <2>4. Beneath(a, d) \in Nodes /\ d \in NodeSet
    BY <1>1, <2>3 DEF Charted, Planted, Downward, NearTo
  <2>5. Beneath(a, d).path = a.path \o <<i>> /\ Beneath(a, d).key = Cell(k, i)
        /\ Beneath(a, d).kind = "element"
    BY <1>1, <2>2, <2>4, BeneathFacts DEF Node
  <2>6. a.path \o <<i>> = Append(a.path, i)
    BY <1>1, <2>1, PathsGrow
  <2> QED
    BY <2>1, <2>4, <2>5, <2>6
<1>5. ASSUME NEW q \in Q PROVE \E i \in 0 .. keys[k].idx : q = Append(a.path, i)
  <2>1. PICK n \in Nodes : n.path = q /\ n.path \in Seq(Steps)
    BY KindFacts
  <2>2. PICK s \in Steps : q = Append(a.path, s)
    BY <1>1, <2>1, OneStep
  <2>3. n # RootNode
    BY <1>1, <2>1, <2>2, RootNodeFacts
  <2>4. PICK m, r, d, c : m \in Nodes /\ r \in Steps /\ PointedTo(n, m, r, d, c)
    BY <2>3, NodePointer
  <2>5. m = a
    <3>1. PICK p \in Seq(Steps), o \in Seq(Steps) : p = m.path /\ o = a.path
      BY <1>1, <2>4, KindFacts
    <3>2. Append(p, r) = Append(o, s)
      BY <2>1, <2>2, <2>4, <3>1 DEF PointedTo
    <3>3. p = o
      BY <2>4, <3>2, AppendInjective
    <3> QED
      BY <2>4, <3>1, <3>3 DEF Charted
  <2>6. d.path = <<r>> /\ ByCell(k, d)
    BY <1>2, <2>4, <2>5 DEF BySlot, PointedTo
  <2>7. PICK i \in Indices : i <= keys[k].idx /\ d = Node(<<i>>, Cell(k, i), "element")
    BY <2>6 DEF ByCell
  <2>8. i = r
    BY <2>6, <2>7 DEF Node
  <2>9. i \in 0 .. keys[k].idx
    BY <1>3, <2>7 DEF Indices
  <2>10. q = Append(a.path, r)
    BY <2>1, <2>4, <2>5 DEF PointedTo
  <2> QED
    BY <2>8, <2>9, <2>10
<1>6. PICK l \in Nat : l = keys[k].idx + 1
  BY <1>3
<1>7. Cardinality(Q) = l
  <2> DEFINE f == [i \in 1 .. l |-> Append(a.path, i - 1)]
  <2>1. \A i \in 1 .. l : i - 1 \in 0 .. keys[k].idx /\ i - 1 \in Steps
    BY <1>4, <1>3, <1>6
  <2>2. ASSUME NEW i \in 1 .. l PROVE Append(a.path, i - 1) \in Q
    <3>1. PICK s \in Steps : s = i - 1 /\ s \in 0 .. keys[k].idx
      BY <2>1
    <3>2. Append(a.path, s) \in DOMAIN Kind
      BY <1>4, <3>1, KindFacts
    <3>3. Len(Append(a.path, s)) = Len(a.path) + 1 /\ Rules!IsPrefix(a.path, Append(a.path, s))
      <4>1. Append(a.path, s) \in Seq(Steps)
        BY <1>1
      <4> QED
        BY <1>1, <4>1, OneStep
    <3> QED
      BY <3>1, <3>2, <3>3
  <2>3. f \in [1 .. l -> Q]
    BY <2>2
  <2>4. ASSUME NEW q \in Q PROVE \E i \in 1 .. l : f[i] = q
    <3>1. PICK j \in 0 .. keys[k].idx : q = Append(a.path, j)
      BY <1>5
    <3>2. j + 1 \in 1 .. l /\ (j + 1) - 1 = j
      BY <1>3, <1>6
    <3> QED
      BY <3>1, <3>2
  <2>5. ASSUME NEW i \in 1 .. l, NEW j \in 1 .. l, f[i] = f[j] PROVE i = j
    <3>1. i - 1 = j - 1
      BY <1>1, <2>1, <2>5, AppendInjective
    <3> QED
      BY <3>1
  <2> HIDE DEF f, Q
  <2> QED
    BY <2>3, <2>4, <2>5, Counted
<1>8. Rules!Tables(a.path) = Cardinality(Q)
  BY RulesCardinality DEF Rules!Tables
<1> QED
  BY <1>4, <1>6, <1>7, <1>8

\* What a segment finds in the map of h is what its path is defined as.
LEMMA Seen ==
    ASSUME HeapInv, Charted, NEW h \in Allocated, keys[h].type \notin {"ARRAYTABLE", "KEYLEAF"},
           NEW m \in Nodes, m.key = OwnerOf(h), NEW id \in Ids
    PROVE  /\ Append(m.path, id) \in Seq(Steps)
           /\ has_subkey(h, id) # NULL =>
                 \E n \in Nodes : /\ n.path = Append(m.path, id) /\ n.key = has_subkey(h, id)
                                  /\ n.kind = KindOf(has_subkey(h, id))
           /\ has_subkey(h, id) = NULL => Append(m.path, id) \notin DOMAIN Kind
<1>1. m.key \in Allocated /\ m.key \in 1 .. MaxKeys /\ Loose(m.key)
      /\ m.path \in Seq(Steps) /\ m \in NodeSet /\ id \in Steps
  BY KindFacts DEF Charted, Loose, NodeSet, Steps
<1>2. h \in {m.key} \cup Containers(m.key)
  BY <1>1, OwnerFacts
<1>3. ASSUME has_subkey(h, id) # NULL
      PROVE  \E n \in Nodes : /\ n.path = Append(m.path, id) /\ n.key = has_subkey(h, id)
                              /\ n.kind = KindOf(has_subkey(h, id))
  <2>1. PICK d : d = Node(<<id>>, has_subkey(h, id), KindOf(has_subkey(h, id)))
    OBVIOUS
  <2>2. d \in Near(m.key)
    BY <1>2, <1>3, <2>1, NearIs DEF UsedIds
  <2>3. Beneath(m, d) \in Nodes /\ d \in NodeSet
    BY <1>1, <2>2 DEF Charted, Planted, Downward, NearTo
  <2>4. /\ Beneath(m, d).path = m.path \o <<id>> /\ Beneath(m, d).key = has_subkey(h, id)
        /\ Beneath(m, d).kind = KindOf(has_subkey(h, id))
    BY <1>1, <2>1, <2>3, BeneathFacts DEF Node
  <2>5. m.path \o <<id>> = Append(m.path, id)
    BY <1>1, PathsGrow
  <2> QED
    BY <2>3, <2>4, <2>5
<1>4. ASSUME NEW n \in Nodes, n.path = Append(m.path, id)
      PROVE  has_subkey(h, id) # NULL
  <2>1. n # RootNode
    BY <1>1, <1>4, RootNodeFacts
  <2>2. PICK l, r, d, c : l \in Nodes /\ r \in Steps /\ PointedTo(n, l, r, d, c)
    BY <2>1, NodePointer
  <2>3. l.path = m.path /\ r = id
    <3>1. PICK p \in Seq(Steps), o \in Seq(Steps), s \in Steps :
                  p = l.path /\ o = m.path /\ s = id
      BY <1>1, <2>2, KindFacts
    <3>2. Append(p, r) = Append(o, s)
      BY <1>4, <2>2, <3>1 DEF PointedTo
    <3>3. p = o /\ r = s
      BY <2>2, <3>2, AppendInjective
    <3> QED
      BY <3>1, <3>3
  <2>4. l = m
    BY <2>2, <2>3 DEF Charted
  <2>5. /\ c \in {m.key} \cup Containers(m.key)
        /\ d.path = <<id>> /\ (BySlot(c, d) \/ ByCell(c, d))
    BY <2>2, <2>3, <2>4 DEF PointedTo
  <2>6. c = h
    <3>1. CASE Containers(m.key) = {}
      BY <1>2, <2>5, <3>1
    <3>2. CASE Containers(m.key) # {}
      <4>1. UsedIds(m.key) = {} /\ keys[m.key].type = "KEYLEAF"
        BY <3>2, ContainerFacts
      <4>2. h # m.key /\ c # m.key
        BY <2>5, <4>1 DEF BySlot, ByCell
      <4> QED
        BY <1>2, <2>5, <4>2, ContainerFacts
    <3> QED
      BY <3>1, <3>2
  <2>7. BySlot(h, d)
    BY <2>5, <2>6 DEF ByCell
  <2> QED
    BY <2>5, <2>7 DEF BySlot, Node
<1>5. Append(m.path, id) \in Seq(Steps)
  BY <1>1
<1>6. Append(m.path, id) \in DOMAIN Kind => has_subkey(h, id) # NULL
  BY <1>4, KindFacts
<1> QED
  BY <1>3, <1>5, <1>6

\* compatible_keys tells what the rules tell, and a segment gives the kind
\* they give.
KindOfType(t) == CASE t = "TABLE"      -> "super"
                   [] t = "TABLELEAF"  -> "table"
                   [] t = "ARRAYTABLE" -> "array"
                   [] t = "KEY"        -> "dotted"
                   [] t = "KEYLEAF"    -> "value"

LEMMA KindByType ==
    ASSUME NEW k
    PROVE  KindOf(k) = KindOfType(keys[k].type) /\ KindOf(k)' = KindOfType(keys'[k].type)
  BY DEF KindOf, KindOfType

LEMMA SameTolerance ==
    ASSUME mode \in Walking, NEW final \in BOOLEAN, NEW t \in Types
    PROVE  /\ compatible_keys(t, NewType(final)) <=> KindOfType(t) \in Rules!Tolerated(mode, final)
           /\ NewType(final) \in Types
           /\ KindOfType(NewType(final)) = Rules!NewKind(mode, final)
           /\ NewType(final) = "TABLELEAF" <=> (mode = "table" /\ final)
<1>1. CASE mode = "key"
  BY <1>1 DEF compatible_keys, NewType, KindOfType, Rules!Tolerated, Rules!NewKind, Types
<1>2. CASE mode = "table"
  BY <1>2 DEF compatible_keys, NewType, KindOfType, Rules!Tolerated, Rules!NewKind, Types
<1>3. CASE mode = "arraytable"
  BY <1>3 DEF compatible_keys, NewType, KindOfType, Rules!Tolerated, Rules!NewKind, Types
<1> QED
  BY <1>1, <1>2, <1>3 DEF Walking

LEMMA KindSame == ASSUME Nodes' = Nodes PROVE Kind' = Kind
  BY DEF Kind

LEMMA KindGrows ==
    ASSUME Charted, Charted', NEW e, Nodes' = Nodes \cup {e}
    PROVE  Kind' = Rules!With(e.path, e.kind)
<1>1. /\ DOMAIN Kind = {n.path : n \in Nodes}
      /\ DOMAIN Kind' = {n.path : n \in Nodes \cup {e}}
  BY DEF Kind
<1>2. DOMAIN Kind' = DOMAIN Kind \cup {e.path}
  BY <1>1
<1>3. Kind' = [p \in DOMAIN Kind' |-> Kind'[p]]
  BY DEF Kind
<1>4. ASSUME NEW p \in DOMAIN Kind'
      PROVE  Kind'[p] = IF p = e.path THEN e.kind ELSE Kind[p]
  <2>1. CASE p = e.path
    BY <2>1 DEF Charted
  <2>2. CASE p # e.path
    <3>1. PICK n \in Nodes : n.path = p
      BY <1>1, <1>2, <2>2
    <3>2. n \in Nodes'
      OBVIOUS
    <3> QED
      BY <2>2, <3>1, <3>2 DEF Charted
  <2> QED
    BY <2>1, <2>2
<1> QED
  BY <1>2, <1>3, <1>4 DEF Rules!With

LEMMA KindRetyped ==
    ASSUME Charted, Charted', NEW e \in Nodes,
           \A b : b \in Nodes' <=> \E a \in Nodes : b = Retyped(e.key, a)
    PROVE  Kind' = Rules!With(e.path, "table")
<1>1. ASSUME NEW a \in Nodes
      PROVE  /\ Retyped(e.key, a) \in Nodes' /\ Retyped(e.key, a).path = a.path
             /\ Retyped(e.key, a).kind = IF a = e THEN "table" ELSE a.kind
             /\ a = e <=> a.path = e.path
  <2>1. a \in NodeSet /\ (a = e <=> a.key = e.key) /\ (a = e <=> a.path = e.path)
    BY DEF Charted, Planted
  <2> QED
    BY <2>1, RetypedFacts
<1>2. DOMAIN Kind = {n.path : n \in Nodes} /\ DOMAIN Kind' = {n.path : n \in Nodes'}
  BY DEF Kind
<1>3. ASSUME NEW p PROVE p \in DOMAIN Kind' <=> p \in DOMAIN Kind \cup {e.path}
  BY <1>1, <1>2
<1>4. DOMAIN Kind' = DOMAIN Kind \cup {e.path}
  BY <1>3
<1>5. Kind' = [p \in DOMAIN Kind' |-> Kind'[p]]
  BY DEF Kind
<1>6. ASSUME NEW p \in DOMAIN Kind'
      PROVE  Kind'[p] = IF p = e.path THEN "table" ELSE Kind[p]
  <2>1. PICK a \in Nodes : a.path = p
    BY <1>2, <1>3
  <2>2. Kind'[p] = Retyped(e.key, a).kind
    BY <1>1, <2>1 DEF Charted
  <2>3. Kind[p] = a.kind
    BY <2>1 DEF Charted
  <2> QED
    BY <1>1, <2>1, <2>2, <2>3
<1> QED
  BY <1>4, <1>5, <1>6 DEF Rules!With

-----------------------------------------------------------------------------
(* Where the statement and the open inline tables are in the tree. *)

HasNode(k) == \E m \in Nodes : m.key = k

Attached == /\ HasNode(active)
            /\ at # NULL => HasNode(OwnerOf(at))
            /\ mode \in {"table", "arraytable", "element", "value"} => HasNode(at)
            /\ \A n \in 1 .. Len(open) : HasNode(open[n].key)

RInv == HeapInv /\ Charted /\ Attached

\* Steps leave every node at its path.
PathsStay == \A m \in Nodes : \E n \in Nodes' : n.key = m.key /\ n.path = m.path

LEMMA PathsSame == ASSUME Nodes' = Nodes PROVE PathsStay
  BY DEF PathsStay

LEMMA PathNow ==
    ASSUME Charted, NEW n \in Nodes, NEW k
    PROVE  /\ OwnerOf(n.key) = n.key
           /\ OwnerOf(k) = n.key => PathOf(k) = n.path
           /\ Loose(n.key)
  BY DEF Charted, Loose, OwnerOf

LEMMA PathNext ==
    ASSUME Charted', NEW n \in Nodes', NEW k
    PROVE  /\ k = n.key => OwnerOf(k)' = k
           /\ OwnerOf(k)' = n.key => PathOf(k)' = n.path
<1>1. ASSUME k = n.key PROVE OwnerOf(k)' = k
  <2>1. Loose(n.key)'
    BY DEF Charted
  <2>2. \A l \in 1 .. Len(open') : open'[l].keys # k
    BY <1>1, <2>1 DEF Loose
  <2> QED
    BY <2>2 DEF OwnerOf
<1>2. OwnerOf(k)' = n.key => PathOf(k)' = n.path
  BY DEF Charted
<1> QED
  BY <1>1, <1>2

LEMMA PathKept ==
    ASSUME Charted, Charted', PathsStay, NEW k,
           \/ HasNode(k)
           \/ HasNode(OwnerOf(k)) /\ open' = open
    PROVE  PathOf(k)' = PathOf(k) /\ (HasNode(k) => HasNode(k)')
           /\ HasNode(OwnerOf(k))'
<1>1. CASE HasNode(k)
  <2>1. PICK m \in Nodes : m.key = k
    BY <1>1 DEF HasNode
  <2>2. PICK n \in Nodes' : n.key = k /\ n.path = m.path
    BY <2>1 DEF PathsStay
  <2>3. PathOf(k) = m.path
    BY <2>1, PathNow
  <2>4. OwnerOf(k)' = k
    BY <2>2, PathNext
  <2>5. PathOf(k)' = n.path
    BY <2>2, <2>4, PathNext
  <2>6. HasNode(k)'
    BY <2>2 DEF HasNode
  <2>7. HasNode(OwnerOf(k))'
    BY <2>2, <2>4 DEF HasNode
  <2> QED
    BY <2>2, <2>3, <2>5, <2>6, <2>7
<1>2. CASE HasNode(OwnerOf(k)) /\ open' = open
  <2>1. PICK m \in Nodes : m.key = OwnerOf(k)
    BY <1>2 DEF HasNode
  <2>2. PICK n \in Nodes' : n.key = m.key /\ n.path = m.path
    BY <2>1 DEF PathsStay
  <2>3. PathOf(k) = m.path
    BY <2>1, PathNow
  <2>4. OwnerOf(k)' = m.key
    BY <1>2, <2>1 DEF OwnerOf
  <2>5. PathOf(k)' = n.path
    BY <2>2, <2>4, PathNext
  <2>6. HasNode(OwnerOf(k))'
    BY <2>2, <2>4 DEF HasNode
  <2> QED
    BY <1>1, <2>2, <2>3, <2>5, <2>6
<1> QED
  BY <1>1, <1>2

LEMMA PathOfNext ==
    ASSUME NEW k
    PROVE  /\ active' = k => PathOf(active)' = PathOf(k)' /\ (HasNode(active)' <=> HasNode(k)')
           /\ at' = k => /\ PathOf(at)' = PathOf(k)' /\ (HasNode(at)' <=> HasNode(k)')
                         /\ (HasNode(OwnerOf(at))' <=> HasNode(OwnerOf(k))')
  BY DEF PathOf, OwnerOf, HasNode

LEMMA BaseKept ==
    ASSUME Kept2, Attached, PathsStay, active' = active
    PROVE  Base' = Base /\ HasNode(active)'
<1>1. PICK k : k = active
  OBVIOUS
<1>2. HasNode(k)
  BY <1>1 DEF Attached
<1>3. PathOf(k)' = PathOf(k) /\ HasNode(k)'
  BY <1>2, PathKept DEF Kept2
<1>4. PathOf(active)' = PathOf(k)' /\ HasNode(active)'
  BY <1>1, <1>3, PathOfNext
<1> QED
  BY <1>1, <1>3, <1>4 DEF Base

LEMMA OuterKept ==
    ASSUME Kept2, Attached, PathsStay, open' = open
    PROVE  Outer' = Outer /\ (\A n \in 1 .. Len(open) : HasNode(open[n].key))'
<1>1. ASSUME NEW n \in 1 .. Len(open)
      PROVE  PathOf(open[n].key)' = PathOf(open[n].key) /\ HasNode(open[n].key)'
  <2>1. PICK k : k = open[n].key
    OBVIOUS
  <2>2. HasNode(k)
    BY <2>1 DEF Attached
  <2>3. PathOf(k)' = PathOf(k) /\ HasNode(k)'
    BY <2>2, PathKept DEF Kept2
  <2>4. open'[n].key = k
    BY <2>1
  <2>5. PathOf(open[n].key)' = PathOf(k)' /\ (HasNode(open[n].key)' <=> HasNode(k)')
    BY <2>4 DEF PathOf, OwnerOf, HasNode
  <2> QED
    BY <2>1, <2>3, <2>5
<1> QED
  BY <1>1 DEF Outer

LEMMA PlaceKept ==
    ASSUME Kept2, Attached, PathsStay, open' = open, at' = at
    PROVE  Place' = Place /\ (at' # NULL => HasNode(OwnerOf(at))')
           /\ (HasNode(at) => HasNode(at)')
<1>1. CASE at = NULL
  <2>1. ASSUME HasNode(at) PROVE FALSE
    <3>1. PICK m \in Nodes : m.key = NULL
      BY <1>1, <2>1 DEF HasNode
    <3>2. m.key \in 1 .. MaxKeys
      BY DEF Kept2, Charted, Planted, NodeSet
    <3> QED
      BY <3>1, <3>2 DEF NULL
  <2> QED
    BY <1>1, <2>1 DEF Place
<1>2. CASE at # NULL
  <2>1. PICK k : k = at
    OBVIOUS
  <2>2. HasNode(OwnerOf(k))
    BY <1>2, <2>1 DEF Attached
  <2>3. PathOf(k)' = PathOf(k) /\ (HasNode(k) => HasNode(k)') /\ HasNode(OwnerOf(k))'
    BY <2>2, PathKept DEF Kept2
  <2>4. /\ PathOf(at)' = PathOf(k)' /\ (HasNode(at)' <=> HasNode(k)')
        /\ HasNode(OwnerOf(at))'
    BY <2>1, <2>3, PathOfNext
  <2> QED
    BY <1>2, <2>1, <2>3, <2>4 DEF Place
<1> QED
  BY <1>1, <1>2

-----------------------------------------------------------------------------
(* Every step is a step of TomlRules. *)

\* A segment goes on in the table where the rules have it go on.
LEMMA Walk ==
    ASSUME RInv, mode \in Walking, NEW id \in Ids
    PROVE  \E m \in Nodes, h \in Allocated :
              /\ h = Holder(at, id) /\ m.key = OwnerOf(h)
              /\ keys[h].type \notin {"ARRAYTABLE", "KEYLEAF"}
              /\ Rules!Here(Place) = m.path
<1>1. PICK h \in Allocated : h = Holder(at, id) /\ keys[h].type \notin {"ARRAYTABLE", "KEYLEAF"}
  BY HolderFacts DEF RInv, HeapInv
<1>2. PICK k \in Allocated : k = at /\ at # NULL
  BY HolderFacts DEF RInv, HeapInv, IInv, Somewhere
<1>3. PICK a \in Nodes : a.key = OwnerOf(k)
  BY <1>2 DEF RInv, Attached, HasNode
<1>4. Place = a.path
  BY <1>2, <1>3, PathNow DEF Place, RInv
<1>5. Kind[a.path] = a.kind /\ Loose(a.key)
  BY PathNow, KindFacts DEF RInv
<1>6. k \in {a.key} \cup Containers(a.key)
  BY <1>3, <1>5, OwnerFacts DEF RInv
<1>7. CASE keys[k].type = "ARRAYTABLE"
  <2>1. k = a.key
    BY <1>6, <1>7, ContainerFacts DEF RInv
  <2>2. a.kind = "array"
    BY <1>7, <2>1, NodeKind DEF RInv
  <2>3. UsedIds(k) = {} /\ keys[k].idx >= 0
    BY <1>2, <1>7 DEF RInv, HeapInv, IInv, ArrayTablesReady, Walking, Stopped
  <2>4. h = Cell(k, keys[k].idx)
    BY <1>1, <1>2, <1>7, <2>3 DEF Holder, UsedIds, Cell
  <2>5. keys[k].idx \in Nat
    <3>1. keys[k].idx \in Int
      BY <1>2, Pointers DEF RInv, HeapInv, IInv, KeyType
    <3> QED
      BY <2>3, <3>1
  <2>6. PICK i \in Nat : i = keys[k].idx
    BY <2>5
  <2>7. Rules!Tables(a.path) = i + 1
    BY <1>7, <2>1, <2>6, TablesAre DEF RInv
  <2>8. PICK n \in Nodes : n.path = Append(a.path, i) /\ n.key = h
    BY <1>7, <2>1, <2>4, <2>6, TablesAre DEF RInv
  <2>9. Rules!Here(Place) = Append(a.path, (i + 1) - 1)
    BY <1>4, <1>5, <2>2, <2>7 DEF Rules!Here
  <2>10. (i + 1) - 1 = i
    BY <2>6
  <2>11. OwnerOf(h) = n.key
    BY <2>8, PathNow DEF RInv
  <2> QED
    BY <1>1, <2>8, <2>9, <2>10, <2>11
<1>8. CASE keys[k].type # "ARRAYTABLE"
  <2>1. h = k
    BY <1>1, <1>2, <1>8 DEF Holder
  <2>2. a.kind # "array"
    <3>1. keys[a.key].type # "ARRAYTABLE"
      BY <1>6, <1>8, ContainerFacts DEF RInv
    <3> QED
      BY <3>1, NodeKind DEF RInv
  <2>3. Rules!Here(Place) = a.path
    BY <1>4, <1>5, <2>2 DEF Rules!Here
  <2> QED
    BY <1>1, <1>3, <2>1, <2>3
<1> QED
  BY <1>7, <1>8

\* What the path of the next segment is, and what is known about it.
LEMMA Segments ==
    ASSUME RInv, mode \in Walking, NEW id \in Ids, NEW final \in BOOLEAN
    PROVE  \E m \in Nodes, h \in Allocated :
              /\ h = Holder(at, id) /\ m.key = OwnerOf(h)
              /\ Append(Rules!Here(Place), id) = Append(m.path, id)
              /\ Append(m.path, id) \in Seq(Steps)
              /\ Found(at, id) = NULL => Append(m.path, id) \notin DOMAIN Kind
              /\ Found(at, id) # NULL => \E n \in Nodes :
                    /\ n.path = Append(m.path, id) /\ n.key = Found(at, id)
                    /\ n.path \in DOMAIN Kind
                    /\ compatible_keys(keys[Found(at, id)].type, NewType(final))
                          <=> Kind[n.path] \in Rules!Tolerated(mode, final)
<1>1. PICK m \in Nodes, h \in Allocated :
              /\ h = Holder(at, id) /\ m.key = OwnerOf(h)
              /\ keys[h].type \notin {"ARRAYTABLE", "KEYLEAF"}
              /\ Rules!Here(Place) = m.path
  BY Walk
<1>2. Found(at, id) = has_subkey(h, id)
  BY <1>1 DEF Found
<1>3. /\ Append(m.path, id) \in Seq(Steps)
      /\ Found(at, id) = NULL => Append(m.path, id) \notin DOMAIN Kind
      /\ Found(at, id) # NULL =>
            \E n \in Nodes : /\ n.path = Append(m.path, id) /\ n.key = has_subkey(h, id)
                             /\ n.kind = KindOf(has_subkey(h, id))
  BY <1>1, <1>2, Seen DEF RInv
<1>4. ASSUME Found(at, id) # NULL
      PROVE  \E n \in Nodes :
                /\ n.path = Append(m.path, id) /\ n.key = Found(at, id)
                /\ n.path \in DOMAIN Kind
                /\ compatible_keys(keys[Found(at, id)].type, NewType(final))
                      <=> Kind[n.path] \in Rules!Tolerated(mode, final)
  <2>1. PICK n \in Nodes : /\ n.path = Append(m.path, id) /\ n.key = has_subkey(h, id)
                           /\ n.kind = KindOf(has_subkey(h, id))
    BY <1>3, <1>4
  <2>2. PICK s \in Allocated : s = Found(at, id)
    BY <1>4, HolderFacts DEF RInv, HeapInv
  <2>3. PICK t \in Types : t = keys[s].type
    BY Pointers DEF RInv, HeapInv, IInv, KeyType
  <2>4. n.path \in DOMAIN Kind /\ Kind[n.path] = n.kind
    BY KindFacts DEF RInv
  <2>5. n.kind = KindOf(s)
    BY <1>2, <2>1, <2>2
  <2>6. KindOf(s) = KindOfType(t)
    BY <2>3, KindByType
  <2>7. compatible_keys(t, NewType(final)) <=> KindOfType(t) \in Rules!Tolerated(mode, final)
    BY SameTolerance
  <2> QED
    BY <1>2, <2>1, <2>2, <2>3, <2>4, <2>5, <2>6, <2>7
<1> QED
  BY <1>1, <1>3, <1>4

Simulates == [Rules!Next]_(Rules!vars)

\* Steps that leave the tree alone.
LEMMA QuietRules ==
    ASSUME Kept2, Attached, Still, active' = active
    PROVE  /\ Nodes' = Nodes /\ PathsStay
           /\ Kind' = Kind /\ Base' = Base /\ Outer' = Outer
           /\ HasNode(active)' /\ (\A n \in 1 .. Len(open) : HasNode(open[n].key))'
           /\ at' = at => /\ Place' = Place /\ (at' # NULL => HasNode(OwnerOf(at))')
                          /\ (HasNode(at) => HasNode(at)')
<1>1. Nodes' = Nodes /\ PathsStay /\ open' = open
  BY StillNodes, PathsSame DEF Still
<1> QED
  BY <1>1, KindSame, BaseKept, OuterKept, PlaceKept

\* Steps that stop, or that stutter.
LEMMA StopRules ==
    ASSUME Kept2, Attached, UNCHANGED <<keys, nkeys, active, at, open>>,
           mode' \in Stopped \/ mode' = mode
    PROVE  Attached' /\ PathsStay /\ UNCHANGED <<Kind, Base, Place, Outer>>
<1>1. Still
  BY QuietEffect DEF Kept2, HeapInv
<1>2. /\ Kind' = Kind /\ Base' = Base /\ Outer' = Outer /\ Place' = Place /\ PathsStay
      /\ HasNode(active)' /\ (\A n \in 1 .. Len(open) : HasNode(open[n].key))'
      /\ at' # NULL => HasNode(OwnerOf(at))'
      /\ HasNode(at) => HasNode(at)'
  BY <1>1, QuietRules
<1>3. (mode \in {"table", "arraytable", "element", "value"} => HasNode(at))'
  BY <1>2 DEF Attached, Stopped
<1> QED
  BY <1>2, <1>3 DEF Attached

LEMMA FailRules ==
    ASSUME Kept2, Attached,
           \/ ArrayOverflow \/ Invalid \/ \E id \in Ids : Overflow(id)
    PROVE  Attached' /\ PathsStay /\ Rules!Next
<1>1. /\ UNCHANGED <<keys, nkeys, active, at, open>> /\ mode' \in {"invalid", "overflow"}
      /\ mode \notin Stopped
  BY DEF ArrayOverflow, Invalid, Overflow, Walking, Stopped
<1>2. Attached' /\ PathsStay /\ UNCHANGED <<Kind, Base, Place, Outer>>
  BY <1>1, StopRules DEF Stopped
<1>3. Phase \notin {"redefined", "failed", "done"} /\ Phase' = "failed"
  BY <1>1 DEF Phase, Stopped, Kept2, HeapInv, IInv, TypeOK, Modes, Walking
<1>4. Rules!Fail
  BY <1>2, <1>3 DEF Rules!Fail
<1> QED
  BY <1>2, <1>4 DEF Rules!Next

LEMMA FinishRules == ASSUME Kept2, Attached, Finish PROVE Attached' /\ PathsStay /\ Rules!Next
<1>1. /\ UNCHANGED <<keys, nkeys, active, at, open>> /\ mode' = "done" /\ mode = "statement"
  BY DEF Finish
<1>2. Attached' /\ PathsStay /\ UNCHANGED <<Kind, Base, Place, Outer>>
  BY <1>1, StopRules DEF Stopped
<1>3. Rules!Finish
  BY <1>1, <1>2 DEF Rules!Finish, Phase
<1> QED
  BY <1>2, <1>3 DEF Rules!Next

LEMMA StutterRules == ASSUME Kept2, Attached, UNCHANGED vars PROVE Attached' /\ PathsStay /\ Simulates
<1>1. UNCHANGED <<keys, nkeys, active, at, open>> /\ mode' = mode
  BY DEF vars
<1>2. Attached' /\ PathsStay /\ UNCHANGED <<Kind, Base, Place, Outer>>
  BY <1>1, StopRules
<1>3. Phase' = Phase
  BY <1>1 DEF Phase
<1> QED
  BY <1>2, <1>3 DEF Simulates, Rules!vars

LEMMA RedefineRules ==
    ASSUME Kept2, Attached, NEW id \in Ids, NEW final \in BOOLEAN, Redefine(id, final)
    PROVE  Attached' /\ PathsStay /\ Rules!Next
<1>1. /\ UNCHANGED <<keys, nkeys, active, at, open>> /\ mode' = "redefined" /\ mode \in Walking
      /\ Found(at, id) # NULL
      /\ ~compatible_keys(keys[Found(at, id)].type, NewType(final))
  BY DEF Redefine
<1>2. Attached' /\ PathsStay /\ UNCHANGED <<Kind, Base, Place, Outer>>
  BY <1>1, StopRules DEF Stopped
<1>3. Phase = mode /\ Phase' = "redefined" /\ Phase \in Rules!Forms
  BY <1>1 DEF Phase, Walking, Rules!Forms
<1>4. PICK n \in Nodes :
              /\ n.path = Append(Rules!Here(Place), id) /\ n.path \in DOMAIN Kind
              /\ Kind[n.path] \notin Rules!Tolerated(mode, final)
  BY <1>1, Segments DEF RInv, Kept2
<1>5. Rules!Redefine(id, final)
  BY <1>2, <1>3, <1>4 DEF Rules!Redefine, Rules!Defined
<1> QED
  BY <1>2, <1>5 DEF Rules!Next

LEMMA StartKeyRules == ASSUME Kept2, Attached, StartKey PROVE Attached' /\ PathsStay /\ Rules!Next
<1>1. /\ UNCHANGED <<keys, nkeys, active, open>> /\ mode' = "key" /\ mode = "statement"
  BY DEF StartKey
<1>2. Still
  BY <1>1, QuietEffect DEF Kept2, HeapInv
<1>3. /\ Kind' = Kind /\ Base' = Base /\ Outer' = Outer /\ PathsStay
      /\ HasNode(active)' /\ (\A n \in 1 .. Len(open) : HasNode(open[n].key))'
  BY <1>1, <1>2, QuietRules
<1>4. PICK k : k = active /\ k \in Allocated
  BY DEF Kept2, HeapInv, IInv, TypeOK
<1>5. k # NULL /\ at' = k
  BY <1>4 DEF StartKey, Allocated, NULL
<1>6. PathOf(k)' = PathOf(k) /\ HasNode(OwnerOf(k))'
  BY <1>3, <1>4, PathKept DEF Kept2, Attached
<1>7. Place' = Base /\ HasNode(OwnerOf(at))'
  BY <1>4, <1>5, <1>6, PathOfNext DEF Place, Base
<1>8. Attached'
  BY <1>1, <1>3, <1>7 DEF Attached
<1>9. Phase = "statement" /\ Phase' = "key" /\ "key" \in Rules!Forms
  BY <1>1 DEF Phase, Rules!Forms
<1>10. Rules!Begin("key")
  BY <1>3, <1>7, <1>9 DEF Rules!Begin
<1> QED
  BY <1>3, <1>8, <1>9, <1>10 DEF Rules!Next

LEMMA StartTableRules == ASSUME Kept2, Attached, StartTable PROVE Attached' /\ PathsStay /\ Rules!Next
<1>1. /\ UNCHANGED <<keys, nkeys, active, open>> /\ mode = "statement" /\ at' = 1
  BY DEF StartTable, Root
<1>2. Still
  BY <1>1, QuietEffect DEF Kept2, HeapInv
<1>3. /\ Kind' = Kind /\ Base' = Base /\ Outer' = Outer
      /\ Nodes' = Nodes /\ PathsStay
      /\ HasNode(active)' /\ (\A n \in 1 .. Len(open) : HasNode(open[n].key))'
  BY <1>1, <1>2, QuietRules
<1>4. RootNode \in Nodes' /\ RootNode.key = 1 /\ RootNode.path = <<>>
  BY <1>3, RootNodeFacts DEF Kept2, Charted, Planted
<1>5. PICK k : k = 1
  OBVIOUS
<1>6. OwnerOf(k)' = k /\ PathOf(k)' = <<>>
  BY <1>4, <1>5, PathNext DEF Kept2
<1>7. HasNode(k)' /\ HasNode(OwnerOf(k))'
  BY <1>4, <1>5, <1>6 DEF HasNode
<1>8. Place' = <<>> /\ HasNode(at)' /\ HasNode(OwnerOf(at))'
  BY <1>1, <1>5, <1>6, <1>7, PathOfNext DEF Place, NULL
<1>9. Attached'
  BY <1>3, <1>8 DEF Attached
<1>10. PICK form \in {"table", "arraytable"} : mode' = form
  BY DEF StartTable
<1>11. Phase = "statement" /\ Phase' = form /\ form \in Rules!Forms /\ form # "key"
  BY <1>1, <1>10 DEF Phase, Rules!Forms
<1>12. Rules!Begin(form)
  BY <1>3, <1>8, <1>11 DEF Rules!Begin
<1> QED
  BY <1>3, <1>9, <1>11, <1>12 DEF Rules!Next

LEMMA OuterIs ==
    ASSUME IInv
    PROVE  /\ Len(Outer) = Len(open) /\ Len(open) \in Nat
           /\ \A n \in 1 .. Len(open) : Outer[n] = PathOf(open[n].key)
           /\ Outer = <<>> <=> open = <<>>
<1>1. Len(open) \in Nat /\ (open = <<>> <=> Len(open) = 0)
  BY DEF IInv, TypeOK
<1> QED
  BY <1>1 DEF Outer

LEMMA InlineKeyRules == ASSUME Kept2, Attached, InlineKey PROVE Attached' /\ PathsStay /\ Rules!Next
<1>1. /\ UNCHANGED <<keys, nkeys, active, open>> /\ mode = "inline" /\ mode' = "key"
  BY DEF InlineKey
<1>2. Still
  BY <1>1, QuietEffect DEF Kept2, HeapInv
<1>3. /\ Kind' = Kind /\ Base' = Base /\ Outer' = Outer /\ PathsStay
      /\ HasNode(active)' /\ (\A n \in 1 .. Len(open) : HasNode(open[n].key))'
  BY <1>1, <1>2, QuietRules
<1>4. Len(open) \in 1 .. Len(open) /\ Top = open[Len(open)]
  BY <1>1, OpenFacts DEF Kept2, HeapInv
<1>5. PICK c, k : /\ c \in Allocated /\ c = Top.keys
                 /\ k = Top.key /\ HasNode(k) /\ c # NULL
  <2>1. Top.keys \in Allocated
    BY <1>4, OpenFacts DEF Kept2, HeapInv
  <2>2. HasNode(Top.key)
    BY <1>4 DEF Attached
  <2> QED
    BY <2>1, <2>2 DEF Allocated, NULL
<1>6. PICK m \in Nodes : m.key = k
  BY <1>5 DEF HasNode
<1>7. OwnerOf(c) = k
  <2>1. c \in Containers(k)
    BY <1>4, <1>5 DEF Containers
  <2> QED
    BY <1>6, <2>1, PathNow, OwnerFacts DEF Kept2
<1>8. PathOf(c) = m.path /\ PathOf(k) = m.path
  BY <1>6, <1>7, PathNow DEF Kept2
<1>9. PathOf(c)' = PathOf(c) /\ HasNode(OwnerOf(c))'
  BY <1>1, <1>3, <1>5, <1>7, PathKept DEF Kept2
<1>10. at' = c
  BY <1>5 DEF InlineKey
<1>11. Place' = PathOf(k) /\ HasNode(OwnerOf(at))'
  BY <1>5, <1>8, <1>9, <1>10, PathOfNext DEF Place
<1>12. Attached'
  BY <1>1, <1>3, <1>11 DEF Attached
<1>13. Phase = "inline" /\ Phase' = "key"
  BY <1>1 DEF Phase
<1>14. Outer[Len(Outer)] = PathOf(k)
  <2>1. Len(Outer) = Len(open) /\ Outer[Len(open)] = PathOf(open[Len(open)].key)
    BY <1>4, OuterIs DEF Kept2, HeapInv
  <2> QED
    BY <1>4, <1>5, <2>1
<1>15. Rules!InlineKey
  BY <1>3, <1>11, <1>13, <1>14 DEF Rules!InlineKey
<1> QED
  BY <1>3, <1>12, <1>15 DEF Rules!Next

LEMMA SetValueRules == ASSUME Kept2, Attached, SetValue PROVE Attached' /\ PathsStay /\ Rules!Next
<1>1. Still /\ active' = active /\ at' = NULL /\ mode = "value" /\ mode' = AfterValue(open)
  BY QuietEffect DEF SetValue, Kept2, HeapInv
<1>2. /\ Kind' = Kind /\ Base' = Base /\ Outer' = Outer /\ PathsStay
      /\ HasNode(active)' /\ (\A n \in 1 .. Len(open) : HasNode(open[n].key))'
  BY <1>1, QuietRules
<1>3. Attached'
  BY <1>1, <1>2 DEF Attached, AfterValue
<1>4. AfterValue(open) = Rules!AfterValue(Outer)
  BY OuterIs DEF AfterValue, Rules!AfterValue, Kept2, HeapInv
<1>5. Phase = "value" /\ Phase' = Rules!AfterValue(Outer)
  BY <1>1, <1>4 DEF Phase, AfterValue
<1>6. Place' = Rules!Nowhere
  BY <1>1 DEF Place, Rules!Nowhere
<1>7. Rules!SetValue
  BY <1>2, <1>5, <1>6 DEF Rules!SetValue
<1> QED
  BY <1>2, <1>3, <1>7 DEF Rules!Next

\* A segment that has got to the key k.
LEMMA ArriveRules ==
    ASSUME Kept2, Attached, PathsStay, mode \in Walking, open' = open,
           NEW final \in BOOLEAN, NEW k, Arrive(k, final), NEW n \in Nodes', n.key = k
    PROVE  /\ Attached' /\ Outer' = Outer
           /\ Place' = IF Phase = "table" /\ final THEN Rules!Nowhere ELSE n.path
           /\ Base' = IF Phase = "table" /\ final THEN n.path ELSE Base
           /\ Phase' = IF ~final THEN Phase
                       ELSE CASE Phase = "key"        -> "value"
                              [] Phase = "table"      -> "statement"
                              [] Phase = "arraytable" -> "element"
<1>1. Phase = mode /\ mode \in {"key", "table", "arraytable"}
  BY DEF Phase, Walking
<1>2. OwnerOf(k)' = k /\ PathOf(k)' = n.path
  BY PathNext DEF Kept2
<1>3. HasNode(k)' /\ HasNode(OwnerOf(k))'
  BY <1>2 DEF HasNode
<1>4. k # NULL
  BY DEF Kept2, Charted, Planted, NodeSet, NULL
<1>5. Outer' = Outer /\ (\A l \in 1 .. Len(open) : HasNode(open[l].key))'
  BY OuterKept
<1>6. CASE mode = "table" /\ final
  <2>1. mode' = "statement" /\ at' = NULL /\ active' = k
    BY <1>6 DEF Arrive
  <2>2. Base' = n.path /\ HasNode(active)'
    BY <1>2, <1>3, <2>1, PathOfNext DEF Base
  <2>3. Attached'
    BY <1>5, <2>1, <2>2 DEF Attached
  <2> QED
    BY <1>1, <1>5, <1>6, <2>1, <2>2, <2>3 DEF Place, Phase, Rules!Nowhere
<1>7. CASE ~(mode = "table" /\ final)
  <2>1. at' = k /\ active' = active
    BY <1>7 DEF Arrive
  <2>2. Base' = Base /\ HasNode(active)'
    BY <2>1, BaseKept
  <2>3. Place' = n.path /\ HasNode(at)' /\ HasNode(OwnerOf(at))'
    BY <1>2, <1>3, <1>4, <2>1, PathOfNext DEF Place
  <2>4. Attached'
    BY <1>5, <2>2, <2>3 DEF Attached
  <2>5. mode' = IF ~final THEN mode ELSE IF mode = "key" THEN "value" ELSE "element"
    BY <1>1, <1>7 DEF Arrive
  <2>6. Phase' = IF ~final THEN Phase ELSE IF Phase = "key" THEN "value" ELSE "element"
    BY <1>1, <2>5 DEF Phase
  <2> QED
    BY <1>1, <1>5, <1>7, <2>2, <2>3, <2>4, <2>6
<1> QED
  BY <1>6, <1>7

LEMMA DescendRules ==
    ASSUME Kept2, Attached, NEW id \in Ids, NEW final \in BOOLEAN, Descend(id, final)
    PROVE  Attached' /\ PathsStay /\ Rules!Next
<1>1. mode \in Walking /\ Found(at, id) # NULL /\ open' = open
      /\ compatible_keys(keys[Found(at, id)].type, NewType(final))
  BY DEF Descend
<1>2. PICK s \in Allocated : s = Found(at, id)
  BY <1>1, HolderFacts DEF Kept2, HeapInv
<1>3. Arrive(s, final)
  BY <1>2 DEF Descend
<1>4. PICK p \in Seq(Steps), n \in Nodes :
              /\ p = Append(Rules!Here(Place), id)
              /\ n.path = p /\ n.key = s /\ p \in DOMAIN Kind
              /\ Kind[p] \in Rules!Tolerated(mode, final)
  BY <1>1, <1>2, Segments DEF RInv, Kept2
<1>5. Phase = mode /\ Phase \in Rules!Forms
  BY <1>1 DEF Phase, Walking, Rules!Forms
<1>6. /\ PathsStay /\ \E e \in Nodes' : e.key = s /\ e.path = p
      /\ Kind' = IF Phase = "table" /\ final THEN Rules!With(p, Rules!NewKind(mode, final))
                 ELSE Kind
  <2>1. CASE Still /\ NewType(final) # "TABLELEAF"
    <3>1. Nodes' = Nodes
      BY <2>1, StillNodes
    <3>2. ~(Phase = "table" /\ final)
      BY <1>1, <1>5, <2>1 DEF NewType
    <3> QED
      BY <1>4, <3>1, <3>2, KindSame, PathsSame
  <2>2. CASE /\ NewType(final) = "TABLELEAF"
             /\ \E h, t \in Allocated : t = Found(at, id) /\ Retypes(h, id, t)
    <3>1. PICK h \in Allocated : Retypes(h, id, s)
      BY <1>2, <2>2
    <3>2. \A b : b \in Nodes' <=> \E a \in Nodes : b = Retyped(s, a)
      BY <3>1, RetypesNodes
    <3>3. ASSUME NEW a \in Nodes
          PROVE  /\ Retyped(s, a) \in Nodes' /\ Retyped(s, a).key = a.key
                 /\ Retyped(s, a).path = a.path
      BY <3>2, KindFacts, RetypedFacts DEF Kept2
    <3>4. PathsStay
      BY <3>3 DEF PathsStay
    <3>5. \E e \in Nodes' : e.key = s /\ e.path = p
      BY <1>4, <3>3
    <3>6. Phase = "table" /\ final /\ Rules!NewKind(mode, final) = "table"
      BY <1>1, <1>5, <2>2 DEF NewType, Walking, Rules!NewKind
    <3>7. Kind' = Rules!With(p, "table")
      BY <1>4, <3>2, KindRetyped DEF Kept2
    <3> QED
      BY <3>4, <3>5, <3>6, <3>7
  <2> QED
    BY <2>1, <2>2, DescendEffect DEF Kept2, HeapInv
<1>7. PICK e \in Nodes' : e.key = s /\ e.path = p
  BY <1>6
<1>8. /\ Attached' /\ Outer' = Outer
      /\ Place' = IF Phase = "table" /\ final THEN Rules!Nowhere ELSE p
      /\ Base' = IF Phase = "table" /\ final THEN p ELSE Base
      /\ Phase' = IF ~final THEN Phase
                  ELSE CASE Phase = "key"        -> "value"
                         [] Phase = "table"      -> "statement"
                         [] Phase = "arraytable" -> "element"
  BY <1>1, <1>3, <1>6, <1>7, ArriveRules
<1>9. Rules!Define(id, final)
  <2> HIDE DEF Phase
  <2> QED
    BY <1>4, <1>5, <1>6, <1>8 DEF Rules!Define, Rules!Defined
<1> QED
  BY <1>6, <1>8, <1>9 DEF Rules!Next

LEMMA CreateRules ==
    ASSUME Kept2, Attached, NEW id \in Ids, NEW final \in BOOLEAN, Create(id, final)
    PROVE  Attached' /\ PathsStay /\ Rules!Next
<1>1. mode \in Walking /\ Found(at, id) = NULL /\ open' = open
  BY DEF Create
<1>2. PICK h \in Allocated, fresh \in Nat, type \in Types :
              /\ h = Holder(at, id) /\ fresh = new /\ type = NewType(final)
              /\ AddsKey(h, id, fresh, type)
  BY CreateEffect DEF Kept2, HeapInv
<1>3. Arrive(fresh, final)
  BY <1>2 DEF Create
<1>4. PICK m \in Nodes, p \in Seq(Steps) :
              /\ m.key = OwnerOf(h) /\ p = Append(Rules!Here(Place), id)
              /\ p = Append(m.path, id) /\ p \notin DOMAIN Kind
  BY <1>1, <1>2, Segments DEF RInv, Kept2
<1>5. Phase = mode /\ Phase \in Rules!Forms
  BY <1>1 DEF Phase, Walking, Rules!Forms
<1>6. PICK kind \in Kinds : kind = KindOfType(type)
  BY DEF KindOfType, Types, Kinds
<1>7. KindOf(fresh)' = kind /\ kind = Rules!NewKind(Phase, final)
  <2>1. keys'[fresh].type = type
    BY <1>2 DEF AddsKey, Makes
  <2>2. KindOf(fresh)' = KindOfType(keys'[fresh].type)
    BY KindByType
  <2>3. KindOfType(NewType(final)) = Rules!NewKind(mode, final)
    BY <1>1, SameTolerance
  <2> QED
    BY <1>2, <1>5, <1>6, <2>1, <2>2, <2>3
<1> DEFINE e == Beneath(m, Node(<<id>>, fresh, kind))
<1>8. Nodes' = Nodes \cup {e}
  BY <1>2, <1>4, <1>7, AddsKeyNodes
<1>9. e.key = fresh /\ e.path = p /\ e.kind = kind
  <2>1. m \in NodeSet /\ m.path \in Seq(Steps) /\ id \in Steps
    BY KindFacts DEF Kept2, Steps
  <2>2. m.path \o <<id>> = Append(m.path, id)
    BY <2>1, PathsGrow
  <2> QED
    BY <1>4, <2>2 DEF Beneath, Node
<1> HIDE DEF e
<1>10. PathsStay /\ e \in Nodes'
  BY <1>8 DEF PathsStay
<1>11. Kind' = Rules!With(p, kind)
  BY <1>8, <1>9, KindGrows DEF Kept2
<1>12. /\ Attached' /\ Outer' = Outer
       /\ Place' = IF Phase = "table" /\ final THEN Rules!Nowhere ELSE p
       /\ Base' = IF Phase = "table" /\ final THEN p ELSE Base
       /\ Phase' = IF ~final THEN Phase
                   ELSE CASE Phase = "key"        -> "value"
                          [] Phase = "table"      -> "statement"
                          [] Phase = "arraytable" -> "element"
  BY <1>1, <1>3, <1>9, <1>10, ArriveRules
<1>13. Rules!Define(id, final)
  BY <1>4, <1>5, <1>7, <1>11, <1>12 DEF Rules!Define, Rules!Defined
<1> QED
  BY <1>10, <1>12, <1>13 DEF Rules!Next

LEMMA NewElementRules == ASSUME Kept2, Attached, NewElement PROVE Attached' /\ PathsStay /\ Rules!Next
<1>1. mode = "element" /\ mode' = "statement" /\ active' = at /\ at' = NULL
  BY DEF NewElement
<1>2. PICK h \in Allocated, i \in Indices, fresh \in Nat :
              h = at /\ fresh = new /\ AddsCell(h, i, fresh)
  BY NewElementEffect DEF Kept2, HeapInv
<1>3. PICK m \in Nodes : m.key = h
  BY <1>1, <1>2 DEF Attached, HasNode
<1>4. OwnerOf(h) = h /\ PathOf(h) = m.path
  BY <1>3, PathNow DEF Kept2
<1>5. h # NULL /\ Place = m.path
  BY <1>2, <1>4 DEF Place, Allocated, NULL
<1>6. Rules!Tables(m.path) = i
  <2>1. keys[m.key].type = "ARRAYTABLE" /\ i = keys[m.key].idx + 1
    BY <1>2, <1>3 DEF AddsCell
  <2> QED
    BY <2>1, TablesAre DEF Kept2
<1> DEFINE e == Beneath(m, Node(<<i>>, fresh, "element"))
<1>7. Nodes' = Nodes \cup {e}
  BY <1>2, <1>3, <1>4, AddsCellNodes
<1>8. e.path = Append(m.path, i) /\ e.kind = "element"
  <2>1. m \in NodeSet /\ m.path \in Seq(Steps) /\ i \in Steps
    BY KindFacts DEF Kept2, Steps
  <2>2. m.path \o <<i>> = Append(m.path, i)
    BY <2>1, PathsGrow
  <2> QED
    BY <2>2 DEF Beneath, Node
<1> HIDE DEF e
<1>9. PathsStay /\ open' = open
  BY <1>2, <1>7 DEF PathsStay, AddsCell
<1>10. Kind' = Rules!With(Append(Place, Rules!Tables(Place)), "element")
  BY <1>5, <1>6, <1>7, <1>8, KindGrows DEF Kept2
<1>11. PathOf(h)' = PathOf(h) /\ HasNode(h)'
  BY <1>3, <1>9, PathKept DEF Kept2, HasNode
<1>12. Base' = Place /\ HasNode(active)'
  BY <1>1, <1>2, <1>4, <1>5, <1>11, PathOfNext DEF Base
<1>13. Outer' = Outer /\ (\A l \in 1 .. Len(open) : HasNode(open[l].key))'
  BY <1>9, OuterKept
<1>14. Attached'
  BY <1>1, <1>12, <1>13 DEF Attached
<1>15. Phase = "element" /\ Phase' = "statement" /\ Place' = Rules!Nowhere
  BY <1>1 DEF Phase, Place, Rules!Nowhere
<1>16. Rules!AddTable
  BY <1>10, <1>12, <1>13, <1>15 DEF Rules!AddTable
<1> QED
  BY <1>9, <1>14, <1>16 DEF Rules!Next

LEMMA OpenInlineRules == ASSUME Kept2, Attached, OpenInline PROVE Attached' /\ PathsStay /\ Rules!Next
<1>1. mode = "value" /\ mode' = "inline" /\ active' = active /\ at' = NULL
  BY DEF OpenInline
<1>2. PICK k \in Allocated, fresh \in Nat : k = at /\ fresh = new /\ Opens(k, fresh)
  BY OpenInlineEffect DEF Kept2, HeapInv
<1>3. Nodes' = Nodes /\ Kind' = Kind /\ PathsStay
  BY <1>2, OpensNodes, KindSame, PathsSame
<1>4. Base' = Base /\ HasNode(active)'
  BY <1>1, <1>3, BaseKept
<1>5. HasNode(k) /\ k # NULL
  BY <1>1, <1>2 DEF Attached, Allocated, NULL
<1>6. Place = PathOf(k)
  BY <1>2, <1>5 DEF Place
<1>7. PICK l \in Nat : l = Len(open)
  BY DEF Kept2, HeapInv, IInv, TypeOK
<1>8. /\ Len(open') = l + 1 /\ open'[l + 1].key = k
      /\ \A n \in 1 .. l : open'[n] = open[n]
  <2>1. open \in Seq([key : 1 .. MaxKeys, keys : 1 .. MaxKeys])
    BY DEF Kept2, HeapInv, IInv, TypeOK
  <2>2. open' = Append(open, [key |-> k, keys |-> fresh])
    BY <1>2 DEF Opens
  <2> QED
    BY <1>7, <2>1, <2>2
<1>9. ASSUME NEW n \in 1 .. Len(open')
      PROVE  /\ PathOf(open[n].key)' = IF n = l + 1 THEN PathOf(k) ELSE PathOf(open[n].key)
             /\ HasNode(open[n].key)'
  <2>1. PICK j : j = open'[n].key
    OBVIOUS
  <2>2. HasNode(j) /\ (n = l + 1 => j = k) /\ (n # l + 1 => j = open[n].key)
    BY <1>5, <1>7, <1>8, <2>1 DEF Attached
  <2>3. PathOf(j)' = PathOf(j) /\ HasNode(j)'
    BY <1>3, <2>2, PathKept DEF Kept2
  <2>4. PathOf(open[n].key)' = PathOf(j)' /\ (HasNode(open[n].key)' <=> HasNode(j)')
    BY <2>1 DEF PathOf, OwnerOf, HasNode
  <2> QED
    BY <2>1, <2>2, <2>3, <2>4
<1>10. Outer' = Append(Outer, Place)
  <2>1. Outer' = [n \in 1 .. l + 1 |-> IF n = l + 1 THEN Place ELSE PathOf(open[n].key)]
    BY <1>6, <1>8, <1>9 DEF Outer
  <2>2. Outer = [n \in 1 .. l |-> PathOf(open[n].key)]
    BY <1>7 DEF Outer
  <2> QED
    BY <1>7, <2>1, <2>2
<1>11. Attached'
  BY <1>1, <1>4, <1>9 DEF Attached
<1>12. Phase = "value" /\ Phase' = "inline" /\ Place' = Rules!Nowhere
  BY <1>1 DEF Phase, Place, Rules!Nowhere
<1>13. Rules!OpenInline
  BY <1>3, <1>4, <1>10, <1>12 DEF Rules!OpenInline
<1> QED
  BY <1>3, <1>11, <1>13 DEF Rules!Next

LEMMA CloseInlineRules == ASSUME Kept2, Attached, CloseInline PROVE Attached' /\ PathsStay /\ Rules!Next
<1>1. mode = "inline" /\ active' = active /\ at' = at /\ at = NULL
  BY DEF CloseInline, Kept2, HeapInv, Between
<1>2. PICK k \in Allocated, c \in Allocated : Closes(k, c)
  BY CloseInlineEffect DEF Kept2, HeapInv
<1>3. mode' = AfterValue(open')
  BY CloseInlineEffect DEF Kept2, HeapInv
<1>4. Nodes' = Nodes /\ Kind' = Kind /\ PathsStay
  BY <1>2, ClosesNodes, KindSame, PathsSame
<1>5. Base' = Base /\ HasNode(active)'
  BY <1>1, <1>4, BaseKept
<1>6. /\ Len(open) \in Nat /\ Len(open) >= 1 /\ Len(open') = Len(open) - 1
      /\ \A n \in 1 .. Len(open') : n \in 1 .. Len(open) /\ open'[n] = open[n]
  BY <1>2, ClosesOpen DEF Kept2, HeapInv
<1>7. ASSUME NEW n \in 1 .. Len(open')
      PROVE  PathOf(open[n].key)' = PathOf(open[n].key) /\ HasNode(open[n].key)'
  <2>1. PICK j : j = open'[n].key /\ j = open[n].key
    BY <1>6
  <2>2. HasNode(j)
    BY <1>6, <2>1 DEF Attached
  <2>3. PathOf(j)' = PathOf(j) /\ HasNode(j)'
    BY <1>4, <2>2, PathKept DEF Kept2
  <2>4. PathOf(open[n].key)' = PathOf(j)' /\ (HasNode(open[n].key)' <=> HasNode(j)')
    BY <2>1 DEF PathOf, OwnerOf, HasNode
  <2> QED
    BY <2>1, <2>3, <2>4
<1>8. PICK l \in Nat : Len(open) = l + 1 /\ Len(open') = l
  BY <1>6
<1>9. Outer' = SubSeq(Outer, 1, Len(Outer) - 1)
  <2>1. Outer' = [n \in 1 .. l |-> PathOf(open[n].key)]
    BY <1>7, <1>8 DEF Outer
  <2>2. Outer = [n \in 1 .. l + 1 |-> PathOf(open[n].key)]
    BY <1>8 DEF Outer
  <2>3. (l + 1) - 1 = l
    BY <1>8
  <2> QED
    BY <2>1, <2>2, <2>3
<1>10. Attached'
  BY <1>1, <1>3, <1>5, <1>7 DEF Attached, AfterValue
<1>11. Phase = "inline" /\ Phase' = AfterValue(open') /\ Place' = Place
  BY <1>1, <1>3 DEF Phase, Place, AfterValue
<1>12. AfterValue(open') = Rules!AfterValue(Outer')
  <2>1. Outer' = <<>> <=> open' = <<>>
    <3>1. open' = <<>> <=> Len(open') = 0
      BY DEF Kept2, HeapInv, IInv, TypeOK
    <3>2. Outer' = <<>> <=> Len(open') = 0
      BY <1>8 DEF Outer
    <3> QED
      BY <3>1, <3>2
  <2> QED
    BY <2>1 DEF AfterValue, Rules!AfterValue
<1>13. Rules!CloseInline
  BY <1>4, <1>5, <1>9, <1>11, <1>12 DEF Rules!CloseInline
<1> QED
  BY <1>4, <1>10, <1>13 DEF Rules!Next

-----------------------------------------------------------------------------
(* The refinement. *)

LEMMA RulesStep == ASSUME Kept2, Attached, [Next]_vars PROVE Attached' /\ PathsStay /\ Simulates
<1>1. CASE UNCHANGED vars
  BY <1>1, StutterRules
<1>2. CASE \/ StartKey \/ StartTable \/ ArrayOverflow \/ SetValue \/ OpenInline
           \/ InlineKey \/ CloseInline \/ NewElement \/ Finish \/ Invalid
           \/ \E id \in Ids : Overflow(id)
  <2>1. Attached' /\ PathsStay /\ Rules!Next
    BY <1>2, FailRules, FinishRules, StartKeyRules, StartTableRules, InlineKeyRules,
       SetValueRules, NewElementRules, OpenInlineRules, CloseInlineRules
  <2> QED
    BY <2>1 DEF Simulates
<1>3. ASSUME NEW id \in Ids, NEW final \in BOOLEAN,
             Descend(id, final) \/ Redefine(id, final) \/ Create(id, final)
      PROVE  Attached' /\ PathsStay /\ Simulates
  <2>1. Attached' /\ PathsStay /\ Rules!Next
    BY <1>3, DescendRules, RedefineRules, CreateRules
  <2> QED
    BY <2>1 DEF Simulates
<1> QED
  BY <1>1, <1>2, <1>3 DEF Next, Segment, Halted

LEMMA InitNodes == ASSUME Init, Charted PROVE Nodes = {RootNode}
<1>1. \A k \in 1 .. MaxKeys : keys[k] = new_key("TABLE")
  BY DEF Init
<1>2. \A k \in 1 .. MaxKeys : keys[k].idx = -1 /\ UsedIds(k) = {}
  BY <1>1, NewKeyType DEF Types, UsedIds, has_subkey
<1>3. open = <<>>
  BY DEF Init
<1>4. ASSUME NEW k \in 1 .. MaxKeys PROVE Near(k) = {}
  <2>1. Containers(k) = {}
    BY <1>3 DEF Containers
  <2>2. Children(k) = {}
    <3>1. 0 .. keys[k].idx = {}
      BY <1>2
    <3>2. ASSUME NEW d PROVE d \notin Children(k)
      BY <1>2, <3>1, ChildrenBoth DEF ASlot, ACell
    <3> QED
      BY <3>2
  <2>3. ASSUME NEW d PROVE d \notin Near(k)
    BY <2>1, <2>2, NearBoth
  <2> QED
    BY <2>3
<1>5. \A m \in Nodes : NearTo[m.key] = {}
  BY <1>4 DEF Charted, Planted, NodeSet, NearTo
<1>6. RootNode \in Nodes
      /\ \A n \in Nodes : n = RootNode \/ \E m \in Nodes : \E d \in NearTo[m.key] :
                                             n = Beneath(m, d)
  BY DEF Charted, Planted
<1> QED
  BY <1>5, <1>6

LEMMA InitRules == ASSUME Init, HeapInv, Charted PROVE Attached /\ Rules!Init
<1>1. Nodes = {RootNode}
  BY InitNodes
<1>2. RootNode.path = <<>> /\ RootNode.key = Root /\ RootNode.kind = "table"
  BY RootNodeFacts DEF Root
<1>3. mode = "statement" /\ active = Root /\ at = NULL /\ open = <<>>
  BY DEF Init
<1>4. Attached
  BY <1>1, <1>2, <1>3 DEF Attached, HasNode
<1>5. Kind = [p \in {<<>>} |-> "table"]
  <2>1. Kind = [p \in {n.path : n \in Nodes} |-> Kind[p]]
    BY DEF Charted
  <2>2. {n.path : n \in Nodes} = {<<>>}
    BY <1>1, <1>2
  <2>3. Kind[<<>>] = "table"
    BY <1>1, <1>2 DEF Charted
  <2> QED
    BY <2>1, <2>2, <2>3
<1>6. Base = <<>>
  <2>1. OwnerOf(Root) = Root
    BY <1>3 DEF OwnerOf
  <2> QED
    BY <1>1, <1>2, <1>3, <2>1 DEF Base, Charted
<1>7. Phase = "statement" /\ Place = Rules!Nowhere /\ Outer = <<>>
  BY <1>3 DEF Phase, Place, Outer, Rules!Nowhere
<1> QED
  BY <1>4, <1>5, <1>6, <1>7 DEF Rules!Init

LEMMA RulesInductive == Spec => [](HeapInv /\ Charted /\ Attached)
<1>1. Init /\ HeapInv /\ Charted => Attached
  BY InitRules
<1>2. Attached /\ [Next]_vars /\ HeapInv /\ Charted /\ HeapInv' /\ Charted' => Attached'
  BY RulesStep DEF Kept2
<1>3. Spec => [](HeapInv /\ Charted)
  BY HeapInductive
<1> QED
  BY <1>1, <1>2, <1>3, PTL DEF Spec

(***************************************************************************)
(* The code implements the rules about paths: whatever the keys, and       *)
(* however deep the tables, arrays and inline tables are nested, each      *)
(* step of parse_keyval, parse_array and parse_inlinetable on the heap of *)
(* keys defines a path that may be defined then, or refuses one that may   *)
(* not, or leaves the definitions as they are.                             *)
(***************************************************************************)
THEOREM KeyTreeObeysTomlRules == Spec => ObeysTomlRules
<1>1. Init /\ HeapInv /\ Charted => Rules!Init
  BY InitRules
<1>2. /\ HeapInv /\ Charted /\ Attached /\ [Next]_vars /\ HeapInv' /\ Charted'
      => [Rules!Next]_(Rules!vars)
  BY RulesStep DEF Kept2, Simulates
<1>3. Spec => [](HeapInv /\ Charted /\ Attached)
  BY RulesInductive
<1>4. Spec => Rules!Init /\ [][Rules!Next]_(Rules!vars)
  BY <1>1, <1>2, <1>3, PTL DEF Spec
<1> QED
  BY <1>4 DEF ObeysTomlRules, Rules!Spec

-----------------------------------------------------------------------------
(* Where the values are. *)

\* A key that has a value is in the tree.
Reached == \A k \in Allocated : keys[k].value # "none" => HasNode(k)

LEMMA StepReached ==
    ASSUME Kept2, Attached, Valued, Reached, [Next]_vars
    PROVE  /\ Reached'
           /\ \A k \in Allocated : keys[k].value # "none" =>
                 /\ keys'[k].value = keys[k].value
                 /\ \E m \in Nodes : \E n \in Nodes' :
                       m.key = k /\ n.key = k /\ n.path = m.path
<1>1. Kept
  BY StepKeeps DEF Kept2, HeapInv
<1>2. PathsStay
  BY RulesStep
<1>3. ASSUME NEW k \in Allocated, HasNode(k)
      PROVE  /\ HasNode(k)'
             /\ \E m \in Nodes : \E n \in Nodes' : m.key = k /\ n.key = k /\ n.path = m.path
  <2>1. PICK m \in Nodes : m.key = k
    BY <1>3 DEF HasNode
  <2>2. PICK n \in Nodes' : n.key = k /\ n.path = m.path
    BY <1>2, <2>1 DEF PathsStay
  <2>3. HasNode(k)'
    BY <2>2 DEF HasNode
  <2> QED
    BY <2>1, <2>2, <2>3
<1>4. ASSUME NEW k \in Allocated' , keys'[k].value # "none" PROVE HasNode(k)'
  <2>1. k \in Allocated /\ (Stays(k) \/ Gets(k))
    BY <1>1, <1>4 DEF Kept
  <2>2. CASE keys[k].value # "none"
    BY <1>3, <2>1, <2>2 DEF Reached
  <2>3. CASE keys[k].value = "none"
    <3>1. k = at /\ mode \in {"element", "value"}
      BY <1>4, <2>1, <2>3 DEF Stays, Gets
    <3> QED
      BY <1>3, <2>1, <3>1 DEF Attached
  <2> QED
    BY <2>2, <2>3
<1>5. Reached'
  BY <1>4 DEF Reached
<1>6. \A k \in Allocated : keys[k].value # "none" => keys'[k].value = keys[k].value
  BY <1>1, KeptValued
<1> QED
  BY <1>3, <1>5, <1>6 DEF Reached

(***************************************************************************)
(* A key that has a value keeps it, where it is: whatever the document, no *)
(* statement that toml_load accepts defines a key a second time, nor takes *)
(* a value out of the tree or to another path.                             *)
(***************************************************************************)
THEOREM NoRedefinition == Spec => ValuesKept
<1>1. Init => Reached
  BY NewKeyType DEF Init, Allocated, Types, Reached
<1>2. /\ HeapInv /\ Charted /\ Attached /\ Valued /\ Reached /\ [Next]_vars
      /\ HeapInv' /\ Charted'
      => /\ Reached'
         /\ [<<keys, open>>' # <<keys, open>> =>
                \A k \in Allocated : keys[k].value # "none" =>
                   /\ keys'[k].value = keys[k].value
                   /\ \E m \in Nodes : \E n \in Nodes' :
                         m.key = k /\ n.key = k /\ n.path = m.path]_vars
  BY StepReached DEF Kept2
<1>3. Spec => [](HeapInv /\ Charted /\ Attached) /\ [](IInv /\ Valued)
  BY RulesInductive, ValuedInductive
<1> QED
  BY <1>1, <1>2, <1>3, PTL DEF Spec, ValuesKept

-----------------------------------------------------------------------------
(* What the rules promise holds of the code. *)

\* Sealing is Rules, with the theorem about it.
Sealing == INSTANCE TomlRulesProofs WITH kind <- Kind, phase <- Phase, base <- Base,
                                         at <- Place, open <- Outer

LEMMA SameTables == ASSUME NEW p PROVE Rules!Tables(p) = Sealing!Tables(p)
  BY DEF Rules!Tables, Sealing!Tables, Rules!IsPrefix, Sealing!IsPrefix, Rules!Cardinality,
         Sealing!Cardinality, Rules!IsFiniteSet, Sealing!IsFiniteSet

LEMMA SameHere == ASSUME NEW p PROVE Rules!Here(p) = Sealing!Here(p)
  BY SameTables DEF Rules!Here, Sealing!Here

LEMMA SameRules ==
    /\ Rules!Init <=> Sealing!Init
    /\ [Rules!Next]_(Rules!vars) => [Sealing!Next]_(Sealing!vars)
<1>1. Rules!Init <=> Sealing!Init
  BY DEF Rules!Init, Sealing!Init, Rules!Nowhere, Sealing!Nowhere
<1>2. Rules!vars = Sealing!vars /\ Rules!Forms = Sealing!Forms
      /\ Rules!Nowhere = Sealing!Nowhere
  BY DEF Rules!vars, Sealing!vars, Rules!Forms, Sealing!Forms, Rules!Nowhere, Sealing!Nowhere
<1>3. \A p, k : Rules!With(p, k) = Sealing!With(p, k)
  BY DEF Rules!With, Sealing!With
<1>4. \A p : Rules!Defined(p) <=> Sealing!Defined(p)
  BY DEF Rules!Defined, Sealing!Defined
<1>5. \A f : \A b \in BOOLEAN : Rules!Tolerated(f, b) = Sealing!Tolerated(f, b)
                                /\ Rules!NewKind(f, b) = Sealing!NewKind(f, b)
  BY DEF Rules!Tolerated, Sealing!Tolerated, Rules!NewKind, Sealing!NewKind
<1>6. \A s : Rules!AfterValue(s) = Sealing!AfterValue(s)
  BY DEF Rules!AfterValue, Sealing!AfterValue
<1>7. \A form : Rules!Begin(form) => Sealing!Begin(form)
  BY DEF Rules!Begin, Sealing!Begin
<1>8. \A id : \A final \in BOOLEAN : Rules!Define(id, final) => Sealing!Define(id, final)
  BY <1>2, <1>3, <1>4, <1>5, SameHere DEF Rules!Define, Sealing!Define
<1>9. \A id : \A final \in BOOLEAN : Rules!Redefine(id, final) => Sealing!Redefine(id, final)
  BY <1>2, <1>4, <1>5, SameHere DEF Rules!Redefine, Sealing!Redefine
<1>10. Rules!AddTable => Sealing!AddTable
  BY <1>2, <1>3, SameTables DEF Rules!AddTable, Sealing!AddTable
<1>11. /\ Rules!SetValue => Sealing!SetValue
       /\ Rules!OpenInline => Sealing!OpenInline
       /\ Rules!InlineKey => Sealing!InlineKey
       /\ Rules!CloseInline => Sealing!CloseInline
       /\ Rules!Finish => Sealing!Finish
       /\ Rules!Fail => Sealing!Fail
  BY <1>2, <1>6 DEF Rules!SetValue, Sealing!SetValue, Rules!OpenInline, Sealing!OpenInline,
     Rules!InlineKey, Sealing!InlineKey, Rules!CloseInline, Sealing!CloseInline,
     Rules!Finish, Sealing!Finish, Rules!Fail, Sealing!Fail
<1>12. Rules!Next => Sealing!Next
  BY <1>2, <1>7, <1>8, <1>9, <1>10, <1>11 DEF Rules!Next, Sealing!Next
<1>13. (Rules!vars)' = (Sealing!vars)'
  BY DEF Rules!vars, Sealing!vars
<1> QED
  BY <1>1, <1>2, <1>12, <1>13

LEMMA SameSealing ==
    [Sealing!Seals]_(Sealing!vars) =>
       [LET now  == Kind
            then == Kind'
        IN  \A p \in {p \in DOMAIN now : Rules!Closed(p)} :
               \A q \in DOMAIN now \cup DOMAIN then : Rules!IsPrefix(p, q) =>
                  q \in DOMAIN now \cap DOMAIN then /\ then[q] = now[q]]_(Rules!vars)
<1>1. Rules!vars = Sealing!vars
  BY DEF Rules!vars, Sealing!vars
<1>2. \A p, q : Rules!IsPrefix(p, q) <=> Sealing!IsPrefix(p, q)
  BY DEF Rules!IsPrefix, Sealing!IsPrefix
<1>3. \A p : Rules!Closed(p) <=> Sealing!Closed(p)
  BY SameTables DEF Rules!Closed, Sealing!Closed
<1>4. (Rules!vars)' = (Sealing!vars)'
  BY DEF Rules!vars, Sealing!vars
<1> QED
  BY <1>1, <1>2, <1>3, <1>4 DEF Sealing!Seals

(***************************************************************************)
(* The code seals what is closed: no later statement adds a key below an   *)
(* inline table that has been closed, or below an earlier table of an      *)
(* array of tables, and none redefines a key there, whichever pointers     *)
(* has_subkey follows to get there.                                        *)
(***************************************************************************)
THEOREM KeyTreeSealed == Spec => ClosedSealed
<1>1. Spec => Rules!Init /\ [][Rules!Next]_(Rules!vars)
  BY KeyTreeObeysTomlRules DEF ObeysTomlRules, Rules!Spec
<1>2. Rules!Init => Sealing!Init
  BY SameRules
<1>3. [Rules!Next]_(Rules!vars) => [Sealing!Next]_(Sealing!vars)
  BY SameRules
<1>4. Sealing!Init => (Sealing!Going => Sealing!SealInv)
  BY Sealing!InitSeals
<1>5. (Sealing!Going => Sealing!SealInv) /\ [Sealing!Next]_(Sealing!vars)
         => (Sealing!Going' => Sealing!SealInv') /\ [Sealing!Seals]_(Sealing!vars)
  BY Sealing!StepSeals
<1>6. Spec => [][Sealing!Seals]_(Sealing!vars)
  BY <1>1, <1>2, <1>3, <1>4, <1>5, PTL
<1> QED
  BY <1>6, SameSealing, PTL DEF ClosedSealed, Rules!ClosedSealed

-----------------------------------------------------------------------------
(***************************************************************************)
(* toml_get_key, one key after the other.                                  *)
(***************************************************************************)

\* Inline tables are open only where a value is read.
Outside == mode \in {"statement", "table", "arraytable", "element", "done"} => open = <<>>

LEMMA SegmentOutside ==
    ASSUME Outside, NEW id \in Ids, NEW final \in BOOLEAN,
           Descend(id, final) \/ Create(id, final) \/ Redefine(id, final) \/ Overflow(id)
    PROVE  Outside'
<1>1. ASSUME NEW k, Arrive(k, final), open' = open, mode \in Walking PROVE Outside'
  BY <1>1 DEF Arrive, Walking, Outside
<1>2. ASSUME Descend(id, final) PROVE Outside'
  BY <1>1, <1>2 DEF Descend
<1>3. ASSUME Create(id, final) PROVE Outside'
  BY <1>1, <1>3 DEF Create
<1>4. ASSUME Redefine(id, final) \/ Overflow(id) PROVE Outside'
  BY <1>4 DEF Redefine, Overflow, Outside
<1> QED
  BY <1>2, <1>3, <1>4

LEMMA OutsideStep == ASSUME Outside, [Next]_vars PROVE Outside'
<1>1. CASE Segment
  BY <1>1, SegmentOutside DEF Segment
<1>2. CASE StartKey \/ StartTable \/ Finish \/ Invalid
  BY <1>2 DEF StartKey, StartTable, Finish, Invalid, Outside
<1>3. CASE NewElement \/ ArrayOverflow
  BY <1>3 DEF NewElement, ArrayOverflow, Outside
<1>4. CASE SetValue \/ OpenInline \/ InlineKey \/ CloseInline
  <2>1. CASE SetValue
    BY <2>1 DEF SetValue, AfterValue, Outside
  <2>2. CASE OpenInline \/ InlineKey
    BY <2>2 DEF OpenInline, InlineKey, Outside
  <2>3. CASE CloseInline
    BY <2>3 DEF CloseInline, AfterValue, Outside
  <2> QED
    BY <1>4, <2>1, <2>2, <2>3
<1>5. CASE Halted \/ UNCHANGED vars
  BY <1>5 DEF Halted, vars, Outside
<1> QED
  BY <1>1, <1>2, <1>3, <1>4, <1>5 DEF Next

LEMMA OutsideHolds == Spec => []Outside
<1>1. Init => Outside
  BY DEF Init, Outside
<1>2. Outside /\ [Next]_vars => Outside'
  BY OutsideStep
<1> QED
  BY <1>1, <1>2, PTL DEF Spec

\* A path is walked from its start: what it leads to follows from where the
\* path without its last identifier leads to.
Got(f, path, name) ==
    f = [i \in 0 .. Len(path) |->
            IF i = 0 THEN Root ELSE toml_get_key(f[i - 1], path[i], name)]

LEMMA WalkExists ==
    ASSUME NEW path, Len(path) \in Nat, NEW name
    PROVE  \E f : Got(f, path, name)
<1> DEFINE Turn(f, i) == IF i = 0 THEN Root ELSE toml_get_key(f[i - 1], path[i], name)
           Right(f, n) == \A i \in 0 .. n : f[i] = Turn(f, i)
           T == {n \in Nat : \E f : Right(f, n)}
<1>1. 0 \in T
  <2>1. Right([i \in 0 .. 0 |-> Root], 0)
    OBVIOUS
  <2> HIDE DEF Right
  <2> QED
    BY <2>1
<1>2. ASSUME NEW n \in Nat, n \in T PROVE n + 1 \in T
  <2>1. PICK f : Right(f, n)
    <3> HIDE DEF Right
    <3> QED
      BY <1>2
  <2>2. PICK last : last = toml_get_key(f[n], path[n + 1], name)
    OBVIOUS
  <2>3. PICK g : g = [i \in 0 .. n + 1 |-> IF i = n + 1 THEN last ELSE f[i]]
    OBVIOUS
  <2>4. ASSUME NEW i \in 0 .. n + 1 PROVE g[i] = Turn(g, i)
    <3>1. CASE i = n + 1
      <4>1. g[i] = last /\ g[i - 1] = f[n] /\ i # 0
        BY <2>3, <3>1
      <4> QED
        BY <2>2, <3>1, <4>1
    <3>2. CASE i = 0
      <4>1. g[i] = f[i] /\ f[i] = Turn(f, i)
        BY <2>1, <2>3, <3>2
      <4> QED
        BY <3>2, <4>1
    <3>3. CASE i # 0 /\ i # n + 1
      <4>1. i \in 0 .. n /\ i - 1 \in 0 .. n + 1 /\ i - 1 # n + 1
        BY <3>3
      <4>2. g[i] = f[i] /\ g[i - 1] = f[i - 1]
        BY <2>3, <3>3, <4>1
      <4>3. f[i] = Turn(f, i)
        BY <2>1, <4>1
      <4> QED
        BY <3>3, <4>2, <4>3
    <3> QED
      BY <3>1, <3>2, <3>3
  <2>5. Right(g, n + 1)
    BY <2>4
  <2> HIDE DEF Right
  <2> QED
    BY <2>5
<1>3. Len(path) \in T
  <2>1. Nat \subseteq T
    <3> HIDE DEF T
    <3> QED
      BY <1>1, <1>2, NatInducts
  <2> QED
    BY <2>1
<1>4. PICK f : Right(f, Len(path))
  <2> HIDE DEF Right
  <2> QED
    BY <1>3
<1>5. PICK g : g = [i \in 0 .. Len(path) |-> f[i]]
  OBVIOUS
<1>6. ASSUME NEW i \in 0 .. Len(path) PROVE g[i] = Turn(g, i)
  <2>1. i # 0 => i - 1 \in 0 .. Len(path)
    OBVIOUS
  <2>2. g[i] = f[i] /\ (i # 0 => g[i - 1] = f[i - 1])
    BY <1>5, <2>1
  <2>3. f[i] = Turn(f, i)
    BY <1>4
  <2> QED
    BY <2>2, <2>3
<1>7. g = [i \in 0 .. Len(path) |-> Turn(g, i)]
  BY <1>5, <1>6
<1> QED
  BY <1>7 DEF Got

LEMMA PathWalked ==
    ASSUME NEW path, Len(path) \in Nat, NEW name
    PROVE  \E f : Got(f, path, name) /\ GetPath(path, name) = f[Len(path)]
<1> DEFINE got == CHOOSE f : f = [i \in 0 .. Len(path) |->
                     IF i = 0 THEN Root ELSE toml_get_key(f[i - 1], path[i], name)]
<1>1. \E f : f = [i \in 0 .. Len(path) |->
                     IF i = 0 THEN Root ELSE toml_get_key(f[i - 1], path[i], name)]
  BY WalkExists DEF Got
<1>2. got = [i \in 0 .. Len(path) |->
                     IF i = 0 THEN Root ELSE toml_get_key(got[i - 1], path[i], name)]
  BY <1>1, Zenon
<1>3. GetPath(path, name) = got[Len(path)]
  BY Zenon DEF GetPath
<1> HIDE DEF got
<1> QED
  BY <1>2, <1>3 DEF Got

LEMMA GetPathIs ==
    ASSUME NEW name
    PROVE  /\ GetPath(<<>>, name) = Root
           /\ \A p \in Seq(Steps) : \A s \in Steps :
                 GetPath(Append(p, s), name) = toml_get_key(GetPath(p, name), s, name)
<1>1. GetPath(<<>>, name) = Root
  <2>1. PICK f : Got(f, <<>>, name) /\ GetPath(<<>>, name) = f[Len(<<>>)]
    BY PathWalked
  <2> QED
    BY <2>1 DEF Got
<1>2. ASSUME NEW p \in Seq(Steps), NEW s \in Steps
      PROVE  GetPath(Append(p, s), name) = toml_get_key(GetPath(p, name), s, name)
  <2>0. PICK n \in Nat : n = Len(p)
    OBVIOUS
  <2>1. PICK q : q = Append(p, s)
    OBVIOUS
  <2>2. Len(q) = n + 1 /\ q[n + 1] = s /\ \A i \in 1 .. n : q[i] = p[i]
    BY <2>0, <2>1
  <2>3. PICK f : Got(f, p, name) /\ GetPath(p, name) = f[n]
    BY <2>0, PathWalked
  <2>4. PICK g : Got(g, q, name) /\ GetPath(q, name) = g[n + 1]
    BY <2>2, PathWalked
  <2>5. \A i \in 0 .. n : f[i] = IF i = 0 THEN Root ELSE toml_get_key(f[i - 1], p[i], name)
    BY <2>0, <2>3 DEF Got
  <2>6. \A i \in 0 .. n + 1 :
           g[i] = IF i = 0 THEN Root ELSE toml_get_key(g[i - 1], q[i], name)
    BY <2>2, <2>4 DEF Got
  <2> DEFINE T == {i \in Nat : i > n \/ g[i] = f[i]}
  <2>7. 0 \in T
    <3>1. 0 \in 0 .. n /\ 0 \in 0 .. n + 1
      OBVIOUS
    <3>2. f[0] = Root
      BY <2>5, <3>1
    <3>3. g[0] = Root
      BY <2>6, <3>1
    <3> QED
      BY <3>2, <3>3
  <2>8. ASSUME NEW i \in Nat, i \in T PROVE i + 1 \in T
    <3>1. CASE i + 1 > n
      BY <3>1
    <3>2. CASE i + 1 <= n
      <4>1. i + 1 \in 0 .. n /\ i + 1 \in 0 .. n + 1 /\ i + 1 \in 1 .. n
            /\ i + 1 # 0 /\ (i + 1) - 1 = i /\ ~(i > n)
        BY <3>2
      <4>2. g[i] = f[i]
        BY <2>8, <4>1
      <4>3. /\ f[i + 1] = toml_get_key(f[i], p[i + 1], name)
            /\ g[i + 1] = toml_get_key(g[i], q[i + 1], name)
        BY <2>5, <2>6, <4>1
      <4> QED
        BY <2>2, <4>1, <4>2, <4>3
    <3> QED
      BY <3>1, <3>2
  <2>9. g[n] = f[n]
    <3>1. Nat \subseteq T
      <4> HIDE DEF T
      <4> QED
        BY <2>7, <2>8, NatInducts
    <3> QED
      BY <3>1
  <2>10. g[n + 1] = toml_get_key(g[n], q[n + 1], name)
    BY <2>6
  <2> QED
    BY <2>1, <2>2, <2>3, <2>4, <2>9, <2>10
<1> QED
  BY <1>1, <1>2

\* An identifier is no index, so that a path tells maps from arrays.
NoIndices == Ids \cap Indices = {}

\* A loaded tree, of which no part is still in a container.
Complete == HeapInv /\ Charted /\ open = <<>> /\ NoIndices

\* What is right below a node is what its key points to.
LEMMA Subkeys ==
    ASSUME Complete, NEW m \in Nodes, NEW id \in Ids
    PROVE  /\ has_subkey(m.key, id) # NULL =>
                 \E n \in Nodes : n.path = Append(m.path, id) /\ n.key = has_subkey(m.key, id)
           /\ \A n \in Nodes : n.path = Append(m.path, id) =>
                 n.key = has_subkey(m.key, id) /\ n.key # NULL
<1>1. HeapInv /\ Charted /\ id \in Steps /\ \A k : Containers(k) = {}
  BY DEF Complete, Steps, Containers
<1>2. m \in NodeSet /\ m.path \in Seq(Steps) /\ m.key \in 1 .. MaxKeys
  BY <1>1, KindFacts DEF NodeSet
<1>3. ASSUME has_subkey(m.key, id) # NULL
      PROVE  \E n \in Nodes : n.path = Append(m.path, id) /\ n.key = has_subkey(m.key, id)
  <2>1. PICK d : d = Node(<<id>>, has_subkey(m.key, id), KindOf(has_subkey(m.key, id)))
    OBVIOUS
  <2>2. d \in Near(m.key)
    BY <1>3, <2>1, NearIs DEF UsedIds
  <2>3. Beneath(m, d) \in Nodes /\ d \in NodeSet
    BY <1>1, <1>2, <2>2 DEF Charted, Planted, Downward, NearTo
  <2>4. Beneath(m, d).path = m.path \o <<id>> /\ Beneath(m, d).key = has_subkey(m.key, id)
    BY <1>2, <2>1, <2>3, BeneathFacts DEF Node
  <2>5. m.path \o <<id>> = Append(m.path, id)
    BY <1>1, <1>2, PathsGrow
  <2> QED
    BY <2>3, <2>4, <2>5
<1>4. ASSUME NEW n \in Nodes, n.path = Append(m.path, id)
      PROVE  n.key = has_subkey(m.key, id) /\ n.key # NULL
  <2>1. n # RootNode
    BY <1>2, <1>4, RootNodeFacts
  <2>2. PICK l, r, d, c : l \in Nodes /\ r \in Steps /\ PointedTo(n, l, r, d, c)
    BY <1>1, <2>1, NodePointer
  <2>3. l.path = m.path /\ r = id
    <3>1. PICK p \in Seq(Steps), o \in Seq(Steps), s \in Steps :
                  p = l.path /\ o = m.path /\ s = id
      BY <1>1, <1>2, <2>2, KindFacts
    <3>2. Append(p, r) = Append(o, s)
      BY <1>4, <2>2, <3>1 DEF PointedTo
    <3>3. p = o /\ r = s
      BY <2>2, <3>2, AppendInjective
    <3> QED
      BY <3>1, <3>3
  <2>4. l = m
    BY <1>1, <2>2, <2>3 DEF Charted
  <2>5. c = m.key /\ d.path = <<id>> /\ n.key = d.key /\ (BySlot(c, d) \/ ByCell(c, d))
    BY <1>1, <2>2, <2>3, <2>4 DEF PointedTo
  <2>6. BySlot(m.key, d)
    BY <2>5 DEF ByCell, Node, Complete, NoIndices
  <2> QED
    BY <2>5, <2>6 DEF BySlot, Node
<1> QED
  BY <1>3, <1>4

\* The id of a key is the last identifier of its path.
LEMMA IdIs ==
    ASSUME Complete, NEW n \in Nodes, NEW name
    PROVE  /\ n = RootNode => IdOf(n.key, name) = name
           /\ \A l \in Nodes : \A s \in Ids :
                 n.path = Append(l.path, s) => IdOf(n.key, name) = s
<1>1. n = RootNode => IdOf(n.key, name) = name
  BY RootNodeFacts DEF IdOf, Root
<1>2. ASSUME NEW l \in Nodes, NEW s \in Ids, n.path = Append(l.path, s)
      PROVE  IdOf(n.key, name) = s
  <2>1. n.key = has_subkey(l.key, s) /\ n.key # NULL
    BY <1>2, Subkeys
  <2>2. HeapInv /\ Charted
    BY DEF Complete
  <2>3. l.key \in Allocated
    BY <2>2 DEF Charted, Loose
  <2>4. n.key # Root
    <3>1. l.path \in Seq(Steps) /\ s \in Steps
      BY <2>2, KindFacts DEF Steps
    <3>2. n # RootNode
      BY <1>2, <3>1, RootNodeFacts
    <3>3. RootNode \in Nodes
      BY <2>2 DEF Charted, Planted
    <3> QED
      BY <2>2, <3>2, <3>3, RootNodeFacts DEF Charted, Root
  <2>5. <<l.key, s>> \in Slots(n.key)
    BY <2>1, <2>3 DEF Slots
  <2>6. ASSUME NEW t \in Slots(n.key) PROVE t = <<l.key, s>>
    <3>1. t \in Allocated \X Ids /\ has_subkey(t[1], t[2]) = n.key
      BY DEF Slots
    <3>2. t[1] = l.key /\ t[2] = s
      BY <2>1, <2>2, <2>3, <3>1 DEF HeapInv, ShapeInv, Unshared
    <3> QED
      BY <3>1, <3>2
  <2>7. (CHOOSE t \in Slots(n.key) : TRUE) = <<l.key, s>>
    BY <2>5, <2>6
  <2>8. IdOf(n.key, name) = (CHOOSE t \in Slots(n.key) : TRUE)[2]
    BY <2>4, <2>5 DEF IdOf
  <2>9. IdOf(n.key, name) = <<l.key, s>>[2]
    BY <2>7, <2>8, Zenon
  <2> QED
    BY <2>9
<1> QED
  BY <1>1, <1>2

LEMMA RepeatsAre ==
    ASSUME NEW name \in Ids, NEW p \in Seq(Ids), NEW s \in Ids
    PROVE  /\ ~Repeats(<<name>> \o <<>>)
           /\ Repeats(<<name>> \o Append(p, s)) <=>
                 Repeats(<<name>> \o p) \/ (IF p = <<>> THEN name ELSE p[Len(p)]) = s
<1>1. ~Repeats(<<name>> \o <<>>)
  BY DEF Repeats
<1>2. PICK n \in Nat : n = Len(p)
  OBVIOUS
<1> <<name>> \in Seq(Ids) /\ Append(p, s) \in Seq(Ids)
  OBVIOUS
<1>3. PICK q \in Seq(Ids) : q = <<name>> \o p
  <2>1. <<name>> \o p \in Seq(Ids)
    BY ConcatProperties
  <2> QED
    BY <2>1
<1>4. Len(q) = n + 1 /\ q[n + 1] = IF p = <<>> THEN name ELSE p[Len(p)]
  BY <1>2, <1>3
<1>5. PICK r \in Seq(Ids) : r = <<name>> \o Append(p, s)
  <2>1. <<name>> \o Append(p, s) \in Seq(Ids)
    BY ConcatProperties
  <2> QED
    BY <2>1
<1>6. r = Append(q, s)
  BY <1>2, <1>3, <1>5
<1>7. Len(r) = n + 2 /\ r[n + 2] = s /\ \A i \in 1 .. n + 1 : r[i] = q[i]
  BY <1>4, <1>6
<1>8. Repeats(r) <=> Repeats(q) \/ q[n + 1] = s
  <2>1. Repeats(r) <=> \E i \in 1 .. n + 1 : r[i] = r[i + 1]
    BY <1>7 DEF Repeats
  <2>2. Repeats(q) <=> \E i \in 1 .. n : q[i] = q[i + 1]
    BY <1>4 DEF Repeats
  <2>3. r[n + 1] = q[n + 1] /\ r[(n + 1) + 1] = s
    BY <1>7
  <2>4. \A i \in 1 .. n : i \in 1 .. n + 1 /\ r[i] = q[i] /\ r[i + 1] = q[i + 1]
    BY <1>7
  <2>5. \A i \in 1 .. n + 1 : i \in 1 .. n \/ i = n + 1
    OBVIOUS
  <2>6. n + 1 \in 1 .. n + 1
    OBVIOUS
  <2> QED
    BY <2>1, <2>2, <2>3, <2>4, <2>5, <2>6
<1> QED
  BY <1>1, <1>3, <1>4, <1>5, <1>8

\* A path of identifiers leads to a key of its own, or to one that is nearer to
\* the root.
Leads(n, name) ==
    /\ ~Repeats(<<name>> \o n.path) => GetPath(n.path, name) = n.key
    /\ Repeats(<<name>> \o n.path) =>
          \/ GetPath(n.path, name) = NULL
          \/ \E m \in Named : /\ Len(m.path) < Len(n.path)
                              /\ GetPath(n.path, name) = m.key

LEMMA NamedAre ==
    ASSUME Complete, NEW n
    PROVE  n \in Named <=> n \in Nodes /\ n.path \in Seq(Ids)
<1>1. Charted
  BY DEF Complete
<1>2. ASSUME n \in Nodes PROVE Range(n.path) \subseteq Ids <=> n.path \in Seq(Ids)
  <2>1. PICK p \in Seq(Steps) : p = n.path
    BY <1>1, <1>2, KindFacts
  <2>2. Range(p) = {p[i] : i \in 1 .. Len(p)}
    BY DEF Range
  <2>3. ASSUME \A i \in 1 .. Len(p) : p[i] \in Ids PROVE p \in Seq(Ids)
    <3>1. p = [i \in 1 .. Len(p) |-> p[i]] /\ Len(p) \in Nat
      OBVIOUS
    <3>2. p \in [1 .. Len(p) -> Ids]
      BY <2>3, <3>1
    <3> QED
      BY <3>1, <3>2
  <2>4. ASSUME p \in Seq(Ids) PROVE \A i \in 1 .. Len(p) : p[i] \in Ids
    BY <2>4
  <2> QED
    BY <2>1, <2>2, <2>3, <2>4
<1> QED
  BY <1>2 DEF Named

LEMMA LeadsOn ==
    ASSUME Complete, NEW name \in Ids, NEW n \in Named, NEW l \in Named, NEW s \in Ids,
           n.path = Append(l.path, s), Leads(l, name)
    PROVE  Leads(n, name)
<1>1. n \in Nodes /\ l \in Nodes /\ l.path \in Seq(Ids) /\ n.path \in Seq(Ids) /\ s \in Steps
  BY NamedAre DEF Steps
<1>2. HeapInv /\ Charted
  BY DEF Complete
<1>3. l.path \in Seq(Steps) /\ Len(l.path) \in Nat /\ Len(n.path) = Len(l.path) + 1
  BY <1>1, <1>2, KindFacts
<1>4. PICK e : e = IF l.path = <<>> THEN name ELSE l.path[Len(l.path)]
  OBVIOUS
<1>5. Repeats(<<name>> \o n.path) <=> Repeats(<<name>> \o l.path) \/ e = s
  BY <1>1, <1>4, RepeatsAre
<1>6. PICK k : k = GetPath(l.path, name)
  OBVIOUS
<1>7. GetPath(n.path, name) = toml_get_key(k, s, name)
  BY <1>1, <1>3, <1>6, GetPathIs
<1>8. IdOf(l.key, name) = e
  <2>1. CASE l.path = <<>>
    <3>1. RootNode \in Nodes
      BY <1>2 DEF Charted, Planted
    <3>2. l = RootNode
      BY <1>1, <1>2, <2>1, <3>1, RootNodeFacts DEF Charted
    <3> QED
      BY <1>1, <1>4, <2>1, <3>2, IdIs
  <2>2. CASE l.path # <<>>
    <3>1. l # RootNode
      BY <2>2, RootNodeFacts
    <3>2. PICK a, r, d, c : a \in Nodes /\ r \in Steps /\ PointedTo(l, a, r, d, c)
      BY <1>1, <1>2, <3>1, NodePointer
    <3>3. PICK p \in Seq(Steps) : p = a.path
      BY <1>2, <3>2, KindFacts
    <3>4. l.path = Append(p, r)
      BY <3>2, <3>3 DEF PointedTo
    <3>5. l.path[Len(l.path)] = r
      BY <3>2, <3>3, <3>4
    <3>6. r \in Ids
      <4>1. Len(l.path) \in 1 .. Len(l.path)
        BY <1>1, <2>2
      <4> QED
        BY <1>1, <3>5, <4>1
    <3>7. l.path = Append(a.path, r)
      BY <3>3, <3>4
    <3>8. IdOf(l.key, name) = r
      <4>1. l \in Nodes
        BY <1>1
      <4>2. \A m \in Nodes : \A t \in Ids : l.path = Append(m.path, t)
                                            => IdOf(l.key, name) = t
        BY <4>1, IdIs
      <4> QED
        BY <3>2, <3>6, <3>7, <4>2
    <3> QED
      BY <1>4, <2>2, <3>5, <3>8
  <2> QED
    BY <2>1, <2>2
<1>9. ASSUME NEW m \in Named, k = m.key
      PROVE  \/ toml_get_key(k, s, name) = m.key
             \/ toml_get_key(k, s, name) = NULL
             \/ \E o \in Named : Len(o.path) = Len(m.path) + 1 /\ toml_get_key(k, s, name) = o.key
  <2>1. m \in Nodes /\ m.path \in Seq(Ids)
    BY NamedAre
  <2>2. CASE k = NULL \/ IdOf(k, name) = s
    BY <1>9, <2>2 DEF toml_get_key
  <2>3. CASE k # NULL /\ IdOf(k, name) # s
    <3>1. toml_get_key(k, s, name) = has_subkey(k, s)
      BY <2>3 DEF toml_get_key
    <3>2. CASE has_subkey(k, s) # NULL
      <4>1. PICK o \in Nodes : o.path = Append(m.path, s) /\ o.key = has_subkey(k, s)
        BY <1>9, <2>1, <3>2, Subkeys
      <4>2. o.path \in Seq(Ids) /\ Len(o.path) = Len(m.path) + 1
        BY <2>1, <4>1
      <4>3. o \in Named
        BY <4>2, NamedAre
      <4> QED
        BY <3>1, <4>1, <4>2, <4>3
    <3> QED
      BY <3>1, <3>2
  <2> QED
    BY <2>2, <2>3
<1>10. CASE ~Repeats(<<name>> \o l.path)
  <2>1. k = l.key
    BY <1>6, <1>10 DEF Leads
  <2>2. k # NULL
    BY <1>1, <1>2, <2>1 DEF Charted, Loose, Allocated, NULL
  <2>3. CASE e = s
    <3>1. toml_get_key(k, s, name) = l.key
      BY <1>8, <2>1, <2>2, <2>3 DEF toml_get_key
    <3>2. Len(l.path) < Len(n.path)
      BY <1>3
    <3> QED
      BY <1>5, <1>7, <2>3, <3>1, <3>2 DEF Leads
  <2>4. CASE e # s
    <3>1. toml_get_key(k, s, name) = has_subkey(k, s)
      BY <1>8, <2>1, <2>2, <2>4 DEF toml_get_key
    <3>2. n.key = has_subkey(k, s)
      BY <1>1, <2>1, Subkeys
    <3> QED
      BY <1>5, <1>7, <1>10, <2>4, <3>1, <3>2 DEF Leads
  <2> QED
    BY <2>3, <2>4
<1>11. CASE Repeats(<<name>> \o l.path)
  <2>1. Repeats(<<name>> \o n.path)
    BY <1>5, <1>11
  <2>2. CASE k = NULL
    <3>1. toml_get_key(k, s, name) = NULL
      BY <2>2 DEF toml_get_key
    <3> QED
      BY <1>7, <2>1, <3>1 DEF Leads
  <2>3. ASSUME NEW m \in Named, Len(m.path) < Len(l.path), k = m.key PROVE Leads(n, name)
    <3>1. Len(m.path) \in Nat
      BY NamedAre
    <3>2. Len(m.path) < Len(n.path) /\ Len(m.path) + 1 < Len(n.path)
      BY <1>3, <2>3, <3>1
    <3> QED
      BY <1>7, <1>9, <2>1, <2>3, <3>2 DEF Leads
  <2> QED
    BY <1>6, <1>11, <2>2, <2>3 DEF Leads
<1> QED
  BY <1>10, <1>11

LEMMA AllLead == ASSUME Complete, NEW name \in Ids PROVE \A n \in Named : Leads(n, name)
<1>1. HeapInv /\ Charted
  BY DEF Complete
<1> DEFINE T == {i \in Nat : \A n \in Named : Len(n.path) = i => Leads(n, name)}
<1>2. 0 \in T
  <2> SUFFICES ASSUME NEW n \in Named, Len(n.path) = 0 PROVE Leads(n, name)
    OBVIOUS
  <2>1. n \in Nodes /\ n.path \in Seq(Ids)
    BY NamedAre
  <2>2. n.path = <<>>
    BY <2>1
  <2>3. RootNode \in Nodes
    BY <1>1 DEF Charted, Planted
  <2>4. n = RootNode
    BY <1>1, <2>1, <2>2, <2>3, RootNodeFacts DEF Charted
  <2>5. GetPath(n.path, name) = n.key
    BY <2>2, <2>4, GetPathIs, RootNodeFacts DEF Root
  <2>6. ~Repeats(<<name>> \o n.path)
    BY <2>1, <2>2, RepeatsAre
  <2> QED
    BY <2>5, <2>6 DEF Leads
<1>3. ASSUME NEW i \in Nat, i \in T PROVE i + 1 \in T
  <2> SUFFICES ASSUME NEW n \in Named, Len(n.path) = i + 1 PROVE Leads(n, name)
    OBVIOUS
  <2>1. n \in Nodes /\ n.path \in Seq(Ids)
    BY NamedAre
  <2>2. n # RootNode
    BY RootNodeFacts
  <2>3. PICK l, s, d, c : l \in Nodes /\ s \in Steps /\ PointedTo(n, l, s, d, c)
    BY <1>1, <2>1, <2>2, NodePointer
  <2>4. PICK p \in Seq(Steps) : p = l.path
    BY <1>1, <2>3, KindFacts
  <2>5. n.path = Append(p, s)
    BY <2>3, <2>4 DEF PointedTo
  <2>6. Len(p) = i /\ s \in Ids /\ p \in Seq(Ids)
    <3>1. Len(p) = i /\ n.path[i + 1] = s /\ p = [j \in 1 .. i |-> n.path[j]]
      BY <2>3, <2>5
    <3>2. \A j \in 1 .. i + 1 : n.path[j] \in Ids
      BY <2>1
    <3>3. p \in [1 .. i -> Ids]
      BY <3>1, <3>2
    <3> QED
      BY <3>1, <3>2, <3>3
  <2>7. l \in Named
    BY <2>3, <2>4, <2>6, NamedAre
  <2>8. Leads(l, name)
    BY <1>3, <2>4, <2>6, <2>7
  <2> QED
    BY <2>4, <2>5, <2>6, <2>7, <2>8, LeadsOn
<1>4. Nat \subseteq T
  <2> HIDE DEF T
  <2> QED
    BY <1>2, <1>3, NatInducts
<1> SUFFICES ASSUME NEW n \in Named PROVE Leads(n, name)
  OBVIOUS
<1>5. Len(n.path) \in Nat
  BY NamedAre
<1> QED
  BY <1>4, <1>5

(***************************************************************************)
(* Every key of a loaded tree is found by one toml_get_key after the       *)
(* other, and by its path only, unless an identifier follows itself on the *)
(* path: for trees of any size, if no identifier is an index.              *)
(***************************************************************************)
THEOREM KeysFound == Ids \cap (0 .. MaxArray - 1) = {} => (Spec => []FoundByPath)
<1> SUFFICES ASSUME Ids \cap (0 .. MaxArray - 1) = {} PROVE Spec => []FoundByPath
  OBVIOUS
<1>1. HeapInv /\ Charted /\ Outside => FoundByPath
  <2> SUFFICES ASSUME HeapInv, Charted, Outside, Loaded,
                      NEW name \in Ids, NEW n \in Named
               PROVE  (GetPath(n.path, name) = n.key) <=> ~Repeats(<<name>> \o n.path)
    BY DEF FoundByPath
  <2>1. Complete
    BY DEF Complete, Outside, Loaded, NoIndices, Indices
  <2>2. Leads(n, name)
    BY <2>1, AllLead
  <2>3. n.key # NULL /\ \A m \in Named : m.key = n.key => Len(m.path) = Len(n.path)
    <3>1. n \in Nodes /\ \A m \in Named : m \in Nodes
      BY <2>1, NamedAre
    <3> QED
      BY <3>1 DEF Charted, Loose, Allocated, NULL
  <2>4. Len(n.path) \in Nat
    BY <2>1, NamedAre
  <2> QED
    BY <2>2, <2>3, <2>4 DEF Leads
<1> QED
  BY <1>1, HeapInductive, OutsideHolds, PTL
-----------------------------------------------------------------------------
(***************************************************************************)
(* toml_json_dump, and the reader that reads it back.                      *)
(***************************************************************************)

\* Reading a text and making a list go from the first part to the last.
Reads(f, r, tokens) ==
    f = [i \in 0 .. Len(tokens) |-> IF i = 0 THEN r ELSE ReadToken(f[i - 1], tokens[i])]

LEMMA ReadsExist ==
    ASSUME NEW tokens, Len(tokens) \in Nat, NEW r
    PROVE  \E f : Reads(f, r, tokens)
<1> DEFINE Turn(f, i) == IF i = 0 THEN r ELSE ReadToken(f[i - 1], tokens[i])
           Right(f, n) == \A i \in 0 .. n : f[i] = Turn(f, i)
           T == {n \in Nat : \E f : Right(f, n)}
<1>1. 0 \in T
  <2>1. Right([i \in 0 .. 0 |-> r], 0)
    OBVIOUS
  <2> HIDE DEF Right
  <2> QED
    BY <2>1
<1>2. ASSUME NEW n \in Nat, n \in T PROVE n + 1 \in T
  <2>1. PICK f : Right(f, n)
    <3> HIDE DEF Right
    <3> QED
      BY <1>2
  <2>2. PICK last : last = ReadToken(f[n], tokens[n + 1])
    OBVIOUS
  <2>3. PICK g : g = [i \in 0 .. n + 1 |-> IF i = n + 1 THEN last ELSE f[i]]
    OBVIOUS
  <2>4. ASSUME NEW i \in 0 .. n + 1 PROVE g[i] = Turn(g, i)
    <3>1. CASE i = n + 1
      <4>1. g[i] = last /\ g[i - 1] = f[n] /\ i # 0
        BY <2>3, <3>1
      <4> QED
        BY <2>2, <3>1, <4>1
    <3>2. CASE i = 0
      <4>1. g[i] = f[i] /\ f[i] = Turn(f, i)
        BY <2>1, <2>3, <3>2
      <4> QED
        BY <3>2, <4>1
    <3>3. CASE i # 0 /\ i # n + 1
      <4>1. i \in 0 .. n /\ i - 1 \in 0 .. n + 1 /\ i - 1 # n + 1
        BY <3>3
      <4>2. g[i] = f[i] /\ g[i - 1] = f[i - 1]
        BY <2>3, <3>3, <4>1
      <4>3. f[i] = Turn(f, i)
        BY <2>1, <4>1
      <4> QED
        BY <3>3, <4>2, <4>3
    <3> QED
      BY <3>1, <3>2, <3>3
  <2>5. Right(g, n + 1)
    BY <2>4
  <2> HIDE DEF Right
  <2> QED
    BY <2>5
<1>3. Len(tokens) \in T
  <2>1. Nat \subseteq T
    <3> HIDE DEF T
    <3> QED
      BY <1>1, <1>2, NatInducts
  <2> QED
    BY <2>1
<1>4. PICK f : Right(f, Len(tokens))
  <2> HIDE DEF Right
  <2> QED
    BY <1>3
<1>5. PICK g : g = [i \in 0 .. Len(tokens) |-> f[i]]
  OBVIOUS
<1>6. ASSUME NEW i \in 0 .. Len(tokens) PROVE g[i] = Turn(g, i)
  <2>1. i # 0 => i - 1 \in 0 .. Len(tokens)
    OBVIOUS
  <2>2. g[i] = f[i] /\ (i # 0 => g[i - 1] = f[i - 1])
    BY <1>5, <2>1
  <2>3. f[i] = Turn(f, i)
    BY <1>4
  <2> QED
    BY <2>2, <2>3
<1>7. g = [i \in 0 .. Len(tokens) |-> Turn(g, i)]
  BY <1>5, <1>6
<1> QED
  BY <1>7 DEF Reads

LEMMA ReadsOn ==
    ASSUME NEW tokens, Len(tokens) \in Nat, NEW r
    PROVE  \E f : Reads(f, r, tokens) /\ ReadOn(r, tokens) = f[Len(tokens)]
<1> DEFINE read == CHOOSE f : f = [i \in 0 .. Len(tokens) |->
                      IF i = 0 THEN r ELSE ReadToken(f[i - 1], tokens[i])]
<1>1. \E f : f = [i \in 0 .. Len(tokens) |->
                      IF i = 0 THEN r ELSE ReadToken(f[i - 1], tokens[i])]
  <2>1. PICK f : Reads(f, r, tokens)
    BY ReadsExist
  <2> QED
    BY <2>1, Zenon DEF Reads
<1>2. read = [i \in 0 .. Len(tokens) |->
                      IF i = 0 THEN r ELSE ReadToken(read[i - 1], tokens[i])]
  BY <1>1, Zenon
<1>3. ReadOn(r, tokens) = read[Len(tokens)]
  BY Zenon DEF ReadOn
<1> HIDE DEF read
<1> QED
  BY <1>2, <1>3 DEF Reads

\* What is read of no token, of one, and of two texts.
LEMMA ReadOne ==
    ASSUME NEW r, NEW t
    PROVE  ReadOn(r, <<>>) = r /\ ReadOn(r, <<t>>) = ReadToken(r, t)
<1>1. ReadOn(r, <<>>) = r
  <2>1. PICK f : Reads(f, r, <<>>) /\ ReadOn(r, <<>>) = f[Len(<<>>)]
    BY ReadsOn
  <2> QED
    BY <2>1 DEF Reads
<1>2. ReadOn(r, <<t>>) = ReadToken(r, t)
  <2>1. PICK s : s = <<t>>
    OBVIOUS
  <2>2. Len(s) = 1 /\ s[1] = t /\ Len(s) \in Nat
    BY <2>1
  <2>3. PICK f : Reads(f, r, s) /\ ReadOn(r, s) = f[1]
    <3>1. PICK f : Reads(f, r, s) /\ ReadOn(r, s) = f[Len(s)]
      BY <2>2, ReadsOn
    <3> QED
      BY <2>2, <3>1
  <2>4. \A i \in 0 .. 1 : f[i] = IF i = 0 THEN r ELSE ReadToken(f[i - 1], s[i])
    BY <2>2, <2>3 DEF Reads
  <2>5. f[0] = r /\ f[1] = ReadToken(f[0], s[1])
    BY <2>4
  <2> QED
    BY <2>1, <2>2, <2>3, <2>5
<1> QED
  BY <1>1, <1>2

LEMMA ReadBoth ==
    ASSUME NEW T, NEW s \in Seq(T), NEW t \in Seq(T), NEW r
    PROVE  ReadOn(r, s \o t) = ReadOn(ReadOn(r, s), t)
<1>1. PICK m \in Nat, n \in Nat : m = Len(s) /\ n = Len(t)
  OBVIOUS
<1>2. PICK q : q = s \o t
  OBVIOUS
<1>3. /\ Len(q) = m + n /\ \A i \in 1 .. m : q[i] = s[i]
      /\ \A i \in 1 .. n : q[m + i] = t[i]
  BY <1>1, <1>2
<1>4. PICK o : o = ReadOn(r, s)
  OBVIOUS
<1>5. PICK f : Reads(f, r, s) /\ o = f[m]
  BY <1>1, <1>4, ReadsOn
<1>6. PICK g : Reads(g, o, t) /\ ReadOn(o, t) = g[n]
  BY <1>1, ReadsOn
<1>7. PICK h : Reads(h, r, q) /\ ReadOn(r, q) = h[m + n]
  BY <1>3, ReadsOn
<1>8. \A i \in 0 .. m : f[i] = IF i = 0 THEN r ELSE ReadToken(f[i - 1], s[i])
  BY <1>1, <1>5 DEF Reads
<1>9. \A i \in 0 .. n : g[i] = IF i = 0 THEN o ELSE ReadToken(g[i - 1], t[i])
  BY <1>1, <1>6 DEF Reads
<1>10. \A i \in 0 .. m + n : h[i] = IF i = 0 THEN r ELSE ReadToken(h[i - 1], q[i])
  BY <1>3, <1>7 DEF Reads
<1> DEFINE A == {i \in Nat : i > m \/ h[i] = f[i]}
           B == {i \in Nat : i > n \/ h[m + i] = g[i]}
<1>11. 0 \in A
  BY <1>8, <1>10
<1>12. ASSUME NEW i \in Nat, i \in A PROVE i + 1 \in A
  <2>1. CASE i + 1 <= m
    <3>1. i + 1 \in 0 .. m /\ i + 1 \in 0 .. m + n /\ i + 1 \in 1 .. m
          /\ i + 1 # 0 /\ (i + 1) - 1 = i /\ ~(i > m)
      BY <2>1
    <3>2. h[i] = f[i]
      BY <1>12, <3>1
    <3>3. f[i + 1] = ReadToken(f[i], s[i + 1]) /\ h[i + 1] = ReadToken(h[i], q[i + 1])
      BY <1>8, <1>10, <3>1
    <3> QED
      BY <1>3, <3>1, <3>2, <3>3
  <2> QED
    BY <2>1
<1>13. h[m] = f[m]
  <2>1. Nat \subseteq A
    <3> HIDE DEF A
    <3> QED
      BY <1>11, <1>12, NatInducts
  <2> QED
    BY <2>1
<1>14. 0 \in B
  BY <1>5, <1>9, <1>13
<1>15. ASSUME NEW i \in Nat, i \in B PROVE i + 1 \in B
  <2>1. CASE i + 1 <= n
    <3>1. i + 1 \in 0 .. n /\ m + (i + 1) \in 0 .. m + n /\ i + 1 \in 1 .. n
          /\ i + 1 # 0 /\ (i + 1) - 1 = i /\ ~(i > n)
          /\ m + (i + 1) # 0 /\ (m + (i + 1)) - 1 = m + i
      BY <2>1
    <3>2. h[m + i] = g[i]
      BY <1>15, <3>1
    <3>3. g[i + 1] = ReadToken(g[i], t[i + 1])
      BY <1>9, <3>1
    <3>4. h[m + (i + 1)] = ReadToken(h[m + i], q[m + (i + 1)])
      BY <1>10, <3>1
    <3> QED
      BY <1>3, <3>1, <3>2, <3>3, <3>4
  <2> QED
    BY <2>1
<1>16. h[m + n] = g[n]
  <2>1. Nat \subseteq B
    <3> HIDE DEF B
    <3> QED
      BY <1>14, <1>15, NatInducts
  <2> QED
    BY <2>1
<1> QED
  BY <1>2, <1>4, <1>6, <1>7, <1>16

\* The subkeys in the order of the hash map: each once.
LEMMA UsedListed ==
    ASSUME HeapInv, NEW k \in Allocated
    PROVE  /\ IsFiniteSet(UsedIds(k)) /\ Cardinality(UsedIds(k)) \in Nat
           /\ SetToSeq(UsedIds(k)) \in [1 .. Cardinality(UsedIds(k)) -> UsedIds(k)]
           /\ \A i, j \in 1 .. Cardinality(UsedIds(k)) :
                 SetToSeq(UsedIds(k))[i] = SetToSeq(UsedIds(k))[j] => i = j
           /\ \A id \in UsedIds(k) : \E i \in 1 .. Cardinality(UsedIds(k)) :
                 SetToSeq(UsedIds(k))[i] = id
<1>1. PICK S : S = UsedIds(k)
  OBVIOUS
<1>2. IsFiniteSet(S)
  BY <1>1 DEF HeapInv, ShapeInv, Bounded
<1>3. PICK n \in Nat : n = Cardinality(S) /\ ExistsBijection(1 .. n, S)
  BY <1>2, FS_CardinalityType
<1>4. PICK f \in Bijection(1 .. n, S) : TRUE
  BY <1>3 DEF ExistsBijection
<1>5. f \in [1 .. n -> S] /\ IsInjective(f)
  BY <1>4 DEF Bijection, Injection
<1>6. PICK g : g = SetToSeq(S)
  OBVIOUS
<1>7. g \in [1 .. n -> S] /\ IsInjective(g)
  BY <1>3, <1>5, <1>6 DEF SetToSeq
<1>8. g \in Injection(1 .. n, S)
  BY <1>7 DEF Injection
<1>9. Cardinality(1 .. n) = n /\ IsFiniteSet(1 .. n)
  BY <1>3, FS_Interval
<1>10. g \in Surjection(1 .. n, S)
  BY <1>2, <1>3, <1>8, <1>9, FS_Injection
<1>11. \A id \in S : \E i \in 1 .. n : g[i] = id
  BY <1>10 DEF Surjection
<1>12. \A i, j \in 1 .. n : g[i] = g[j] => i = j
  BY <1>7 DEF IsInjective
<1> QED
  BY <1>1, <1>2, <1>3, <1>6, <1>7, <1>11, <1>12

Lists(f, texts) ==
    f = [i \in 0 .. Len(texts) |->
            IF i = 0 THEN <<>> ELSE f[i - 1] \o (texts[i] \o Comma(i, Len(texts)))]

LEMMA ListsExist ==
    ASSUME NEW texts, Len(texts) \in Nat
    PROVE  \E f : Lists(f, texts)
<1> DEFINE Turn(f, i) == IF i = 0 THEN <<>> ELSE f[i - 1] \o (texts[i] \o Comma(i, Len(texts)))
           Right(f, n) == \A i \in 0 .. n : f[i] = Turn(f, i)
           T == {n \in Nat : \E f : Right(f, n)}
<1>1. 0 \in T
  <2>1. Right([i \in 0 .. 0 |-> <<>>], 0)
    OBVIOUS
  <2> HIDE DEF Right
  <2> QED
    BY <2>1
<1>2. ASSUME NEW n \in Nat, n \in T PROVE n + 1 \in T
  <2>1. PICK f : Right(f, n)
    <3> HIDE DEF Right
    <3> QED
      BY <1>2
  <2>2. PICK last : last = f[n] \o (texts[n + 1] \o Comma(n + 1, Len(texts)))
    OBVIOUS
  <2>3. PICK g : g = [i \in 0 .. n + 1 |-> IF i = n + 1 THEN last ELSE f[i]]
    OBVIOUS
  <2>4. ASSUME NEW i \in 0 .. n + 1 PROVE g[i] = Turn(g, i)
    <3>1. CASE i = n + 1
      <4>1. g[i] = last /\ g[i - 1] = f[n] /\ i # 0
        BY <2>3, <3>1
      <4> QED
        BY <2>2, <3>1, <4>1
    <3>2. CASE i = 0
      <4>1. g[i] = f[i] /\ f[i] = Turn(f, i)
        BY <2>1, <2>3, <3>2
      <4> QED
        BY <3>2, <4>1
    <3>3. CASE i # 0 /\ i # n + 1
      <4>1. i \in 0 .. n /\ i - 1 \in 0 .. n + 1 /\ i - 1 # n + 1
        BY <3>3
      <4>2. g[i] = f[i] /\ g[i - 1] = f[i - 1]
        BY <2>3, <3>3, <4>1
      <4>3. f[i] = Turn(f, i)
        BY <2>1, <4>1
      <4> QED
        BY <3>3, <4>2, <4>3
    <3> QED
      BY <3>1, <3>2, <3>3
  <2>5. Right(g, n + 1)
    BY <2>4
  <2> HIDE DEF Right
  <2> QED
    BY <2>5
<1>3. Len(texts) \in T
  <2>1. Nat \subseteq T
    <3> HIDE DEF T
    <3> QED
      BY <1>1, <1>2, NatInducts
  <2> QED
    BY <2>1
<1>4. PICK f : Right(f, Len(texts))
  <2> HIDE DEF Right
  <2> QED
    BY <1>3
<1>5. PICK g : g = [i \in 0 .. Len(texts) |-> f[i]]
  OBVIOUS
<1>6. ASSUME NEW i \in 0 .. Len(texts) PROVE g[i] = Turn(g, i)
  <2>1. i # 0 => i - 1 \in 0 .. Len(texts)
    OBVIOUS
  <2>2. g[i] = f[i] /\ (i # 0 => g[i - 1] = f[i - 1])
    BY <1>5, <2>1
  <2>3. f[i] = Turn(f, i)
    BY <1>4
  <2> QED
    BY <2>2, <2>3
<1>7. g = [i \in 0 .. Len(texts) |-> Turn(g, i)]
  BY <1>5, <1>6
<1> QED
  BY <1>7 DEF Lists

LEMMA ListedIs ==
    ASSUME NEW texts, Len(texts) \in Nat
    PROVE  \E f : Lists(f, texts) /\ Listed(texts) = f[Len(texts)]
<1> DEFINE listed == CHOOSE f : f = [i \in 0 .. Len(texts) |->
                        IF i = 0 THEN <<>> ELSE f[i - 1] \o (texts[i] \o Comma(i, Len(texts)))]
<1>1. \E f : f = [i \in 0 .. Len(texts) |->
                        IF i = 0 THEN <<>> ELSE f[i - 1] \o (texts[i] \o Comma(i, Len(texts)))]
  <2>1. PICK f : Lists(f, texts)
    BY ListsExist
  <2> QED
    BY <2>1, Zenon DEF Lists
<1>2. listed = [i \in 0 .. Len(texts) |->
              IF i = 0 THEN <<>> ELSE listed[i - 1] \o (texts[i] \o Comma(i, Len(texts)))]
  BY <1>1, Zenon
<1>3. Listed(texts) = listed[Len(texts)]
  BY Zenon DEF Listed
<1> HIDE DEF listed
<1> QED
  BY <1>2, <1>3 DEF Lists

LEMMA SeqOfOne == \A S : \A e \in S : <<e>> \in Seq(S) /\ <<>> \in Seq(S)
  OBVIOUS

LEMMA CommaIn == ASSUME NEW T, <<",">> \in T, NEW i, NEW n PROVE Comma(i, n) \in Seq(T)
<1>1. PICK c \in T : c = <<",">>
  OBVIOUS
<1>2. <<c>> \in Seq(T) /\ <<>> \in Seq(T)
  BY SeqOfOne, <1>1
<1> QED
  BY <1>1, <1>2 DEF Comma

\* A list is read text by text, each with the comma behind it.
ReadInTurn(T, n, texts, st) ==
    /\ Len(texts) = n /\ <<",">> \in T
    /\ \A i \in 1 .. n : /\ texts[i] \in Seq(T)
                        /\ ReadOn(st[i - 1], texts[i] \o Comma(i, n)) = st[i]

LEMMA ListRead ==
    ASSUME NEW T, NEW n \in Nat, NEW texts, NEW st, ReadInTurn(T, n, texts, st)
    PROVE  Listed(texts) \in Seq(T) /\ ReadOn(st[0], Listed(texts)) = st[n]
<1>0. Len(texts) = n
  BY DEF ReadInTurn
<1>1. PICK f : Lists(f, texts) /\ Listed(texts) = f[n]
  <2>1. PICK f : Lists(f, texts) /\ Listed(texts) = f[Len(texts)]
    BY <1>0, ListedIs
  <2> QED
    BY <1>0, <2>1
<1>2. \A i \in 0 .. n : f[i] = IF i = 0 THEN <<>> ELSE f[i - 1] \o (texts[i] \o Comma(i, n))
  BY <1>0, <1>1 DEF Lists
<1> DEFINE A == {i \in Nat : i > n \/ (f[i] \in Seq(T) /\ ReadOn(st[0], f[i]) = st[i])}
<1>3. 0 \in A
  <2>1. f[0] = <<>> /\ <<>> \in Seq(T)
    BY <1>2
  <2>2. ReadOn(st[0], <<>>) = st[0]
    BY ReadOne
  <2> QED
    BY <2>1, <2>2
<1>4. ASSUME NEW i \in Nat, i \in A PROVE i + 1 \in A
  <2>1. CASE i + 1 <= n
    <3>1. i + 1 \in 0 .. n /\ i + 1 \in 1 .. n /\ i + 1 # 0 /\ (i + 1) - 1 = i /\ ~(i > n)
      BY <2>1
    <3>2. f[i] \in Seq(T) /\ ReadOn(st[0], f[i]) = st[i]
      BY <1>4, <3>1
    <3>3. PICK t : t = texts[i + 1] \o Comma(i + 1, n)
      OBVIOUS
    <3>4. t \in Seq(T)
      <4>1. texts[i + 1] \in Seq(T)
        BY <3>1 DEF ReadInTurn
      <4>2. Comma(i + 1, n) \in Seq(T)
        BY CommaIn DEF ReadInTurn
      <4> QED
        BY <3>3, <4>1, <4>2
    <3>5. f[i + 1] = f[i] \o t
      BY <1>2, <3>1, <3>3
    <3>6. f[i] \o t \in Seq(T)
      BY <3>2, <3>4
    <3>7. ReadOn(st[0], f[i] \o t) = ReadOn(ReadOn(st[0], f[i]), t)
      <4>1. PICK u \in Seq(T) : u = f[i]
        BY <3>2
      <4>2. \A r : ReadOn(r, u \o t) = ReadOn(ReadOn(r, u), t)
        BY <3>4, ReadBoth, Zenon
      <4> QED
        BY <4>1, <4>2
    <3>8. ReadOn(st[i], t) = st[i + 1]
      BY <3>1, <3>3 DEF ReadInTurn
    <3>9. f[i + 1] \in Seq(T) /\ ReadOn(st[0], f[i + 1]) = st[i + 1]
      BY <3>2, <3>5, <3>6, <3>7, <3>8
    <3> QED
      BY <3>9
  <2> QED
    BY <2>1
<1>5. n \in A
  <2>1. Nat \subseteq A
    <3> HIDE DEF A
    <3> QED
      BY <1>3, <1>4, NatInducts
  <2> QED
    BY <2>1
<1> QED
  BY <1>1, <1>5

\* What a key prints depends on the keys below it, which are later ones.
LEMMA DumpDepends ==
    ASSUME HeapInv, NEW k \in 1 .. MaxKeys, NEW b, NEW c,
           \A j \in 1 .. MaxKeys : j > k => b[j] = c[j]
    PROVE  toml_key_dump(k, b) = toml_key_dump(k, c)
<1>1. ASSUME NEW h \in 1 .. MaxKeys, h >= k PROVE Braces(h, b) = Braces(h, c)
  <2>1. ASSUME NEW i \in 1 .. Cardinality(UsedIds(h))
        PROVE  b[has_subkey(h, SetToSeq(UsedIds(h))[i])]
                 = c[has_subkey(h, SetToSeq(UsedIds(h))[i])]
    <3>1. UsedIds(h) # {} /\ h \in Allocated
      <4>1. CASE UsedIds(h) = {}
        BY <2>1, <4>1, FS_EmptySet
      <4>2. CASE h > nkeys
        BY <4>1, <4>2 DEF HeapInv, Unused
      <4> QED
        BY <4>1, <4>2 DEF HeapInv, IInv, TypeOK, Allocated
    <3>2. SetToSeq(UsedIds(h))[i] \in UsedIds(h)
      BY <2>1, <3>1, UsedListed
    <3>3. PICK id \in Ids : id = SetToSeq(UsedIds(h))[i] /\ has_subkey(h, id) # NULL
      BY <3>2 DEF UsedIds
    <3>4. has_subkey(h, id) \in Allocated /\ h < has_subkey(h, id)
      BY <3>1, <3>3, Pointers DEF HeapInv, IInv
    <3>5. has_subkey(h, id) \in 1 .. MaxKeys /\ has_subkey(h, id) > k
      BY <1>1, <3>4 DEF HeapInv, IInv, TypeOK, Allocated
    <3> QED
      BY <3>3, <3>5
  <2> QED
    BY <2>1 DEF Braces
<1>2. Braces(k, b) = Braces(k, c)
  BY <1>1
<1>3. ASSUME keys[k].type = "ARRAYTABLE", ~(keys[k].idx < 0),
             NEW i \in 1 .. keys[k].idx + 1
      PROVE  Braces(keys[k].arr[i - 1], b) = Braces(keys[k].arr[i - 1], c)
  <2>1. k \in Allocated
    BY <1>3 DEF HeapInv, Unused, IInv, TypeOK, Allocated
  <2>2. keys[k].idx \in -1 .. MaxArray - 1
    BY <2>1, Pointers DEF HeapInv, IInv, KeyType
  <2>3. i - 1 \in 0 .. keys[k].idx /\ i - 1 \in 0 .. MaxArray - 1
    BY <1>3, <2>2
  <2>4. keys[k].arr[i - 1] # NULL
    BY <1>3, <2>1, <2>3 DEF HeapInv, IInv, ArrayTablesReady
  <2>5. keys[k].arr[i - 1] \in Allocated /\ k < keys[k].arr[i - 1]
    BY <2>1, <2>3, <2>4, Pointers DEF HeapInv, IInv
  <2>6. keys[k].arr[i - 1] \in 1 .. MaxKeys /\ keys[k].arr[i - 1] >= k
    BY <2>5 DEF HeapInv, IInv, TypeOK, Allocated
  <2> QED
    BY <1>1, <2>6
<1>4. CASE keys[k].type = "ARRAYTABLE" /\ ~(keys[k].idx < 0)
  <2>1. [i \in 1 .. keys[k].idx + 1 |-> Braces(keys[k].arr[i - 1], b)]
          = [i \in 1 .. keys[k].idx + 1 |-> Braces(keys[k].arr[i - 1], c)]
    BY <1>3, <1>4
  <2> QED
    BY <1>4, <2>1 DEF toml_key_dump, Leaf
<1>5. CASE ~(keys[k].type = "ARRAYTABLE" /\ ~(keys[k].idx < 0))
  BY <1>2, <1>5 DEF toml_key_dump
<1> QED
  BY <1>4, <1>5

\* The recursion of Printed ends: what a key prints it has from later keys.
LEMMA PrintedIs ==
    ASSUME HeapInv, NEW k \in 1 .. MaxKeys
    PROVE  Printed[k] = toml_key_dump(k, Printed)
<1> DEFINE Right(b, j) == /\ b = [h \in 1 .. MaxKeys |-> b[h]]
                          /\ \A h \in 1 .. MaxKeys :
                                h > MaxKeys - j => b[h] = toml_key_dump(h, b)
           S == {j \in 0 .. MaxKeys : \E b : Right(b, j)}
           T == S \cup {j \in Nat : j > MaxKeys}
<1>1. 0 \in T
  <2>1. Right([h \in 1 .. MaxKeys |-> <<>>], 0)
    OBVIOUS
  <2> HIDE DEF Right
  <2> QED
    BY <2>1
<1>2. ASSUME NEW j \in Nat, j \in T PROVE j + 1 \in T
  <2>1. CASE j >= MaxKeys
    BY <2>1
  <2>2. CASE j < MaxKeys
    <3>1. PICK b : Right(b, j)
      <4> HIDE DEF Right
      <4> QED
        BY <1>2, <2>2
    <3>2. PICK l \in 1 .. MaxKeys : l = MaxKeys - j
      BY <2>2
    <3>3. PICK c : c = [h \in 1 .. MaxKeys |-> IF h = l THEN toml_key_dump(l, b) ELSE b[h]]
      OBVIOUS
    <3>4. ASSUME NEW h \in 1 .. MaxKeys, h >= l
          PROVE  toml_key_dump(h, c) = toml_key_dump(h, b)
      <4>1. \A i \in 1 .. MaxKeys : i > h => c[i] = b[i]
        BY <3>3, <3>4
      <4> QED
        BY <4>1, DumpDepends
    <3>5. ASSUME NEW h \in 1 .. MaxKeys, h > MaxKeys - (j + 1)
          PROVE  c[h] = toml_key_dump(h, c)
      <4>1. CASE h = l
        BY <3>3, <3>4, <4>1
      <4>2. CASE h # l
        <5>1. h > MaxKeys - j /\ h >= l
          BY <2>2, <3>2, <3>5, <4>2
        <5>2. c[h] = b[h] /\ b[h] = toml_key_dump(h, b)
          BY <3>1, <3>3, <4>2, <5>1
        <5> QED
          BY <3>4, <5>1, <5>2
      <4> QED
        BY <4>1, <4>2
    <3>6. Right(c, j + 1)
      BY <3>3, <3>5
    <3> HIDE DEF Right
    <3> QED
      BY <2>2, <3>6
  <2> QED
    BY <2>1, <2>2
<1>3. MaxKeys \in S
  <2>1. Nat \subseteq T
    <3> HIDE DEF T
    <3> QED
      BY <1>1, <1>2, NatInducts
  <2> QED
    BY <2>1
<1>4. PICK b : Right(b, MaxKeys)
  <2> HIDE DEF Right
  <2> QED
    BY <1>3
<1>5. b = [h \in 1 .. MaxKeys |-> toml_key_dump(h, b)]
  BY <1>4
<1>6. Printed = CHOOSE p : p = [h \in 1 .. MaxKeys |-> toml_key_dump(h, p)]
  BY Zenon DEF Printed
<1>7. Printed = [h \in 1 .. MaxKeys |-> toml_key_dump(h, Printed)]
  BY <1>5, <1>6, Zenon
<1> QED
  BY <1>7

-----------------------------------------------------------------------------
(* What each token does to the reader. *)

Brackets == {"{", "["}
Tokens   == {<<c>> : c \in {"{", "[", ",", "]", "}"}}
            \cup {<<c, x>> : c \in {"id", "value"}, x \in Ids \cup Values}

\* A reader that has met nothing wrong.
At(in, path, want, found) ==
    [in |-> in, path |-> path, want |-> want, found |-> found, ok |-> TRUE]

\* What may come next, and what has been found.
MoreOrEnd  == {",", "end"}
IdOrEnd    == {"id", "end"}
ValueOrEnd == {"value", "end"}
Plus(F, p, what) == F \cup {<<p, what>>}
Absent(F, p)     == \A f \in F : f[1] # p

LEMMA EndsOf ==
    ASSUME NEW T, NEW s \in Seq(T), NEW e \in T
    PROVE  /\ Front(Append(s, e)) = s /\ Last(Append(s, e)) = e /\ Append(s, e) # <<>>
           /\ Append(s, e) \in Seq(T)
<1>1. PICK t : t = Append(s, e)
  OBVIOUS
<1>2. t \in Seq(T) /\ Len(t) = Len(s) + 1 /\ Len(s) \in Nat /\ t[Len(s) + 1] = e
      /\ \A i \in 1 .. Len(s) : t[i] = s[i]
  BY <1>1
<1>3. PICK u : u = SubSeq(t, 1, Len(t) - 1)
  OBVIOUS
<1>4. u \in Seq(T) /\ Len(u) = Len(s) /\ \A i \in 1 .. Len(s) : u[i] = s[i]
  BY <1>2, <1>3
<1>5. u = s
  BY <1>4
<1>6. Front(t) = s /\ Last(t) = e /\ t # <<>>
  BY <1>2, <1>3, <1>5 DEF Front, Last
<1> QED
  BY <1>1, <1>2, <1>6

LEMMA EnteredIs ==
    ASSUME NEW in, NEW p, NEW want, NEW F, NEW b, NEW what, Absent(F, p)
    PROVE  Entered(At(in, p, want, F), b, what)
             = At(Append(in, b), p, want, Plus(F, p, what))
<1>1. PICK r : r = At(in, p, want, F)
  OBVIOUS
<1>2. /\ r.in = in /\ r.path = p /\ r.found = F /\ r.want = want /\ r.ok = TRUE
  BY <1>1 DEF At
<1>3. (r.ok /\ \A f \in r.found : f[1] # r.path) = TRUE
  BY <1>2 DEF Absent
<1>4. Entered(r, b, what) = [r EXCEPT !.in = Append(r.in, b),
                                      !.found = r.found \cup {<<r.path, what>>},
                                      !.ok = (r.ok /\ \A f \in r.found : f[1] # r.path)]
  BY <1>1 DEF Entered, At
<1>5. Entered(r, b, what) = [r EXCEPT !.in = Append(in, b), !.found = F \cup {<<p, what>>},
                                      !.ok = TRUE]
  BY <1>2, <1>3, <1>4
<1> QED
  BY <1>1, <1>5 DEF At, Plus

LEMMA ClosedIs ==
    ASSUME NEW in, NEW p, NEW want, NEW F
    PROVE  Closed(At(in, p, want, F)) = At(Front(in), p, MoreOrEnd, F)
<1>1. PICK r : r = At(in, p, want, F)
  OBVIOUS
<1>2. Closed(r) = [r EXCEPT !.in = Front(r.in), !.want = MoreOrEnd]
  BY <1>1 DEF Closed, At, MoreOrEnd
<1> QED
  BY <1>1, <1>2 DEF At

Entering(in, p, want, F) ==
    /\ ReadToken(At(in, p, want, F), <<"{">>)
         = At(Append(in, "{"), p, IdOrEnd, Plus(F, p, "table"))
    /\ ReadToken(At(in, p, want, F), <<"[">>)
         = At(Append(in, "["), Append(p, 0), ValueOrEnd, Plus(F, p, "array"))

LEMMA OpensRead ==
    ASSUME NEW in, NEW p, NEW want, NEW F, "value" \in want, Absent(F, p)
    PROVE  Entering(in, p, want, F)
<1>1. PICK r : r = At(in, p, want, F)
  OBVIOUS
<1>2. Expected(r, "{") /\ Expected(r, "[")
  BY <1>1 DEF Expected, At
<1>3. /\ r.in = in /\ r.path = p /\ r.found = F /\ r.want = want /\ r.ok = TRUE
  BY <1>1 DEF At
<1>4. \A b, what : Entered(r, b, what) = At(Append(in, b), p, want, Plus(F, p, what))
  BY <1>1, EnteredIs
<1>5. /\ Entered(r, "{", "table") = At(Append(in, "{"), p, want, Plus(F, p, "table"))
      /\ Entered(r, "[", "array") = At(Append(in, "["), p, want, Plus(F, p, "array"))
  BY <1>4
<1>6. <<"{">>[1] = "{" /\ <<"[">>[1] = "["
  OBVIOUS
<1>7. Follow(r, <<"{">>) = [Entered(r, "{", "table") EXCEPT !.want = {"id", "end"}]
  BY <1>6 DEF Follow
<1>8. Follow(r, <<"[">>) = [Entered(r, "[", "array") EXCEPT !.want = {"value", "end"},
                                                            !.path = Append(@, 0)]
  BY <1>6 DEF Follow
<1>9. ReadToken(r, <<"{">>) = Follow(r, <<"{">>) /\ ReadToken(r, <<"[">>) = Follow(r, <<"[">>)
  BY <1>2, <1>6 DEF ReadToken
<1>10. Follow(r, <<"{">>) = At(Append(in, "{"), p, IdOrEnd, Plus(F, p, "table"))
  <2>1. PICK e : e = At(Append(in, "{"), p, want, Plus(F, p, "table"))
    OBVIOUS
  <2>2. Follow(r, <<"{">>) = [e EXCEPT !.want = IdOrEnd]
    BY <1>5, <1>7, <2>1 DEF IdOrEnd
  <2> QED
    BY <2>1, <2>2 DEF At
<1>11. Follow(r, <<"[">>) = At(Append(in, "["), Append(p, 0), ValueOrEnd, Plus(F, p, "array"))
  <2>1. PICK e : e = At(Append(in, "["), p, want, Plus(F, p, "array"))
    OBVIOUS
  <2>2. e.path = p
    BY <2>1 DEF At
  <2>3. Follow(r, <<"[">>) = [e EXCEPT !.want = ValueOrEnd, !.path = Append(p, 0)]
    BY <1>5, <1>8, <2>1, <2>2 DEF ValueOrEnd
  <2> QED
    BY <2>1, <2>3 DEF At
<1> QED
  BY <1>1, <1>9, <1>10, <1>11 DEF Entering

LEMMA ValueRead ==
    ASSUME NEW in \in Seq(Brackets), NEW p, NEW want, NEW F, NEW v, "value" \in want,
           Absent(F, p)
    PROVE  ReadToken(At(in, p, want, F), <<"value", v>>)
             = At(in, p, MoreOrEnd, Plus(F, p, v))
<1>1. PICK r : r = At(in, p, want, F)
  OBVIOUS
<1>2. Expected(r, "value")
  BY <1>1 DEF Expected, At
<1>3. /\ r.in = in /\ r.path = p /\ r.found = F /\ r.want = want /\ r.ok = TRUE
  BY <1>1 DEF At
<1>4. Entered(r, "value", v) = At(Append(in, "value"), p, want, Plus(F, p, v))
  BY <1>1, EnteredIs
<1>5. PICK e : e = Entered(r, "value", v)
  OBVIOUS
<1>6. Front(Append(in, "value")) = in
  <2>1. in \in Seq(Brackets \cup {"value"})
    OBVIOUS
  <2> QED
    BY <2>1, EndsOf
<1>7. Closed(e) = At(in, p, MoreOrEnd, Plus(F, p, v))
  BY <1>4, <1>5, <1>6, ClosedIs
<1>8. <<"value", v>>[1] = "value" /\ <<"value", v>>[2] = v
  OBVIOUS
<1>9. Follow(r, <<"value", v>>) = Closed(e)
  BY <1>5, <1>8 DEF Follow
<1>10. ReadToken(r, <<"value", v>>) = Follow(r, <<"value", v>>)
  BY <1>2, <1>8 DEF ReadToken
<1> QED
  BY <1>1, <1>7, <1>9, <1>10

LEMMA IdRead ==
    ASSUME NEW in, NEW p, NEW want, NEW F, NEW id, "id" \in want
    PROVE  ReadToken(At(in, p, want, F), <<"id", id>>) = At(in, Append(p, id), {"value"}, F)
<1>1. PICK r : r = At(in, p, want, F)
  OBVIOUS
<1>2. Expected(r, "id")
  BY <1>1 DEF Expected, At
<1>3. <<"id", id>>[1] = "id" /\ <<"id", id>>[2] = id
  OBVIOUS
<1>4. ReadToken(r, <<"id", id>>) = [r EXCEPT !.path = Append(@, id), !.want = {"value"}]
  BY <1>2, <1>3 DEF ReadToken, Follow
<1> QED
  BY <1>1, <1>4 DEF At

LEMMA CommaRead ==
    ASSUME NEW in \in Seq(Brackets), NEW p \in Seq(Steps), NEW s \in Steps, NEW F
    PROVE  /\ ReadToken(At(Append(in, "{"), Append(p, s), MoreOrEnd, F), <<",">>)
                = At(Append(in, "{"), p, {"id"}, F)
           /\ ReadToken(At(Append(in, "["), Append(p, s), MoreOrEnd, F), <<",">>)
                = At(Append(in, "["), Append(p, s + 1), {"value"}, F)
<1>1. PICK q, a, b : q = Append(p, s) /\ a = Append(in, "{") /\ b = Append(in, "[")
  OBVIOUS
<1>2. Front(q) = p /\ Last(q) = s
  BY <1>1, EndsOf
<1>3. Last(a) = "{" /\ a # <<>> /\ Last(b) = "[" /\ b # <<>>
  <2>1. "{" \in Brackets /\ "[" \in Brackets
    BY DEF Brackets
  <2> QED
    BY <1>1, <2>1, EndsOf
<1>4. PICK r, t : r = At(a, q, MoreOrEnd, F) /\ t = At(b, q, MoreOrEnd, F)
  OBVIOUS
<1>5. Inside(r) = "{" /\ Inside(t) = "[" /\ Expected(r, ",") /\ Expected(t, ",")
  BY <1>3, <1>4 DEF Inside, Expected, At, MoreOrEnd, IdOrEnd
<1>6. <<",">>[1] = ","
  OBVIOUS
<1>7. r.path = q /\ t.path = q
  BY <1>4 DEF At
<1>8. /\ ReadToken(r, <<",">>) = [r EXCEPT !.path = p, !.want = {"id"}]
      /\ ReadToken(t, <<",">>) = [t EXCEPT !.path = Append(p, s + 1), !.want = {"value"}]
  BY <1>2, <1>5, <1>6, <1>7 DEF ReadToken, Follow
<1>9. PICK o, u : o = ReadToken(r, <<",">>) /\ u = ReadToken(t, <<",">>)
  OBVIOUS
<1>10. o = [r EXCEPT !.path = p, !.want = {"id"}]
  BY <1>8, <1>9
<1>11. u = [t EXCEPT !.path = Append(p, s + 1), !.want = {"value"}]
  BY <1>8, <1>9
<1>12. o = At(a, p, {"id"}, F)
  BY <1>4, <1>10 DEF At
<1>13. u = At(b, Append(p, s + 1), {"value"}, F)
  BY <1>4, <1>11 DEF At
<1> QED
  BY <1>1, <1>4, <1>9, <1>12, <1>13

LEMMA ClosesRead ==
    ASSUME NEW in \in Seq(Brackets), NEW p \in Seq(Steps), NEW s \in Steps, NEW F
    PROVE  /\ ReadToken(At(Append(in, "["), Append(p, s), MoreOrEnd, F), <<"]">>)
                = At(in, p, MoreOrEnd, F)
           /\ ReadToken(At(Append(in, "{"), Append(p, s), MoreOrEnd, F), <<"}">>)
                = At(in, p, MoreOrEnd, F)
           /\ ReadToken(At(Append(in, "{"), p, IdOrEnd, F), <<"}">>)
                = At(in, p, MoreOrEnd, F)
<1>1. PICK q, a, b : q = Append(p, s) /\ a = Append(in, "{") /\ b = Append(in, "[")
  OBVIOUS
<1>2. Front(q) = p
  BY <1>1, EndsOf
<1>3. Last(a) = "{" /\ a # <<>> /\ Front(a) = in /\ Last(b) = "[" /\ b # <<>> /\ Front(b) = in
  <2>1. "{" \in Brackets /\ "[" \in Brackets
    BY DEF Brackets
  <2> QED
    BY <1>1, <2>1, EndsOf
<1>4. PICK r, t, u : /\ r = At(a, q, MoreOrEnd, F) /\ t = At(b, q, MoreOrEnd, F)
                     /\ u = At(a, p, IdOrEnd, F)
  OBVIOUS
<1>5. Inside(r) = "{" /\ Inside(t) = "[" /\ Inside(u) = "{"
      /\ Expected(r, "}") /\ Expected(t, "]") /\ Expected(u, "}")
  BY <1>3, <1>4 DEF Inside, Expected, At, MoreOrEnd, IdOrEnd
<1>6. <<"}">>[1] = "}" /\ <<"]">>[1] = "]"
  OBVIOUS
<1>7. /\ ReadToken(r, <<"}">>) =
            [Closed(r) EXCEPT !.path = IF "id" \in r.want THEN @ ELSE Front(@)]
      /\ ReadToken(u, <<"}">>) =
            [Closed(u) EXCEPT !.path = IF "id" \in u.want THEN @ ELSE Front(@)]
      /\ ReadToken(t, <<"]">>) = [Closed(t) EXCEPT !.path = Front(@)]
  BY <1>5, <1>6 DEF ReadToken, Follow
<1>8. /\ Closed(r) = At(in, q, MoreOrEnd, F) /\ Closed(t) = At(in, q, MoreOrEnd, F)
      /\ Closed(u) = At(in, p, MoreOrEnd, F)
  <2>1. \A x, y, w : Closed(At(x, y, w, F)) = At(Front(x), y, MoreOrEnd, F)
    BY ClosedIs
  <2> QED
    BY <1>3, <1>4, <2>1
<1>9. "id" \notin r.want /\ "id" \in u.want
  BY <1>4 DEF At, MoreOrEnd, IdOrEnd
<1>10. ReadToken(r, <<"}">>) = At(in, p, MoreOrEnd, F)
  <2>1. PICK e : e = At(in, q, MoreOrEnd, F)
    OBVIOUS
  <2>2. e.path = q
    BY <2>1 DEF At
  <2>3. ReadToken(r, <<"}">>) = [e EXCEPT !.path = p]
    BY <1>2, <1>7, <1>8, <1>9, <2>1, <2>2
  <2> QED
    BY <2>1, <2>3 DEF At
<1>11. ReadToken(u, <<"}">>) = At(in, p, MoreOrEnd, F)
  BY <1>7, <1>8, <1>9 DEF At
<1>12. ReadToken(t, <<"]">>) = At(in, p, MoreOrEnd, F)
  <2>1. PICK e : e = At(in, q, MoreOrEnd, F)
    OBVIOUS
  <2>2. e.path = q
    BY <2>1 DEF At
  <2>3. ReadToken(t, <<"]">>) = [e EXCEPT !.path = p]
    BY <1>2, <1>7, <1>8, <2>1, <2>2
  <2> QED
    BY <2>1, <2>3 DEF At
<1> QED
  BY <1>1, <1>4, <1>10, <1>11, <1>12

-----------------------------------------------------------------------------
(* What there is to be found at a node and below it. *)

Beyond(p, q) == \E t \in Seq(Steps) : q = p \o t
Below(n)     == {<<m.path, Content(m.key)>> : m \in {m \in Nodes : Beyond(n.path, m.path)}}

LEMMA BeyondSelf == ASSUME NEW p \in Seq(Steps) PROVE Beyond(p, p)
<1>1. p = p \o <<>> /\ <<>> \in Seq(Steps)
  OBVIOUS
<1> QED
  BY <1>1 DEF Beyond

LEMMA BeyondFacts ==
    ASSUME NEW p \in Seq(Steps), NEW q \in Seq(Steps), NEW s \in Steps, NEW r \in Steps
    PROVE  /\ Beyond(p, p) /\ Beyond(p, Append(p, s))
           /\ Beyond(p, q) => Beyond(p, Append(q, s))
           /\ Beyond(Append(p, s), q) => Beyond(p, q) /\ q # p
           /\ Beyond(Append(p, s), q) /\ Beyond(Append(p, r), q) => s = r
           /\ Beyond(p, Append(q, s)) => Append(q, s) = p \/ Beyond(p, q)
           /\ Beyond(<<>>, p)
<1>1. Beyond(p, p) /\ Beyond(p, Append(p, s)) /\ Beyond(<<>>, p)
  <2>1. Append(p, s) = p \o <<s>> /\ p = <<>> \o p /\ <<s>> \in Seq(Steps)
    OBVIOUS
  <2> QED
    BY <2>1, BeyondSelf DEF Beyond
<1>2. ASSUME Beyond(p, q) PROVE Beyond(p, Append(q, s))
  <2>1. PICK t \in Seq(Steps) : q = p \o t
    BY <1>2 DEF Beyond
  <2>2. Append(p \o t, s) = p \o Append(t, s) /\ Append(t, s) \in Seq(Steps)
    OBVIOUS
  <2> QED
    BY <2>1, <2>2 DEF Beyond
<1>3. ASSUME NEW x \in Steps, Beyond(Append(p, x), q)
      PROVE  Beyond(p, q) /\ q # p /\ q[Len(p) + 1] = x
  <2>1. PICK t \in Seq(Steps) : q = Append(p, x) \o t
    BY <1>3 DEF Beyond
  <2>2. PICK u : u = <<x>> \o t
    OBVIOUS
  <2>3. u \in Seq(Steps) /\ Append(p, x) \o t = p \o u
    BY <2>2
  <2>4. Len(q) = Len(p) + 1 + Len(t) /\ Len(p) \in Nat /\ Len(t) \in Nat /\ q[Len(p) + 1] = x
    BY <2>1
  <2>5. q # p
    BY <2>4
  <2> QED
    BY <2>1, <2>3, <2>4, <2>5 DEF Beyond
<1>4. ASSUME Beyond(p, Append(q, s)), Append(q, s) # p PROVE Beyond(p, q)
  <2>1. PICK t \in Seq(Steps) : Append(q, s) = p \o t
    BY <1>4 DEF Beyond
  <2>2. t # <<>>
    BY <1>4, <2>1
  <2>3. PICK u \in Seq(Steps), x \in Steps : t = Append(u, x)
    <3>1. PICK n \in Nat : n = Len(t)
      OBVIOUS
    <3>2. n > 0
      BY <2>2, <3>1
    <3>3. PICK u : u = SubSeq(t, 1, n - 1)
      OBVIOUS
    <3>4. u \in Seq(Steps) /\ t[n] \in Steps /\ t = Append(u, t[n])
      BY <3>1, <3>2, <3>3
    <3> QED
      BY <3>4
  <2>4. p \o Append(u, x) = Append(p \o u, x) /\ p \o u \in Seq(Steps)
    BY <2>3
  <2>5. PICK v \in Seq(Steps) : v = p \o u
    BY <2>4
  <2>6. Append(q, s) = Append(v, x)
    BY <2>1, <2>3, <2>4, <2>5
  <2>7. q = v
    BY <2>3, <2>6, AppendInjective
  <2> QED
    BY <2>5, <2>7 DEF Beyond
<1> QED
  BY <1>1, <1>2, <1>3, <1>4

\* Whatever is below a node is below a node right below it.
LEMMA BelowChild ==
    ASSUME HeapInv, Charted, NEW n \in Nodes, NEW m \in Nodes, Beyond(n.path, m.path), m # n
    PROVE  \E c \in Nodes : \E s \in Steps :
              c.path = Append(n.path, s) /\ Beyond(c.path, m.path)
<1> DEFINE Right(l) == \E c \in Nodes : \E s \in Steps :
                          c.path = Append(n.path, s) /\ Beyond(c.path, l.path)
           T == {l \in Nodes : Beyond(n.path, l.path) /\ l # n /\ ~Right(l)}
<1> SUFFICES ASSUME T # {} PROVE FALSE
  OBVIOUS
<1>1. PICK l \in T : \A j \in T : l.key <= j.key
  <2> DEFINE rank == [j \in T |-> j.key]
  <2>1. rank \in [T -> Nat]
    BY DEF Charted, Planted, NodeSet
  <2>2. PICK l \in T : \A j \in T : rank[l] <= rank[j]
    <3> HIDE DEF rank
    <3> QED
      BY <2>1, LeastRank
  <2> QED
    BY <2>2
<1>2. l \in Nodes /\ Beyond(n.path, l.path) /\ l # n /\ ~Right(l)
  OBVIOUS
<1> HIDE DEF T
<1>3. l # RootNode
  <2> SUFFICES ASSUME l = RootNode PROVE FALSE
    OBVIOUS
  <2>1. PICK p \in Seq(Steps) : p = n.path
    BY KindFacts
  <2>2. PICK t \in Seq(Steps) : <<>> = p \o t
    BY <1>2, <2>1, RootNodeFacts DEF Beyond
  <2>3. Len(p \o t) = Len(p) + Len(t) /\ Len(p) \in Nat /\ Len(t) \in Nat /\ Len(<<>>) = 0
    OBVIOUS
  <2>4. Len(p) = 0
    BY <2>2, <2>3
  <2>5. p = <<>>
    BY <2>4
  <2> QED
    BY <1>2, <2>1, <2>5, RootNodeFacts DEF Charted
<1>4. PICK o, s, d, c : o \in Nodes /\ s \in Steps /\ PointedTo(l, o, s, d, c)
  BY <1>2, <1>3, NodePointer
<1>5. PICK p \in Seq(Steps), q \in Seq(Steps) : p = n.path /\ q = o.path
  BY <1>4, KindFacts
<1>6. l.path = Append(q, s)
  BY <1>4, <1>5 DEF PointedTo
<1>7. Append(q, s) # p
  BY <1>2, <1>5, <1>6 DEF Charted
<1>8. Beyond(p, q)
  BY <1>2, <1>4, <1>5, <1>6, <1>7, BeyondFacts
<1>9. Beyond(l.path, l.path)
  BY <1>2, KindFacts, BeyondFacts
<1>10. o # n
  BY <1>2, <1>4, <1>5, <1>6, <1>9
<1>11. o \notin T
  <2>1. o.key < l.key /\ o.key \in Nat /\ l.key \in Nat
    <3>1. o.key \in 1 .. MaxKeys /\ l.key \in 1 .. MaxKeys
      BY <1>2, <1>4 DEF Charted, Planted, NodeSet
    <3>2. d \in NearTo[o.key] /\ l.key = d.key
      BY <1>4, <3>1 DEF PointedTo, NearTo
    <3> QED
      BY <3>1, <3>2 DEF Charted, Downward
  <2> QED
    BY <1>1, <2>1
<1>12. Right(o)
  BY <1>4, <1>5, <1>8, <1>10, <1>11 DEF T
<1>13. PICK e \in Nodes, x \in Steps : e.path = Append(p, x) /\ Beyond(e.path, q)
  BY <1>5, <1>12
<1>14. Beyond(e.path, l.path)
  <2>1. PICK u \in Seq(Steps) : u = e.path
    BY <1>13, KindFacts
  <2>2. Beyond(u, q)
    BY <1>13, <2>1
  <2>3. Beyond(u, Append(q, s))
    BY <1>4, <2>2, BeyondFacts
  <2> QED
    BY <1>6, <2>1, <2>3
<1> QED
  BY <1>2, <1>5, <1>13, <1>14

\* The nodes right below n, one after the other, and what has been found after
\* the first i of them.
Gathers(n, N, ch, sq) ==
    /\ N \in Nat /\ ch \in [1 .. N -> Nodes] /\ sq \in [1 .. N -> Steps]
    /\ \A i \in 1 .. N : ch[i].path = Append(n.path, sq[i])
    /\ \A i, j \in 1 .. N : sq[i] = sq[j] => i = j
    /\ \A c \in Nodes : \A s \in Steps :
          c.path = Append(n.path, s) => \E i \in 1 .. N : c = ch[i]

SoFar(F, ch, i)  == F \cup UNION {Below(ch[j]) : j \in 1 .. i}
Unread(F, n)     == \A f \in F : ~Beyond(n.path, f[1])

InOrder(F, n, what, N, ch) ==
    /\ Absent(F, n.path)
    /\ SoFar(Plus(F, n.path, what), ch, 0) = Plus(F, n.path, what)
    /\ \A i \in 1 .. N :
          /\ Unread(SoFar(Plus(F, n.path, what), ch, i - 1), ch[i])
          /\ SoFar(Plus(F, n.path, what), ch, i - 1) \cup Below(ch[i])
                = SoFar(Plus(F, n.path, what), ch, i)
    /\ what = Content(n.key) =>
          SoFar(Plus(F, n.path, what), ch, N) = F \cup Below(n)

LEMMA Gathered ==
    ASSUME HeapInv, Charted, NEW n \in Nodes, NEW N, NEW ch, NEW sq, Gathers(n, N, ch, sq),
           NEW F, Unread(F, n), NEW what
    PROVE  InOrder(F, n, what, N, ch)
<1>1. PICK p \in Seq(Steps) : p = n.path
  BY KindFacts
<1>2. \A m \in Nodes : m.path \in Seq(Steps)
  BY KindFacts
<1>3. /\ N \in Nat /\ \A i \in 1 .. N : ch[i] \in Nodes /\ sq[i] \in Steps
                                        /\ ch[i].path = Append(p, sq[i])
  BY <1>1 DEF Gathers
<1>0. Beyond(p, p)
  BY BeyondSelf
<1>4. Absent(F, p)
  BY <1>0, <1>1 DEF Unread, Absent
<1>5. SoFar(Plus(F, n.path, what), ch, 0) = Plus(F, n.path, what)
  BY DEF SoFar
<1> DEFINE G(i) == SoFar(Plus(F, n.path, what), ch, i)
<1>6. ASSUME NEW i \in Nat, NEW f
      PROVE  f \in G(i) <=> \/ f \in F \/ f = <<p, what>>
                            \/ \E j \in 1 .. i : f \in Below(ch[j])
  BY <1>1 DEF SoFar, Plus
<1> HIDE DEF G
<1>7. ASSUME NEW i \in 1 .. N PROVE Unread(G(i - 1), ch[i])
  <2> SUFFICES ASSUME NEW f \in G(i - 1), Beyond(ch[i].path, f[1]) PROVE FALSE
    BY DEF Unread
  <2>1. PICK x \in Steps : x = sq[i] /\ ch[i].path = Append(p, x)
    BY <1>3
  <2>2. Beyond(Append(p, x), f[1])
    BY <2>1
  <2>3. Append(p, x) \in Seq(Steps)
    OBVIOUS
  <2>4. f[1] \in Seq(Steps)
    BY <2>2, <2>3 DEF Beyond
  <2>5. Beyond(p, f[1]) /\ f[1] # p
    BY <2>2, <2>4, BeyondFacts
  <2>6. f \notin F /\ f # <<p, what>>
    BY <1>1, <2>5 DEF Unread
  <2>7. i - 1 \in Nat
    BY <1>3
  <2>8. PICK j \in 1 .. i - 1 : f \in Below(ch[j])
    BY <1>6, <2>6, <2>7
  <2>9. j \in 1 .. N /\ j # i
    BY <1>3, <2>8
  <2>10. PICK y \in Steps : y = sq[j] /\ ch[j].path = Append(p, y)
    BY <1>3, <2>9
  <2>11. Beyond(Append(p, y), f[1])
    BY <2>8, <2>10 DEF Below
  <2>12. x = y
    BY <2>2, <2>4, <2>11, BeyondFacts
  <2> QED
    BY <2>1, <2>9, <2>10, <2>12 DEF Gathers
<1>8. ASSUME NEW i \in 1 .. N PROVE G(i - 1) \cup Below(ch[i]) = G(i)
  <2>1. i \in Nat /\ i - 1 \in Nat /\ \A j : j \in 1 .. i <=> j \in 1 .. i - 1 \/ j = i
    BY <1>3
  <2>2. ASSUME NEW f PROVE f \in G(i - 1) \/ f \in Below(ch[i]) <=> f \in G(i)
    <3>1. f \in G(i - 1) <=> f \in F \/ f = <<p, what>> \/ \E j \in 1 .. i - 1 : f \in Below(ch[j])
      BY <1>6, <2>1
    <3>2. f \in G(i) <=> f \in F \/ f = <<p, what>> \/ \E j \in 1 .. i : f \in Below(ch[j])
      BY <1>6, <2>1
    <3>3. (\E j \in 1 .. i : f \in Below(ch[j]))
            <=> (\E j \in 1 .. i - 1 : f \in Below(ch[j])) \/ f \in Below(ch[i])
      BY <2>1
    <3> QED
      BY <3>1, <3>2, <3>3
  <2> QED
    BY <2>2
<1>9. ASSUME what = Content(n.key) PROVE G(N) = F \cup Below(n)
  <2>1. ASSUME NEW f \in Below(n) PROVE f \in G(N)
    <3>1. PICK m \in Nodes : Beyond(p, m.path) /\ f = <<m.path, Content(m.key)>>
      BY <1>1 DEF Below
    <3>2. CASE m = n
      BY <1>1, <1>3, <1>6, <1>9, <3>1, <3>2
    <3>3. CASE m # n
      <4>1. PICK c \in Nodes, s \in Steps : c.path = Append(p, s) /\ Beyond(c.path, m.path)
        BY <1>1, <3>1, <3>3, BelowChild
      <4>2. PICK i \in 1 .. N : c = ch[i]
        BY <1>1, <4>1 DEF Gathers
      <4>3. f \in Below(ch[i])
        BY <3>1, <4>1, <4>2 DEF Below
      <4> QED
        BY <1>3, <1>6, <4>2, <4>3
    <3> QED
      BY <3>2, <3>3
  <2>2. ASSUME NEW f \in G(N), f \notin F PROVE f \in Below(n)
    <3>1. CASE f = <<p, what>>
      BY <1>0, <1>1, <1>9, <3>1 DEF Below
    <3>2. CASE \E j \in 1 .. N : f \in Below(ch[j])
      <4>1. PICK j \in 1 .. N : f \in Below(ch[j])
        BY <3>2
      <4>2. PICK y \in Steps : ch[j].path = Append(p, y)
        BY <1>3
      <4>3. PICK m \in Nodes : Beyond(Append(p, y), m.path) /\ f = <<m.path, Content(m.key)>>
        BY <4>1, <4>2 DEF Below
      <4>4. Beyond(p, m.path)
        BY <1>2, <4>3, BeyondFacts
      <4> QED
        BY <1>1, <4>3, <4>4 DEF Below
    <3> QED
      BY <1>3, <1>6, <2>2, <3>1, <3>2
  <2>3. F \subseteq G(N)
    BY <1>3, <1>6
  <2> QED
    BY <2>1, <2>2, <2>3
<1> QED
  BY <1>1, <1>4, <1>5, <1>7, <1>8, <1>9 DEF G, InOrder

-----------------------------------------------------------------------------
(* The text of a node, read. *)

\* A loaded tree with all that is known of it.
Whole == HeapInv /\ Charted /\ Valued /\ open = <<>> /\ at = NULL /\ mode = "done"

\* The text is read as what is at the node and below it, and nothing else.
Tells(n, text) ==
    /\ text \in Seq(Tokens)
    /\ \A in \in Seq(Brackets) : \A want : \A F :
          "value" \in want /\ Unread(F, n) =>
              ReadOn(At(in, n.path, want, F), text) = At(in, n.path, MoreOrEnd, F \cup Below(n))

LEMMA ReadEnds ==
    ASSUME NEW t \in Tokens, NEW s \in Seq(Tokens), NEW r
    PROVE  /\ <<t>> \o s \in Seq(Tokens) /\ s \o <<t>> \in Seq(Tokens)
           /\ ReadOn(r, <<t>> \o s) = ReadOn(ReadToken(r, t), s)
           /\ ReadOn(r, s \o <<t>>) = ReadToken(ReadOn(r, s), t)
<1>1. <<t>> \in Seq(Tokens)
  OBVIOUS
<1>2. <<t>> \o s \in Seq(Tokens) /\ s \o <<t>> \in Seq(Tokens)
  BY <1>1
<1>3. ReadOn(r, <<t>> \o s) = ReadOn(ReadOn(r, <<t>>), s)
  BY <1>1, ReadBoth
<1>4. ReadOn(r, s \o <<t>>) = ReadOn(ReadOn(r, s), <<t>>)
  BY <1>1, ReadBoth
<1>5. \A o : ReadOn(o, <<t>>) = ReadToken(o, t)
  BY ReadOne
<1> QED
  BY <1>2, <1>3, <1>4, <1>5

\* The pointer that leads to a node right below n.
LEMMA ChildPointer ==
    ASSUME Whole, NEW n \in Nodes, NEW c \in Nodes, NEW s \in Steps, c.path = Append(n.path, s)
    PROVE  \E d : d.path = <<s>> /\ d.key = c.key /\ (BySlot(n.key, d) \/ ByCell(n.key, d))
<1>1. HeapInv /\ Charted /\ \A k : Containers(k) = {}
  BY DEF Whole, Containers
<1>2. PICK p \in Seq(Steps) : p = n.path
  BY <1>1, KindFacts
<1>3. c # RootNode
  BY <1>2, RootNodeFacts
<1>4. PICK l, r, d, b : l \in Nodes /\ r \in Steps /\ PointedTo(c, l, r, d, b)
  BY <1>1, <1>3, NodePointer
<1>5. PICK q \in Seq(Steps) : q = l.path
  BY <1>1, <1>4, KindFacts
<1>6. Append(q, r) = Append(p, s)
  BY <1>2, <1>4, <1>5 DEF PointedTo
<1>7. q = p /\ r = s
  BY <1>4, <1>6, AppendInjective
<1>8. l = n
  BY <1>1, <1>2, <1>4, <1>5, <1>7 DEF Charted
<1> QED
  BY <1>1, <1>4, <1>7, <1>8 DEF PointedTo

\* The nodes right below a key that is no array table: one for each subkey.
LEMMA SubkeysGather ==
    ASSUME Whole, NEW n \in Nodes, keys[n.key].type # "ARRAYTABLE",
           NEW N, N = Cardinality(UsedIds(n.key)), NEW sq, sq = SetToSeq(UsedIds(n.key))
    PROVE  \E ch : /\ Gathers(n, N, ch, sq)
                   /\ \A i \in 1 .. N : sq[i] \in Ids /\ ch[i].key = has_subkey(n.key, sq[i])
<1>1. HeapInv /\ Charted
  BY DEF Whole
<1>2. n.key \in Allocated /\ n.key \in 1 .. MaxKeys /\ n \in NodeSet
  BY <1>1, KindFacts DEF Charted, Loose, NodeSet
<1>3. PICK p \in Seq(Steps) : p = n.path
  BY <1>1, KindFacts
<1>4. /\ N \in Nat /\ sq \in [1 .. N -> UsedIds(n.key)]
      /\ \A i, j \in 1 .. N : sq[i] = sq[j] => i = j
      /\ \A id \in UsedIds(n.key) : \E i \in 1 .. N : sq[i] = id
  BY <1>1, <1>2, UsedListed
<1>5. \A id \in UsedIds(n.key) : id \in Ids /\ id \in Steps
  BY DEF UsedIds, Steps
<1>6. ASSUME NEW id \in UsedIds(n.key)
      PROVE  \E c \in Nodes : c.path = Append(p, id) /\ c.key = has_subkey(n.key, id)
  <2>1. PICK d : d = Node(<<id>>, has_subkey(n.key, id), KindOf(has_subkey(n.key, id)))
    OBVIOUS
  <2>2. d \in Near(n.key)
    BY <2>1, NearIs
  <2>3. Beneath(n, d) \in Nodes /\ d \in NodeSet
    BY <1>1, <1>2, <2>2 DEF Charted, Planted, Downward, NearTo
  <2>4. Beneath(n, d).path = p \o <<id>> /\ Beneath(n, d).key = has_subkey(n.key, id)
    BY <1>2, <1>3, <2>1, <2>3, BeneathFacts DEF Node
  <2>5. p \o <<id>> = Append(p, id)
    BY <1>5, PathsGrow
  <2> QED
    BY <2>3, <2>4, <2>5
<1> DEFINE Right(c, i) == c.path = Append(p, sq[i]) /\ c.key = has_subkey(n.key, sq[i])
<1>7. ASSUME NEW i \in 1 .. N PROVE \E c \in Nodes : Right(c, i)
  BY <1>4, <1>6
<1>8. PICK ch : ch = [i \in 1 .. N |-> CHOOSE c \in Nodes : Right(c, i)]
  OBVIOUS
<1>9. ASSUME NEW i \in 1 .. N PROVE ch[i] \in Nodes /\ Right(ch[i], i)
  <2> HIDE DEF Right
  <2> QED
    BY <1>7, <1>8
<1>10. ch \in [1 .. N -> Nodes] /\ sq \in [1 .. N -> Steps]
  <2>1. ch \in [1 .. N -> Nodes]
    BY <1>8, <1>9
  <2> QED
    BY <1>4, <1>5, <2>1
<1>11. ASSUME NEW c \in Nodes, NEW s \in Steps, c.path = Append(p, s)
       PROVE  \E i \in 1 .. N : c = ch[i]
  <2>1. PICK d : d.path = <<s>> /\ d.key = c.key /\ (BySlot(n.key, d) \/ ByCell(n.key, d))
    BY <1>3, <1>11, ChildPointer
  <2>2. BySlot(n.key, d)
    BY <2>1 DEF ByCell
  <2>3. PICK id \in UsedIds(n.key) : d.path = <<id>>
    BY <2>2 DEF BySlot, Node
  <2>4. id = s
    BY <2>1, <2>3
  <2>5. PICK i \in 1 .. N : sq[i] = id
    BY <1>4
  <2>6. ch[i].path = c.path /\ ch[i] \in Nodes
    BY <1>9, <1>11, <2>4, <2>5
  <2> QED
    BY <1>1, <2>6 DEF Charted
<1>13. \A i \in 1 .. N : ch[i].path = Append(n.path, sq[i])
  BY <1>3, <1>9
<1> HIDE DEF Right
<1>14. \A c \in Nodes : \A s \in Steps : c.path = Append(n.path, s) => \E i \in 1 .. N : c = ch[i]
  BY <1>3, <1>11
<1>15. \A i, j \in 1 .. N : sq[i] = sq[j] => i = j
  BY <1>4
<1>12. Gathers(n, N, ch, sq)
  BY <1>4, <1>10, <1>13, <1>14, <1>15, Zenon DEF Gathers
<1> QED
  BY <1>4, <1>5, <1>9, <1>12 DEF Right

\* The nodes right below an array table: one for each of its tables.
LEMMA TablesGather ==
    ASSUME Whole, NEW n \in Nodes, keys[n.key].type = "ARRAYTABLE"
    PROVE  \E N \in Nat \ {0} : \E ch, sq :
              /\ N = keys[n.key].idx + 1
              /\ Gathers(n, N, ch, sq)
              /\ \A i \in 1 .. N : sq[i] = i - 1 /\ ch[i].key = Cell(n.key, i - 1)
<1>1. HeapInv /\ Charted
  BY DEF Whole
<1>2. n.key \in Allocated
  BY <1>1 DEF Charted, Loose
<1>3. PICK p \in Seq(Steps) : p = n.path
  BY <1>1, KindFacts
<1>4. keys[n.key].idx \in 0 .. MaxArray - 1
  <2>1. keys[n.key].idx \in -1 .. MaxArray - 1
    BY <1>1, <1>2, Pointers DEF HeapInv, IInv, KeyType
  <2>2. keys[n.key].idx >= 0
    BY <1>2 DEF Whole, HeapInv, IInv, ArrayTablesReady, NULL, Allocated
  <2> QED
    BY <2>1, <2>2
<1>5. PICK N \in Nat \ {0} : N = keys[n.key].idx + 1
  BY <1>4
<1>18. PICK sq : sq = [i \in 1 .. N |-> i - 1]
  OBVIOUS
<1>6. \A i \in 1 .. N : i - 1 \in 0 .. keys[n.key].idx /\ i - 1 \in Indices
  BY <1>4, <1>5 DEF Indices
<1>7. \A i \in 1 .. N : sq[i] = i - 1 /\ sq[i] \in Steps
  BY <1>6, <1>18 DEF Steps
<1> DEFINE Right(c, i) == c.path = Append(p, i - 1) /\ c.key = Cell(n.key, i - 1)
<1>8. ASSUME NEW i \in 1 .. N PROVE \E c \in Nodes : Right(c, i)
  <2>1. PICK j \in 0 .. keys[n.key].idx : j = i - 1
    BY <1>6
  <2>2. PICK c \in Nodes : c.path = Append(n.path, j) /\ c.key = Cell(n.key, j)
    BY <1>1, TablesAre
  <2> QED
    BY <1>3, <2>1, <2>2
<1>9. PICK ch : ch = [i \in 1 .. N |-> CHOOSE c \in Nodes : Right(c, i)]
  OBVIOUS
<1>10. ASSUME NEW i \in 1 .. N PROVE ch[i] \in Nodes /\ Right(ch[i], i)
  <2> HIDE DEF Right
  <2> QED
    BY <1>8, <1>9
<1>11. ch \in [1 .. N -> Nodes] /\ sq \in [1 .. N -> Steps]
  <2>1. ch \in [1 .. N -> Nodes]
    BY <1>9, <1>10
  <2> QED
    BY <1>7, <1>18, <2>1
<1>12. ASSUME NEW c \in Nodes, NEW s \in Steps, c.path = Append(p, s)
       PROVE  \E i \in 1 .. N : c = ch[i]
  <2>1. PICK d : d.path = <<s>> /\ d.key = c.key /\ (BySlot(n.key, d) \/ ByCell(n.key, d))
    BY <1>3, <1>12, ChildPointer
  <2>2. ByCell(n.key, d)
    <3>1. UsedIds(n.key) = {}
      BY <1>1, <1>2 DEF HeapInv, IInv, ArrayTablesReady
    <3> QED
      BY <2>1, <3>1 DEF BySlot
  <2>3. PICK j \in Indices : j <= keys[n.key].idx /\ d.path = <<j>>
    BY <2>2 DEF ByCell, Node
  <2>4. j = s
    BY <2>1, <2>3
  <2>5. j + 1 \in 1 .. N /\ (j + 1) - 1 = j
    BY <1>4, <1>5, <2>3 DEF Indices
  <2>6. ch[j + 1].path = c.path /\ ch[j + 1] \in Nodes
    BY <1>10, <1>12, <2>4, <2>5
  <2> QED
    BY <1>1, <2>5, <2>6 DEF Charted
<1>13. \A i, j \in 1 .. N : sq[i] = sq[j] => i = j
  BY <1>5, <1>7
<1>14. \A i \in 1 .. N : ch[i].path = Append(p, sq[i])
  BY <1>7, <1>10
<1> HIDE DEF Right
<1>15. \A i \in 1 .. N : ch[i].path = Append(n.path, sq[i])
  BY <1>3, <1>14
<1>16. \A c \in Nodes : \A s \in Steps : c.path = Append(n.path, s) => \E i \in 1 .. N : c = ch[i]
  BY <1>3, <1>12
<1>17. Gathers(n, N, ch, sq)
  <2>1. N \in Nat /\ ch \in [1 .. N -> Nodes] /\ sq \in [1 .. N -> Steps]
    BY <1>5, <1>11
  <2> QED
    BY <1>13, <1>15, <1>16, <2>1, Zenon DEF Gathers
<1> QED
  BY <1>5, <1>7, <1>10, <1>17 DEF Right

\* A key and its subkeys between braces.
LEMMA BracesTell ==
    ASSUME Whole, NEW n \in Nodes, keys[n.key].type # "ARRAYTABLE", ~Leaf(n.key), NEW text,
           \A c \in Nodes : c.key > n.key => Tells(c, text[c.key])
    PROVE  Tells(n, Braces(n.key, text))
<1> DEFINE N  == Cardinality(UsedIds(n.key))
           sq == SetToSeq(UsedIds(n.key))
           texts == [i \in 1 .. N |-> <<<<"id", sq[i]>>>> \o text[has_subkey(n.key, sq[i])]]
<1>1. PICK ch : /\ Gathers(n, N, ch, sq)
                /\ \A i \in 1 .. N : sq[i] \in Ids /\ ch[i].key = has_subkey(n.key, sq[i])
  BY SubkeysGather
<1>2. Braces(n.key, text) = <<<<"{">>>> \o Listed(texts) \o <<<<"}">>>>
  BY DEF Braces
<1> HIDE DEF N, sq
<1>3. HeapInv /\ Charted
  BY DEF Whole
<1>4. N \in Nat /\ \A i \in 1 .. N : ch[i] \in Nodes /\ sq[i] \in Steps
                                     /\ ch[i].path = Append(n.path, sq[i])
  BY <1>1 DEF Gathers
<1>5. PICK p \in Seq(Steps) : p = n.path
  BY <1>3, KindFacts
<1>6. ASSUME NEW i \in 1 .. N
      PROVE  /\ Tells(ch[i], text[ch[i].key])
             /\ texts[i] = <<<<"id", sq[i]>>>> \o text[ch[i].key]
             /\ <<"id", sq[i]>> \in Tokens
  <2>1. ch[i] \in Nodes /\ ch[i].path = Append(n.path, sq[i]) /\ sq[i] \in Steps
    BY <1>4
  <2>2. ch[i].key > n.key
    <3>1. PICK d : d.path = <<sq[i]>> /\ d.key = ch[i].key /\ (BySlot(n.key, d) \/ ByCell(n.key, d))
      BY <2>1, ChildPointer
    <3>2. BySlot(n.key, d)
      BY <3>1 DEF ByCell
    <3>3. PICK id \in Ids : has_subkey(n.key, id) # NULL /\ d.key = has_subkey(n.key, id)
      BY <3>2 DEF BySlot, Node
    <3>4. n.key \in Allocated
      BY <1>3 DEF Charted, Loose
    <3>5. n.key < has_subkey(n.key, id) /\ has_subkey(n.key, id) \in Allocated
      BY <1>3, <3>3, <3>4, Pointers DEF HeapInv, IInv
    <3> QED
      BY <3>1, <3>3, <3>4, <3>5 DEF Allocated
  <2>3. <<"id", sq[i]>> \in Tokens
    BY <1>1 DEF Tokens
  <2> QED
    BY <1>1, <2>1, <2>2, <2>3
<1>7. ASSUME NEW i \in 1 .. N PROVE texts[i] \in Seq(Tokens)
  <2>1. text[ch[i].key] \in Seq(Tokens)
    BY <1>6 DEF Tells
  <2> QED
    BY <1>6, <2>1, ReadEnds
<1>8. Len(texts) = N
  BY <1>4
<1> HIDE DEF texts
<1>9. <<",">> \in Tokens /\ <<"{">> \in Tokens /\ <<"}">> \in Tokens
  BY DEF Tokens
<1>10. Content(n.key) = "table"
  <2>1. n.key \in Allocated /\ keys[n.key] \in KeyType
    BY <1>3, Pointers DEF Charted, Loose, HeapInv, IInv
  <2>2. keys[n.key].value = "none"
    BY <2>1 DEF Leaf, Whole, Valued, KeyType
  <2> QED
    BY <2>2 DEF Content
<1>13. Gathers(n, N, ch, sq) /\ N \in Nat
  BY <1>1, <1>4
<1>11. ASSUME NEW in \in Seq(Brackets), NEW want, NEW F, "value" \in want, Unread(F, n)
       PROVE  /\ Listed(texts) \in Seq(Tokens)
              /\ ReadOn(At(in, p, want, F), Braces(n.key, text))
                   = At(in, p, MoreOrEnd, F \cup Below(n))
  <2> DEFINE G(i) == SoFar(Plus(F, n.path, "table"), ch, i)
  <2>0. /\ Absent(F, n.path) /\ G(0) = Plus(F, n.path, "table") /\ G(N) = F \cup Below(n)
        /\ \A i \in 1 .. N : Unread(G(i - 1), ch[i]) /\ G(i - 1) \cup Below(ch[i]) = G(i)
    <3>1. PICK what : what = "table"
      OBVIOUS
    <3>2. what = Content(n.key) /\ Unread(F, n)
      BY <1>10, <1>11, <3>1
    <3>3. InOrder(F, n, what, N, ch)
      BY <1>3, <1>13, <3>2, Gathered
    <3> QED
      BY <3>1, <3>2, <3>3, Zenon DEF InOrder
  <2>1. /\ Absent(F, p) /\ G(0) = Plus(F, p, "table") /\ G(N) = F \cup Below(n)
        /\ \A i \in 1 .. N : Unread(G(i - 1), ch[i]) /\ G(i - 1) \cup Below(ch[i]) = G(i)
    BY <1>5, <2>0
  <2> HIDE DEF G
  <2>2. PICK in2 : in2 = Append(in, "{")
    OBVIOUS
  <2>3. in2 \in Seq(Brackets)
    <3>1. PICK c \in Brackets : c = "{"
      BY DEF Brackets
    <3>2. Append(in, c) \in Seq(Brackets)
      OBVIOUS
    <3> QED
      BY <2>2, <3>1, <3>2, Zenon
  <2> DEFINE st == [i \in 0 .. N |->
                      IF i = N /\ N > 0 THEN At(in2, Append(p, sq[N]), MoreOrEnd, G(N))
                      ELSE At(in2, p, IF i = 0 THEN IdOrEnd ELSE {"id"}, G(i))]
  <2>4. ASSUME NEW i \in 1 .. N
        PROVE  ReadOn(st[i - 1], texts[i] \o Comma(i, N)) = st[i]
    <3>1. PICK s \in Steps : s = sq[i]
      BY <1>4
    <3>2. PICK t \in Seq(Tokens) : t = text[ch[i].key]
      BY <1>6 DEF Tells
    <3>3. PICK w : w = (IF i - 1 = 0 THEN IdOrEnd ELSE {"id"})
      OBVIOUS
    <3>4. st[i - 1] = At(in2, p, w, G(i - 1)) /\ "id" \in w
      BY <1>4, <3>3 DEF IdOrEnd
    <3>5. texts[i] = <<<<"id", s>>>> \o t /\ <<"id", s>> \in Tokens
      BY <1>6, <3>1, <3>2
    <3>6. PICK o : o = At(in2, Append(p, s), {"value"}, G(i - 1))
      OBVIOUS
    <3>7. ReadToken(st[i - 1], <<"id", s>>) = o
      BY <3>4, <3>6, IdRead
    <3>8. ReadOn(st[i - 1], texts[i]) = ReadOn(o, t)
      <4>1. PICK e \in Tokens : e = <<"id", s>>
        BY <3>5
      <4>2. \A r : ReadOn(r, <<e>> \o t) = ReadOn(ReadToken(r, e), t)
        BY ReadEnds
      <4>3. texts[i] = <<e>> \o t
        BY <3>5, <4>1
      <4>4. ReadToken(st[i - 1], e) = o
        BY <3>7, <4>1
      <4> QED
        BY <4>2, <4>3, <4>4
    <3>9. ReadOn(o, t) = At(in2, Append(p, s), MoreOrEnd, G(i))
      <4>1. ch[i].path = Append(p, s) /\ Unread(G(i - 1), ch[i])
            /\ G(i - 1) \cup Below(ch[i]) = G(i)
        BY <1>4, <1>5, <2>1, <3>1
      <4>2. Tells(ch[i], t)
        BY <1>6, <3>2
      <4> QED
        <5>1. \A a, H : "value" \in a /\ Unread(H, ch[i]) =>
                 ReadOn(At(in2, ch[i].path, a, H), t)
                    = At(in2, ch[i].path, MoreOrEnd, H \cup Below(ch[i]))
          BY <2>3, <4>2 DEF Tells
        <5>2. PICK a : a = {"value"}
          OBVIOUS
        <5>3. "value" \in a /\ o = At(in2, ch[i].path, a, G(i - 1))
          BY <3>6, <4>1, <5>2
        <5> QED
          BY <4>1, <5>1, <5>3, Zenon
    <3>10. ReadOn(st[i - 1], texts[i] \o Comma(i, N)) = ReadOn(ReadOn(o, t), Comma(i, N))
      <4>1. Comma(i, N) \in Seq(Tokens)
        BY <1>9, CommaIn
      <4>2. ReadOn(st[i - 1], texts[i] \o Comma(i, N))
              = ReadOn(ReadOn(st[i - 1], texts[i]), Comma(i, N))
        BY <1>7, <4>1, ReadBoth
      <4> QED
        BY <3>8, <4>2
    <3>11. PICK u : u = At(in2, Append(p, s), MoreOrEnd, G(i))
      OBVIOUS
    <3>12. CASE i = N
      <4>1. Comma(i, N) = <<>>
        BY <1>4, <3>12 DEF Comma
      <4>2. st[i] = u
        BY <1>4, <3>1, <3>11, <3>12
      <4>3. ReadOn(u, <<>>) = u
        BY ReadOne
      <4> QED
        BY <3>9, <3>10, <3>11, <4>1, <4>2, <4>3
    <3>13. CASE i # N
      <4>0. N - i > 0
        BY <1>13, <3>13
      <4>1. Comma(i, N) = <<<<",">>>>
        BY <4>0 DEF Comma
      <4>2. st[i] = At(in2, p, {"id"}, G(i))
        BY <1>4, <3>13
      <4>3. ReadOn(u, <<<<",">>>>) = ReadToken(u, <<",">>)
        BY ReadOne
      <4>4. ReadToken(u, <<",">>) = At(in2, p, {"id"}, G(i))
        BY <2>2, <3>11, CommaRead
      <4> QED
        BY <3>9, <3>10, <3>11, <4>1, <4>2, <4>3, <4>4
    <3> QED
      BY <3>12, <3>13
  <2>5. ReadInTurn(Tokens, N, texts, st)
    BY <1>7, <1>8, <1>9, <2>4 DEF ReadInTurn
  <2>6. Listed(texts) \in Seq(Tokens) /\ ReadOn(st[0], Listed(texts)) = st[N]
    <3> HIDE DEF st
    <3>1. \A s : ReadInTurn(Tokens, N, texts, s) =>
                    Listed(texts) \in Seq(Tokens) /\ ReadOn(s[0], Listed(texts)) = s[N]
      BY <1>13, ListRead
    <3> QED
      BY <2>5, <3>1
  <2>7. PICK l \in Seq(Tokens) : l = Listed(texts)
    BY <2>6
  <2>8. ReadToken(At(in, p, want, F), <<"{">>) = st[0]
    <3>1. ReadToken(At(in, p, want, F), <<"{">>) = At(in2, p, IdOrEnd, Plus(F, p, "table"))
      <4>1. Absent(F, p)
        BY <2>1
      <4>2. Entering(in, p, want, F)
        BY <1>11, <4>1, OpensRead
      <4> QED
        BY <2>2, <4>2, Zenon DEF Entering
    <3>2. st[0] = At(in2, p, IdOrEnd, G(0))
      BY <1>4
    <3> QED
      BY <2>1, <3>1, <3>2
  <2>15. PICK H : H = G(N)
    OBVIOUS
  <2>16. /\ ReadToken(At(in2, p, IdOrEnd, H), <<"}">>) = At(in, p, MoreOrEnd, H)
         /\ \A x \in Steps : ReadToken(At(in2, Append(p, x), MoreOrEnd, H), <<"}">>)
                                = At(in, p, MoreOrEnd, H)
    <3>1. 0 \in Steps
      BY DEF Steps, Indices
    <3> QED
      BY <2>2, <3>1, ClosesRead
  <2>9. ReadToken(st[N], <<"}">>) = At(in, p, MoreOrEnd, G(N))
    <3>1. CASE N = 0
      <4>1. st[N] = At(in2, p, IdOrEnd, G(N))
        BY <3>1
      <4> QED
        BY <2>15, <2>16, <4>1
    <3>2. CASE N # 0
      <4>1. st[N] = At(in2, Append(p, sq[N]), MoreOrEnd, G(N))
        BY <1>4, <3>2
      <4>2. sq[N] \in Steps
        BY <1>4, <3>2
      <4> QED
        BY <2>15, <2>16, <4>1, <4>2
    <3> QED
      BY <3>1, <3>2
  <2> HIDE DEF st
  <2>10. ReadOn(At(in, p, want, F), <<<<"{">>>> \o l) = st[N]
    <3>1. PICK e \in Tokens : e = <<"{">>
      BY <1>9
    <3>2. \A r : ReadOn(r, <<e>> \o l) = ReadOn(ReadToken(r, e), l)
      BY ReadEnds
    <3>3. ReadOn(At(in, p, want, F), <<<<"{">>>> \o l) = ReadOn(st[0], l)
      BY <2>8, <3>1, <3>2, Zenon
    <3> QED
      BY <2>6, <2>7, <3>3
  <2>11. <<<<"{">>>> \o l \in Seq(Tokens)
    BY <1>9, ReadEnds
  <2>12. PICK o \in Seq(Tokens) : o = <<<<"{">>>> \o l
    BY <2>11
  <2>13. ReadOn(At(in, p, want, F), o \o <<<<"}">>>>)
           = ReadToken(ReadOn(At(in, p, want, F), o), <<"}">>)
    BY <1>9, ReadEnds
  <2>14. Braces(n.key, text) = o \o <<<<"}">>>>
    BY <1>2, <2>7, <2>12
  <2> QED
    BY <2>1, <2>6, <2>9, <2>10, <2>12, <2>13, <2>14
<1>12. Braces(n.key, text) \in Seq(Tokens)
  <2>1. PICK F, want, in : F = {} /\ want = {"value"} /\ in = <<>>
    OBVIOUS
  <2>2. in \in Seq(Brackets) /\ "value" \in want /\ Unread(F, n)
    BY <2>1 DEF Unread
  <2>3. PICK l \in Seq(Tokens) : l = Listed(texts)
    BY <1>11, <2>2
  <2>4. PICK o \in Seq(Tokens) : o = <<<<"{">>>> \o l
    BY <1>9, ReadEnds
  <2>5. o \o <<<<"}">>>> \in Seq(Tokens)
    BY <1>9, ReadEnds
  <2> QED
    BY <1>2, <2>3, <2>4, <2>5
<1> QED
  BY <1>5, <1>11, <1>12 DEF Tells

\* An array of tables between brackets.
LEMMA TablesTell ==
    ASSUME Whole, NEW n \in Nodes, keys[n.key].type = "ARRAYTABLE", NEW text,
           \A c \in Nodes : c.key > n.key /\ keys[c.key].type = "KEY"
                               => Tells(c, Braces(c.key, text))
    PROVE  Tells(n, toml_key_dump(n.key, text))
<1>1. PICK N \in Nat \ {0} : \E ch, sq :
         /\ N = keys[n.key].idx + 1
         /\ Gathers(n, N, ch, sq)
         /\ \A i \in 1 .. N : sq[i] = i - 1 /\ ch[i].key = Cell(n.key, i - 1)
  BY TablesGather
<1>2. PICK ch, sq : /\ N = keys[n.key].idx + 1
                    /\ Gathers(n, N, ch, sq)
                    /\ \A i \in 1 .. N : sq[i] = i - 1 /\ ch[i].key = Cell(n.key, i - 1)
  BY <1>1
<1>3. HeapInv /\ Charted /\ n.key \in Allocated
  BY DEF Whole, Charted, Loose
<1>4. \A i \in 1 .. N : /\ ch[i] \in Nodes /\ sq[i] \in Steps /\ sq[i] = i - 1
                        /\ ch[i].path = Append(n.path, sq[i]) /\ ch[i].key = Cell(n.key, i - 1)
  BY <1>2 DEF Gathers
<1>5. PICK p \in Seq(Steps) : p = n.path
  BY <1>3, KindFacts
<1>6. keys[n.key].idx \in -1 .. MaxArray - 1
  BY <1>3, Pointers DEF HeapInv, IInv, KeyType
<1>7. keys[n.key].idx >= 0 /\ N \in Nat /\ N # 0 /\ keys[n.key].idx + 1 = N
  BY <1>2, <1>6
<1>8. PICK texts : texts = [i \in 1 .. N |-> Braces(Cell(n.key, i - 1), text)]
  OBVIOUS
<1>9. toml_key_dump(n.key, text) = <<<<"[">>>> \o Listed(texts) \o <<<<"]">>>>
  <2>1. ~Leaf(n.key)
    BY DEF Leaf
  <2>2. texts = [i \in 1 .. keys[n.key].idx + 1 |-> Braces(keys[n.key].arr[i - 1], text)]
    BY <1>7, <1>8 DEF Cell
  <2>3. ~(keys[n.key].idx < 0)
    <3>1. PICK i \in 0 .. MaxArray - 1 : i = keys[n.key].idx
      BY <1>6, <1>7
    <3> QED
      BY <3>1
  <2> QED
    BY <2>1, <2>2, <2>3 DEF toml_key_dump
<1>10. ASSUME NEW i \in 1 .. N
       PROVE  Tells(ch[i], texts[i])
  <2>1. i - 1 \in 0 .. keys[n.key].idx /\ i - 1 \in 0 .. MaxArray - 1
    BY <1>6, <1>7
  <2>2. Cell(n.key, i - 1) # NULL
    BY <1>3, <2>1 DEF HeapInv, IInv, ArrayTablesReady, Cell
  <2>3. keys[Cell(n.key, i - 1)].type = "KEY"
    BY <1>3, <2>1, <2>2 DEF HeapInv, IInv, ElementsPlain, Cell
  <2>4. Cell(n.key, i - 1) \in Allocated /\ n.key < Cell(n.key, i - 1)
    BY <1>3, <2>1, <2>2, Pointers DEF HeapInv, IInv, Cell
  <2>5. ch[i] \in Nodes /\ ch[i].key = Cell(n.key, i - 1)
    BY <1>4
  <2>6. ch[i].key > n.key
    BY <1>3, <2>4, <2>5 DEF Allocated
  <2>7. texts[i] = Braces(ch[i].key, text)
    BY <1>8, <2>5
  <2> QED
    BY <2>3, <2>5, <2>6, <2>7
<1>11. \A i \in 1 .. N : texts[i] \in Seq(Tokens)
  BY <1>10 DEF Tells
<1>12. <<",">> \in Tokens /\ <<"[">> \in Tokens /\ <<"]">> \in Tokens
  BY DEF Tokens
<1>13. Content(n.key) = "array"
  BY <1>3, <1>7 DEF HeapInv, IInv, ArrayTablesReady, Content
<1>14. ASSUME NEW in \in Seq(Brackets), NEW want, NEW F, "value" \in want, Unread(F, n)
       PROVE  /\ Listed(texts) \in Seq(Tokens)
              /\ ReadOn(At(in, p, want, F), toml_key_dump(n.key, text))
                   = At(in, p, MoreOrEnd, F \cup Below(n))
  <2> DEFINE G(i) == SoFar(Plus(F, n.path, "array"), ch, i)
  <2>0. /\ Absent(F, n.path) /\ G(0) = Plus(F, n.path, "array") /\ G(N) = F \cup Below(n)
        /\ \A i \in 1 .. N : Unread(G(i - 1), ch[i]) /\ G(i - 1) \cup Below(ch[i]) = G(i)
    <3>1. PICK what : what = "array"
      OBVIOUS
    <3>2. what = Content(n.key) /\ Unread(F, n)
      BY <1>13, <1>14, <3>1
    <3>3. InOrder(F, n, what, N, ch)
      BY <1>2, <1>3, <3>2, Gathered
    <3> QED
      BY <3>1, <3>2, <3>3, Zenon DEF InOrder
  <2>1. /\ Absent(F, p) /\ G(0) = Plus(F, p, "array") /\ G(N) = F \cup Below(n)
        /\ \A i \in 1 .. N : Unread(G(i - 1), ch[i]) /\ G(i - 1) \cup Below(ch[i]) = G(i)
    BY <1>5, <2>0
  <2> HIDE DEF G
  <2>2. PICK in2 : in2 = Append(in, "[")
    OBVIOUS
  <2>3. in2 \in Seq(Brackets)
    <3>1. PICK c \in Brackets : c = "["
      BY DEF Brackets
    <3>2. Append(in, c) \in Seq(Brackets)
      OBVIOUS
    <3> QED
      BY <2>2, <3>1, <3>2, Zenon
  <2> DEFINE st == [i \in 0 .. N |->
                      IF i = N THEN At(in2, Append(p, N - 1), MoreOrEnd, G(N))
                      ELSE At(in2, Append(p, i), IF i = 0 THEN ValueOrEnd ELSE {"value"}, G(i))]
  <2>4. ASSUME NEW i \in 1 .. N
        PROVE  ReadOn(st[i - 1], texts[i] \o Comma(i, N)) = st[i]
    <3>1. PICK s \in Steps : s = sq[i] /\ s = i - 1 /\ s + 1 = i
      BY <1>4
    <3>2. PICK t \in Seq(Tokens) : t = texts[i]
      BY <1>11
    <3>3. PICK w : w = (IF i - 1 = 0 THEN ValueOrEnd ELSE {"value"})
      OBVIOUS
    <3>4. st[i - 1] = At(in2, Append(p, s), w, G(i - 1)) /\ "value" \in w
      BY <1>7, <3>1, <3>3 DEF ValueOrEnd
    <3>5. PICK u : u = At(in2, Append(p, s), MoreOrEnd, G(i))
      OBVIOUS
    <3>6. ReadOn(st[i - 1], t) = u
      <4>1. ch[i].path = Append(p, s) /\ Unread(G(i - 1), ch[i])
            /\ G(i - 1) \cup Below(ch[i]) = G(i)
        BY <1>4, <1>5, <2>1, <3>1
      <4>2. Tells(ch[i], t)
        BY <1>10, <3>2
      <4>3. PICK o : o = At(in2, Append(p, s), w, G(i - 1))
        OBVIOUS
      <4>4. ReadOn(o, t) = At(in2, Append(p, s), MoreOrEnd, G(i))
        <5>1. \A a, H : "value" \in a /\ Unread(H, ch[i]) =>
                 ReadOn(At(in2, ch[i].path, a, H), t)
                    = At(in2, ch[i].path, MoreOrEnd, H \cup Below(ch[i]))
          BY <2>3, <4>2 DEF Tells
        <5>2. "value" \in w
          BY <3>4
        <5> QED
          BY <4>1, <4>3, <5>1, <5>2, Zenon
      <4> QED
        BY <3>4, <3>5, <4>3, <4>4
    <3>7. ReadOn(st[i - 1], texts[i] \o Comma(i, N)) = ReadOn(u, Comma(i, N))
      <4>1. Comma(i, N) \in Seq(Tokens)
        BY <1>12, CommaIn
      <4>2. ReadOn(st[i - 1], t \o Comma(i, N)) = ReadOn(ReadOn(st[i - 1], t), Comma(i, N))
        BY <4>1, ReadBoth
      <4> QED
        BY <3>2, <3>6, <4>2
    <3>8. CASE i = N
      <4>1. Comma(i, N) = <<>>
        BY <1>7, <3>8 DEF Comma
      <4>2. st[i] = u
        BY <1>7, <3>1, <3>5, <3>8
      <4>3. ReadOn(u, <<>>) = u
        BY ReadOne
      <4> QED
        BY <3>7, <4>1, <4>2, <4>3
    <3>9. CASE i # N
      <4>0. N - i > 0 /\ i # 0 /\ i \in 0 .. N
        BY <1>7, <3>9
      <4>1. Comma(i, N) = <<<<",">>>>
        BY <4>0 DEF Comma
      <4>2. st[i] = At(in2, Append(p, i), {"value"}, G(i))
        BY <3>9, <4>0
      <4>3. ReadOn(u, <<<<",">>>>) = ReadToken(u, <<",">>)
        BY ReadOne
      <4>4. ReadToken(u, <<",">>) = At(in2, Append(p, s + 1), {"value"}, G(i))
        BY <2>2, <3>5, CommaRead
      <4> QED
        BY <3>1, <3>7, <4>1, <4>2, <4>3, <4>4
    <3> QED
      BY <3>8, <3>9
  <2>5. ReadInTurn(Tokens, N, texts, st)
    <3>1. Len(texts) = N
      BY <1>7, <1>8
    <3> QED
      BY <1>11, <1>12, <2>4, <3>1 DEF ReadInTurn
  <2>6. Listed(texts) \in Seq(Tokens) /\ ReadOn(st[0], Listed(texts)) = st[N]
    <3> HIDE DEF st
    <3>1. \A s : ReadInTurn(Tokens, N, texts, s) =>
                    Listed(texts) \in Seq(Tokens) /\ ReadOn(s[0], Listed(texts)) = s[N]
      BY <1>7, ListRead
    <3> QED
      BY <2>5, <3>1
  <2>7. PICK l \in Seq(Tokens) : l = Listed(texts)
    BY <2>6
  <2>8. ReadToken(At(in, p, want, F), <<"[">>) = st[0]
    <3>1. ReadToken(At(in, p, want, F), <<"[">>)
             = At(in2, Append(p, 0), ValueOrEnd, Plus(F, p, "array"))
      <4>1. Absent(F, p)
        BY <2>1
      <4>2. Entering(in, p, want, F)
        BY <1>14, <4>1, OpensRead
      <4> QED
        BY <2>2, <4>2, Zenon DEF Entering
    <3>2. st[0] = At(in2, Append(p, 0), ValueOrEnd, G(0))
      BY <1>7
    <3> QED
      BY <2>1, <3>1, <3>2
  <2>9. ReadToken(st[N], <<"]">>) = At(in, p, MoreOrEnd, G(N))
    <3>1. PICK s \in Steps : s = N - 1
      <4>1. N \in 1 .. N
        BY <1>7
      <4> QED
        BY <1>4, <4>1
    <3>2. PICK H : H = G(N)
      OBVIOUS
    <3>3. st[N] = At(in2, Append(p, s), MoreOrEnd, H)
      BY <1>7, <3>1, <3>2
    <3>4. ReadToken(At(in2, Append(p, s), MoreOrEnd, H), <<"]">>) = At(in, p, MoreOrEnd, H)
      BY <2>2, ClosesRead
    <3> QED
      BY <3>2, <3>3, <3>4
  <2> HIDE DEF st
  <2>10. ReadOn(At(in, p, want, F), <<<<"[">>>> \o l) = st[N]
    <3>1. PICK e \in Tokens : e = <<"[">>
      BY <1>12
    <3>2. \A r : ReadOn(r, <<e>> \o l) = ReadOn(ReadToken(r, e), l)
      BY ReadEnds
    <3>3. ReadOn(At(in, p, want, F), <<<<"[">>>> \o l) = ReadOn(st[0], l)
      BY <2>8, <3>1, <3>2, Zenon
    <3> QED
      BY <2>6, <2>7, <3>3
  <2>11. <<<<"[">>>> \o l \in Seq(Tokens)
    BY <1>12, ReadEnds
  <2>12. PICK o \in Seq(Tokens) : o = <<<<"[">>>> \o l
    BY <2>11
  <2>13. ReadOn(At(in, p, want, F), o \o <<<<"]">>>>)
           = ReadToken(ReadOn(At(in, p, want, F), o), <<"]">>)
    BY <1>12, ReadEnds
  <2>14. toml_key_dump(n.key, text) = o \o <<<<"]">>>>
    BY <1>9, <2>7, <2>12
  <2> QED
    BY <2>1, <2>6, <2>9, <2>10, <2>12, <2>13, <2>14
<1>15. toml_key_dump(n.key, text) \in Seq(Tokens)
  <2>1. PICK F, want, in : F = {} /\ want = {"value"} /\ in = <<>>
    OBVIOUS
  <2>2. in \in Seq(Brackets) /\ "value" \in want /\ Unread(F, n)
    BY <2>1 DEF Unread
  <2>3. PICK l \in Seq(Tokens) : l = Listed(texts)
    BY <1>14, <2>2
  <2>4. PICK o \in Seq(Tokens) : o = <<<<"[">>>> \o l
    BY <1>12, ReadEnds
  <2>5. o \o <<<<"]">>>> \in Seq(Tokens)
    BY <1>12, ReadEnds
  <2> QED
    BY <1>9, <2>3, <2>4, <2>5
<1> QED
  BY <1>5, <1>14, <1>15 DEF Tells

\* A value that is printed as such.
LEMMA LeafTells ==
    ASSUME Whole, NEW n \in Nodes, Leaf(n.key), NEW text
    PROVE  Tells(n, toml_key_dump(n.key, text))
<1>1. HeapInv /\ Charted /\ n.key \in Allocated
  BY DEF Whole, Charted, Loose
<1>2. keys[n.key] \in KeyType /\ keys[n.key].type = "KEYLEAF" /\ keys[n.key].value # "none"
  BY <1>1, Pointers DEF HeapInv, IInv, Leaf
<1>3. keys[n.key].value \in Values
  BY <1>1, <1>2 DEF Whole, Valued, KeyType
<1>4. UsedIds(n.key) = {}
  BY <1>1, <1>2 DEF Whole, Valued, ValueOrSubkeys
<1>5. PICK v \in Values : v = keys[n.key].value /\ v = Content(n.key)
  BY <1>2, <1>3 DEF Content
<1>6. toml_key_dump(n.key, text) = <<<<"value", v>>>>
  BY <1>2, <1>5 DEF toml_key_dump
<1>7. <<"value", v>> \in Tokens
  BY DEF Tokens
<1>8. PICK p \in Seq(Steps) : p = n.path
  BY <1>1, KindFacts
<1>9. Beyond(p, p)
  BY BeyondSelf
<1>10. ASSUME NEW m \in Nodes, Beyond(p, m.path) PROVE m = n
  <2> SUFFICES ASSUME m # n PROVE FALSE
    OBVIOUS
  <2>1. PICK c \in Nodes, s \in Steps : c.path = Append(n.path, s)
    BY <1>1, <1>8, <1>10, BelowChild
  <2>2. PICK d : d.path = <<s>> /\ d.key = c.key /\ (BySlot(n.key, d) \/ ByCell(n.key, d))
    BY <2>1, ChildPointer
  <2> QED
    BY <1>2, <1>4, <2>2 DEF BySlot, ByCell
<1>11. Below(n) = {<<p, v>>}
  BY <1>5, <1>8, <1>9, <1>10 DEF Below
<1>12. ASSUME NEW in \in Seq(Brackets), NEW want, NEW F, "value" \in want, Unread(F, n)
       PROVE  ReadOn(At(in, p, want, F), <<<<"value", v>>>>)
                = At(in, p, MoreOrEnd, F \cup Below(n))
  <2>1. Absent(F, p)
    BY <1>8, <1>9, <1>12 DEF Unread, Absent
  <2>2. ReadToken(At(in, p, want, F), <<"value", v>>) = At(in, p, MoreOrEnd, Plus(F, p, v))
    BY <1>12, <2>1, ValueRead
  <2>3. \A o, t : ReadOn(o, <<t>>) = ReadToken(o, t)
    BY ReadOne
  <2> QED
    BY <1>11, <2>2, <2>3 DEF Plus
<1>13. <<<<"value", v>>>> \in Seq(Tokens)
  <2>1. PICK t \in Tokens : t = <<"value", v>>
    BY <1>7
  <2>2. <<t>> \in Seq(Tokens)
    OBVIOUS
  <2> QED
    BY <2>1, <2>2
<1> QED
  BY <1>6, <1>8, <1>12, <1>13 DEF Tells

\* Every key prints what is to be found at it and below it.
LEMMA AllTell == ASSUME Whole PROVE \A n \in Nodes : Tells(n, Printed[n.key])
<1> SUFFICES ASSUME {n \in Nodes : ~Tells(n, Printed[n.key])} # {} PROVE FALSE
  OBVIOUS
<1> DEFINE T == {n \in Nodes : ~Tells(n, Printed[n.key])}
<1>1. HeapInv /\ Charted
  BY DEF Whole
<1>2. \A n \in Nodes : n.key \in 1 .. MaxKeys
  BY <1>1 DEF Charted, Planted, NodeSet
<1>3. PICK n \in T : \A m \in T : m.key <= n.key
  <2> DEFINE rank == [m \in T |-> MaxKeys - m.key]
  <2>1. rank \in [T -> Nat]
    BY <1>2
  <2>2. T # {}
    OBVIOUS
  <2>3. PICK n \in T : \A m \in T : rank[n] <= rank[m]
    <3> HIDE DEF rank, T
    <3> QED
      BY <2>1, <2>2, LeastRank
  <2>4. ASSUME NEW m \in T PROVE m.key <= n.key
    <3>1. MaxKeys - n.key <= MaxKeys - m.key
      BY <2>3
    <3>2. n.key \in 1 .. MaxKeys /\ m.key \in 1 .. MaxKeys
      BY <1>2
    <3> QED
      BY <3>1, <3>2
  <2> QED
    BY <2>4
<1>4. n \in Nodes /\ ~Tells(n, Printed[n.key]) /\ n.key \in 1 .. MaxKeys
  BY <1>2
<1>5. ASSUME NEW c \in Nodes, c.key > n.key PROVE Tells(c, Printed[c.key])
  <2>1. c.key \in 1 .. MaxKeys
    BY <1>2
  <2>2. ~(c.key <= n.key)
    BY <1>4, <1>5, <2>1
  <2> QED
    BY <1>3, <2>2
<1>6. \A k \in 1 .. MaxKeys : Printed[k] = toml_key_dump(k, Printed)
  BY <1>1, PrintedIs
<1> HIDE DEF T
<1>7. CASE Leaf(n.key)
  BY <1>4, <1>6, <1>7, LeafTells
<1>8. CASE keys[n.key].type = "ARRAYTABLE"
  <2>1. ASSUME NEW c \in Nodes, c.key > n.key, keys[c.key].type = "KEY"
        PROVE  Tells(c, Braces(c.key, Printed))
    <3>1. Printed[c.key] = toml_key_dump(c.key, Printed)
      BY <1>2, <1>6
    <3>2. toml_key_dump(c.key, Printed) = Braces(c.key, Printed)
      BY <2>1 DEF toml_key_dump, Leaf
    <3> QED
      BY <1>5, <2>1, <3>1, <3>2
  <2>2. Tells(n, toml_key_dump(n.key, Printed))
    BY <1>4, <1>8, <2>1, TablesTell
  <2> QED
    BY <1>4, <1>6, <2>2
<1>9. CASE ~Leaf(n.key) /\ keys[n.key].type # "ARRAYTABLE"
  <2>1. Tells(n, Braces(n.key, Printed))
    BY <1>4, <1>5, <1>9, BracesTell
  <2>2. toml_key_dump(n.key, Printed) = Braces(n.key, Printed)
    BY <1>9 DEF toml_key_dump
  <2> QED
    BY <1>4, <1>6, <2>1, <2>2
<1> QED
  BY <1>7, <1>8, <1>9

LEMMA WholeDumps == ASSUME Whole PROVE DumpReadsBack
<1>1. HeapInv /\ Charted
  BY DEF Whole
<1>2. RootNode \in Nodes /\ RootNode.path = <<>> /\ RootNode.key = Root
  BY <1>1, RootNodeFacts DEF Charted, Planted, Root
<1>3. keys[Root].type = "TABLE"
  BY <1>1 DEF HeapInv, Contained
<1>4. Tells(RootNode, Braces(Root, Printed))
  <2>1. ~Leaf(RootNode.key) /\ keys[RootNode.key].type # "ARRAYTABLE"
    BY <1>2, <1>3 DEF Leaf
  <2>2. \A c \in Nodes : Tells(c, Printed[c.key])
    BY AllTell
  <2>3. Tells(RootNode, Braces(RootNode.key, Printed))
    BY <1>2, <2>1, <2>2, BracesTell
  <2> QED
    BY <1>2, <2>3
<1>5. Below(RootNode) = {<<n.path, Content(n.key)>> : n \in Nodes}
  <2>1. \A m \in Nodes : Beyond(<<>>, m.path)
    <3>1. \A m \in Nodes : m.path \in Seq(Steps)
      BY <1>1, KindFacts
    <3>2. \A q \in Seq(Steps) : <<>> \o q = q
      OBVIOUS
    <3> QED
      BY <3>1, <3>2 DEF Beyond
  <2> QED
    BY <1>2, <2>1 DEF Below
<1>6. PICK in, want, F : in = <<>> /\ want = {"value"} /\ F = {}
  OBVIOUS
<1>7. Reader = At(in, <<>>, want, F)
  BY <1>6 DEF Reader, At
<1>8. ReadOn(At(in, <<>>, want, F), Braces(Root, Printed))
         = At(in, <<>>, MoreOrEnd, F \cup Below(RootNode))
  <2>1. in \in Seq(Brackets) /\ "value" \in want /\ Unread(F, RootNode)
    BY <1>6 DEF Unread
  <2> QED
    BY <1>2, <1>4, <2>1 DEF Tells
<1>9. PICK r : r = ReadJson(toml_json_dump)
  OBVIOUS
<1>10. r = At(<<>>, <<>>, MoreOrEnd, Below(RootNode))
  BY <1>6, <1>7, <1>8, <1>9 DEF ReadJson, toml_json_dump
<1>11. r.ok = TRUE /\ r.in = <<>> /\ r.found = Below(RootNode)
  BY <1>10 DEF At
<1> QED
  BY <1>5, <1>9, <1>11 DEF DumpReadsBack

\* Between statements, and after the last one, no key is held.
Idle == mode \in {"statement", "done"} => at = NULL

LEMMA IdleStep == ASSUME Idle, Between, [Next]_vars PROVE Idle'
<1>1. ASSUME NEW id \in Ids, NEW final \in BOOLEAN,
             Descend(id, final) \/ Create(id, final) \/ Redefine(id, final) \/ Overflow(id)
      PROVE  Idle'
  <2>1. ASSUME NEW k, Arrive(k, final), mode \in Walking PROVE Idle'
    BY <2>1 DEF Arrive, Walking, Idle
  <2>2. CASE Descend(id, final) \/ Create(id, final)
    BY <2>1, <2>2 DEF Descend, Create
  <2>3. CASE Redefine(id, final) \/ Overflow(id)
    BY <2>3 DEF Redefine, Overflow, Idle
  <2> QED
    BY <1>1, <2>2, <2>3
<1>2. CASE Segment
  BY <1>1, <1>2 DEF Segment
<1>3. CASE StartKey \/ StartTable \/ Finish \/ Invalid
  BY <1>3 DEF StartKey, StartTable, Finish, Invalid, Idle
<1>4. CASE NewElement \/ ArrayOverflow
  BY <1>4 DEF NewElement, ArrayOverflow, Idle
<1>5. CASE SetValue
  BY <1>5 DEF SetValue, Idle
<1>6. CASE OpenInline \/ InlineKey
  BY <1>6 DEF OpenInline, InlineKey, Idle
<1>7. CASE CloseInline
  BY <1>7 DEF CloseInline, Between, Idle
<1>8. CASE Halted \/ UNCHANGED vars
  BY <1>8 DEF Halted, vars, Idle
<1> QED
  BY <1>2, <1>3, <1>4, <1>5, <1>6, <1>7, <1>8 DEF Next

LEMMA IdleHolds == Spec => []Idle
<1>1. Init => Idle
  BY DEF Init, Idle
<1>2. Idle /\ HeapInv /\ [Next]_vars => Idle'
  BY IdleStep DEF HeapInv
<1> QED
  BY <1>1, <1>2, HeapInductive, PTL DEF Spec

(***************************************************************************)
(* toml_json_dump of a loaded tree is JSON, and whoever reads it finds     *)
(* every key, table and value of the tree under its path, once, and        *)
(* nothing else: for trees of any size and any depth.                      *)
(***************************************************************************)
THEOREM DumpComplete == Spec => []DumpReadsBack
<1>1. HeapInv /\ Charted /\ Valued /\ Outside /\ Idle => DumpReadsBack
  <2>1. ASSUME HeapInv, Charted, Valued, Outside, Idle, Loaded PROVE DumpReadsBack
    <3>1. Whole
      BY <2>1 DEF Whole, Outside, Idle, Loaded
    <3> QED
      BY <3>1, WholeDumps
  <2> QED
    BY <2>1 DEF DumpReadsBack
<1> QED
  BY <1>1, HeapInductive, ValuedInductive, OutsideHolds, IdleHolds, PTL
=============================================================================
